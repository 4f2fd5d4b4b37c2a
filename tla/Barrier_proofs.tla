--------------------------- MODULE Barrier_proofs ---------------------------
(***************************************************************************)
(* The barrier is one: for every set of cores, nobody leaves it early.     *)
(***************************************************************************)
EXTENDS Barrier, TLAPS

(* Threads that init has yet to create, or to wake, have not moved. *)
Waiting ==
  /\ loader = "out" => \A t \in Threads : pc[t] = "none"
  /\ loader = "create" => \A t \in Threads : t >= at => pc[t] = "none"
  /\ loader = "wake" => \A t \in Threads : t >= at => pc[t] = "created"
  /\ loader = "create" => \A t \in Threads : t < at => pc[t] = "created"

Due(t) == IF pc[t] \in {"spin", "left"} THEN 0 ELSE 1

(* The counter is the number of the threads that have not arrived. *)
Counted == loader # "out" => counter = Due(1) + Due(2) + Due(3) + Due(4)

IInv == BarrierTypeOK /\ Waiting /\ Counted /\ NobodyLeavesEarly

(* Only when all have arrived is the counter zero. *)
LEMMA ZeroMeansAll ==
  ASSUME loader # "out", Counted, counter = 0
  PROVE  \A t \in Threads : pc[t] \in {"spin", "left"}
  BY SMT DEF Counted, Due, Threads

LEMMA InitIsGood == Init => IInv
  BY SMT DEF Init, IInv, BarrierTypeOK, Waiting, Counted, NobodyLeavesEarly,
             Threads, Places

(* The threads' steps change one place, and the counter with an arrival. *)
LEMMA ThreadKeeps ==
  ASSUME IInv, NEW t \in Threads, ThreadStep(t)
  PROVE  IInv'
<1> USE DEF Threads, Places
<1>1. loader \notin {"out", "create"} /\ (loader = "wake" => t < at)
  BY SMT DEF IInv, Waiting, BarrierTypeOK, ThreadStep, Runs, Awake
<1> DEFINE Moves(place) ==
      /\ pc' = [pc EXCEPT ![t] = place]
      /\ \/ pc[t] = "spin" /\ counter = 0 /\ place = "left" /\ counter' = counter
         \/ pc[t] \notin {"spin", "left"} /\ place = "spin" /\ counter' = counter - 1
         \/ /\ pc[t] \notin {"spin", "left"} /\ place \notin {"spin", "left"}
            /\ counter' = counter
<1>2. loader' = loader /\ at' = at /\ stop' = stop
  BY DEF ThreadStep, init
<1>3. intact' \in BOOLEAN
  <2>1. intact' = intact \/ intact' = FALSE
    BY DEF ThreadStep, FirstRun, ReadNumber, Stamp, Arrive, Leave
  <2> QED BY <2>1 DEF IInv, BarrierTypeOK
<1>4. \E place \in Places : Moves(place)
  <2>0. pc \in [Threads -> Places]
    BY DEF IInv, BarrierTypeOK
  <2>1. CASE FirstRun(t)
    <3>1. CASE t \in stop
      <4>1. Moves("skipped") BY <2>1, <3>1, SMT DEF FirstRun
      <4> QED BY <4>1
    <3>2. CASE t \notin stop
      <4>1. Moves("number") BY <2>1, <3>2, SMT DEF FirstRun
      <4> QED BY <4>1
    <3> QED BY <3>1, <3>2
  <2>2. CASE ReadNumber(t)
    <3>1. Moves("stamp") \/ Moves("astray") BY <2>2, SMT DEF ReadNumber
    <3> QED BY <3>1
  <2>3. CASE Stamp(t)
    <3>1. CASE pc[t] = "stamp"
      <4>1. Moves("arrive") BY <2>3, <3>1, SMT DEF Stamp
      <4> QED BY <4>1
    <3>2. CASE pc[t] = "astray"
      <4>1. Moves("astray") BY <2>0, <2>3, <3>2, SMT DEF Stamp
      <4> QED BY <4>1
    <3> QED BY <2>3, <3>1, <3>2 DEF Stamp
  <2>4. CASE Arrive(t)
    <3>1. Moves("spin") BY <2>4, SMT DEF Arrive
    <3> QED BY <3>1
  <2>5. CASE Leave(t)
    <3>1. Moves("left") BY <2>5, SMT DEF Leave, Open
    <3> QED BY <3>1
  <2> QED BY <2>1, <2>2, <2>3, <2>4, <2>5 DEF ThreadStep
<1> PICK place \in Places : Moves(place)
  BY <1>4
<1>5. BarrierTypeOK'
  BY <1>2, <1>3, SMT DEF IInv, BarrierTypeOK
<1>6. Waiting'
  BY <1>1, <1>2, SMT DEF IInv, BarrierTypeOK, Waiting
<1>7. Counted'
  BY <1>1, <1>2, SMT DEF IInv, BarrierTypeOK, Counted, Due
<1>8. NobodyLeavesEarly'
  <2>1. CASE counter = 0 /\ place = "left"
    <3>1. \A u \in Threads : pc[u] \in {"spin", "left"}
      BY <1>1, <2>1, ZeroMeansAll DEF IInv
    <3> QED BY <3>1, <2>1, <1>2, SMT DEF IInv, BarrierTypeOK, NobodyLeavesEarly
  <2>2. CASE ~(counter = 0 /\ place = "left")
    BY <2>2, <1>2, SMT DEF IInv, BarrierTypeOK, NobodyLeavesEarly
  <2> QED BY <2>1, <2>2
<1> QED BY <1>5, <1>6, <1>7, <1>8 DEF IInv

(* Those of init and exit move only threads that have not begun. *)
LEMMA InitKeeps ==
  ASSUME IInv, InitStep
  PROVE  IInv'
<1> USE DEF IInv, BarrierTypeOK, Waiting, Counted, NobodyLeavesEarly, Due,
            Threads, Places
<1>1. CASE Load
  BY <1>1, SMT DEF Load, Setup
<1>2. CASE Create
  <2>1. CASE InitGoesOn("create", "wake") /\ pc' = [pc EXCEPT ![at] = "created"]
    <3>1. pc[at] = "none" BY <2>1, SMT DEF InitGoesOn
    <3> QED BY <1>2, <2>1, <3>1, SMT DEF Create, InitGoesOn
  <2>2. CASE loader = "create" /\ loader' = "failed" /\ UNCHANGED <<at, pc>>
    BY <1>2, <2>2, SMT DEF Create
  <2> QED BY <1>2, <2>1, <2>2 DEF Create
<1>3. CASE WakeUp
  <2>1. pc[at] = "created" BY <1>3, SMT DEF WakeUp, InitGoesOn
  <2> QED BY <1>3, <2>1, SMT DEF WakeUp, InitGoesOn
<1>4. CASE Unload
  BY <1>4, SMT DEF Unload
<1>5. CASE Stop
  BY <1>5, SMT DEF Stop, init
<1>6. CASE Stopped
  BY <1>6, SMT DEF Stopped, InitGoesOn
<1> QED BY <1>1, <1>2, <1>3, <1>4, <1>5, <1>6 DEF InitStep

LEMMA StepKeeps == IInv /\ [Next]_vars => IInv'
<1> SUFFICES ASSUME IInv, [Next]_vars PROVE IInv'
  OBVIOUS
<1>1. CASE UNCHANGED vars
  BY <1>1, SMT DEF vars, init, IInv, BarrierTypeOK, Waiting, Counted, Due,
                   NobodyLeavesEarly
<1>2. CASE InitStep
  BY <1>2, InitKeeps
<1>3. CASE \E t \in Threads : ThreadStep(t)
  BY <1>3, ThreadKeeps
<1> QED BY <1>1, <1>2, <1>3 DEF Next

(* wait of timing_module_q7.c (lines 36 to 44) is a barrier: whatever cores*)
(* there are and whenever the module is removed, nobody is past it before  *)
(* every thread has come to it.                                            *)
THEOREM NobodyLeavesEarlyHolds == Spec => []NobodyLeavesEarly
<1>1. IInv => NobodyLeavesEarly
  BY DEF IInv
<1> QED BY <1>1, InitIsGood, StepKeeps, PTL DEF Spec
=============================================================================
