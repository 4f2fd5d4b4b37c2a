------------------------ MODULE KernelModules_proofs ------------------------
(***************************************************************************)
(* The FIFOs, the timing and memory modules, and the types of all modules, *)
(* for every size, number of users and bound.  Names with f_ and Fifo! are *)
(* those of KfifoModule, t_ and Tim! of Timing, m_ and Mem! of             *)
(* KernelMemory, p_ and Per! of PeriodicThreads, u_ and Udp! of UdpServer. *)
(***************************************************************************)
EXTENDS KernelModulesMC, Barrier_proofs, Sequences, FiniteSetTheorems, WellFoundedInduction,
        TLAPS

-----------------------------------------------------------------------------
(* The timing module: where the thread is, and when exit is past it, say   *)
(* which stamps were taken and in what order.                              *)

TStarted == {"mark1", "sleep1", "stamp5", "arm", "mark2", "sleep2", "stamp7"}
TLate    == {"arm", "mark2", "sleep2", "stamp7"}

TShapes ==
  /\ t_loader \in {"out", "create", "schedule", "in", "stop_thread", "stop_child",
                   "print", "gone", "failed"}
  /\ t_thread \in {"none", "created", "first", "ended"} \cup TStarted
  /\ t_child \in {"none", "runs", "ended"} /\ t_intact \in BOOLEAN
  /\ t_ts \in [Tim!Positions -> Nat]
  /\ Tim!TimingTypeOK

(* Stamps 0, 1 and 2 are those of init. *)
TInitOrder ==
  /\ t_loader # "out" => t_ts[0] > 0
  /\ t_loader \notin {"out", "create"} => t_ts[1] > t_ts[0]
  /\ t_loader \notin {"out", "create", "schedule", "failed"} => t_ts[2] > t_ts[1]
  /\ t_loader \in {"out", "create"} => t_thread = "none" /\ t_armed = {}
  /\ t_loader = "failed" => t_thread = "none"

(* A timer fires once.  Only exit wakes the thread from its first sleep.   *)
TThreadOrder ==
  /\ t_thread = "first" /\ "thread" \notin t_stop =>
       t_ts[3] > 0 /\ "ahrtimer" \notin t_armed
  /\ t_thread \in TStarted =>
       t_ts[3] > 0 /\ "ahrtimer" \notin t_armed /\ t_ts[4] > t_ts[0]
  /\ t_thread \in {"stamp5"} \cup TLate => "thread" \in t_stop
  /\ t_thread \in TLate => t_child # "none" /\ t_ts[5] > t_ts[3]
  /\ t_thread \in {"none", "created", "first", "mark1", "sleep1", "stamp5"} =>
       t_child = "none" /\ "childtimer" \notin t_armed
  /\ t_thread = "arm" => "childtimer" \notin t_armed
  /\ t_thread = "stamp7" => "childtimer" \notin t_armed /\ t_ts[6] > 0
  /\ t_thread = "ended" => "childtimer" \notin t_armed
  /\ t_thread = "ended" /\ t_child # "none" =>
       /\ "ahrtimer" \notin t_armed
       /\ t_ts[3] > 0 /\ t_ts[4] > t_ts[0] /\ t_ts[5] > t_ts[3]
       /\ t_ts[6] > 0 /\ t_ts[7] > t_ts[6]

TExitOrder ==
  /\ t_loader \in {"stop_child", "print", "gone"} =>
       t_thread = "ended" /\ "thread" \in t_stop /\ t_child # "none"
  /\ t_loader \in {"out", "create", "schedule", "in", "failed"} => t_stop = {}

TOrders == TInitOrder /\ TThreadOrder /\ TExitOrder
TInv    == TShapes /\ (t_intact => TOrders) /\ Tim!DifferencesAreReal

\* Nothing has been stamped.
LEMMA TInitIsGood == Tim!Init => TInv
  BY DEF Tim!Init, TInv, TOrders, TShapes, TInitOrder, TThreadOrder, TExitOrder, TStarted,
         TLate, Tim!TimingTypeOK, Tim!Positions, Tim!DifferencesAreReal

(* A stamp is later than all that were taken before. *)
LEMMA StampIsLast ==
  ASSUME TShapes, NEW i \in Tim!Positions, Tim!Stamps(i)
  PROVE  /\ t_ts' \in [Tim!Positions -> Nat] /\ t_clock' \in Nat
         /\ \A j \in Tim!Positions : t_ts'[j] \in 0 .. t_clock'
         /\ \A j \in Tim!Positions \ {i} : t_ts'[j] = t_ts[j]
         /\ \A j \in Tim!Positions : t_ts'[i] > t_ts[j]
         /\ t_ts'[i] > 0
  BY DEF TShapes, Tim!Stamps, Tim!TimingTypeOK

\* Places, stamps and clock keep their types.
LEMMA TimingKeepsShapes ==
  ASSUME TShapes, Tim!Next
  PROVE  TShapes'
<1> DEFINE Kept == /\ t_ts' \in [Tim!Positions -> Nat] /\ t_clock' \in Nat
                   /\ \A j \in Tim!Positions : t_ts'[j] \in 0 .. t_clock'
<1>1. UNCHANGED <<t_ts, t_clock>> => Kept
  BY DEF TShapes, Tim!TimingTypeOK
<1>2. \A i \in Tim!Positions : Tim!Stamps(i) => Kept
  BY StampIsLast
<1>3. Kept
  <2>1. \A i \in {0, 1, 2, 3, 4, 5, 6, 7} : i \in Tim!Positions
    BY DEF Tim!Positions
  <2>2. UNCHANGED <<t_ts, t_clock>>
          \/ \E i \in {0, 1, 2, 3, 4, 5, 6, 7} : Tim!Stamps(i)
    BY DEF Tim!Next, Tim!Zeroed, Tim!Create, Tim!SetScheduler, Tim!TimerFunction,
       Tim!ChildTimerFunction, Tim!Fires, Tim!FirstRun, Tim!Mark, Tim!CreateChild,
       Tim!StartChildTimer, Tim!LastStamp, Tim!ChildEnds, Tim!Unload, Tim!StopThread,
       Tim!StopChild, Tim!Report, Tim!CancelAndFree, Tim!timers
  <2> HIDE DEF Kept
  <2> QED BY <1>1, <1>2, <2>1, <2>2
<1> HIDE DEF Kept
<1>4. /\ t_loader' \in {"out", "create", "schedule", "in", "stop_thread", "stop_child",
                        "print", "gone", "failed"}
      /\ t_thread' \in {"none", "created", "first", "ended"} \cup TStarted
      /\ t_child' \in {"none", "runs", "ended"}
      /\ t_stop' \subseteq {"thread", "child"}
      /\ t_armed' \subseteq {"ahrtimer", "childtimer"}
  BY DEF TShapes, TStarted, Tim!TimingTypeOK,
     Tim!Next, Tim!Zeroed, Tim!Create, Tim!SetScheduler, Tim!TimerFunction,
     Tim!ChildTimerFunction, Tim!Fires, Tim!FirstRun, Tim!Mark, Tim!CreateChild,
     Tim!StartChildTimer, Tim!LastStamp, Tim!ChildEnds, Tim!Unload, Tim!StopThread,
     Tim!StopChild, Tim!Report, Tim!CancelAndFree, Tim!timers, Tim!LoadsTo, Tim!Woken
<1>5. t_intact' \in BOOLEAN
  BY DEF TShapes, Tim!Next, Tim!Zeroed, Tim!Create, Tim!SetScheduler, Tim!TimerFunction,
     Tim!ChildTimerFunction, Tim!Fires, Tim!FirstRun, Tim!Mark, Tim!CreateChild,
     Tim!StartChildTimer, Tim!LastStamp, Tim!ChildEnds, Tim!Unload, Tim!StopThread,
     Tim!StopChild, Tim!Report, Tim!CancelAndFree
<1> QED BY <1>3, <1>4, <1>5 DEF Kept, TShapes, Tim!TimingTypeOK

(* The thread's place and the stamps change together.                      *)
LEMMA TimingKeepsOrders ==
  ASSUME TShapes, TOrders, Tim!Next, t_intact'
  PROVE  TOrders'
<1> USE DEF TOrders, TInitOrder, TThreadOrder, TExitOrder, TStarted, TLate, Tim!LoadsTo
<1>0. \A i \in {0, 1, 2, 3, 4, 5, 6, 7} : i \in Tim!Positions
  BY DEF Tim!Positions
<1>1. /\ \A i \in Tim!Positions : t_ts[i] \in Nat /\ t_ts[i] <= t_clock
      /\ t_clock \in Nat
      /\ t_thread \in {"none", "created", "first", "ended"} \cup TStarted
  BY DEF TShapes, Tim!TimingTypeOK
<1>2. CASE Tim!Zeroed
  <2>1. Tim!Stamps(0)
    BY <1>2 DEF Tim!Zeroed
  <2> QED BY <1>0, <1>1, <1>2, <2>1, StampIsLast DEF Tim!Zeroed
<1>3. CASE Tim!Create
  <2>1. Tim!Stamps(1)
    BY <1>3 DEF Tim!Create
  <2> QED BY <1>0, <1>1, <1>3, <2>1, StampIsLast DEF Tim!Create
<1>4. CASE Tim!SetScheduler
  <2>1. Tim!Stamps(2)
    BY <1>4 DEF Tim!SetScheduler
  <2> QED BY <1>0, <1>1, <1>4, <2>1, StampIsLast DEF Tim!SetScheduler
<1>5. CASE Tim!TimerFunction
  <2>1. Tim!Stamps(3)
    BY <1>5 DEF Tim!TimerFunction, Tim!Fires
  <2> QED BY <1>0, <1>1, <1>5, <2>1, StampIsLast DEF Tim!TimerFunction, Tim!Fires, Tim!Woken
<1>6. CASE Tim!ChildTimerFunction
  <2>1. Tim!Stamps(6)
    BY <1>6 DEF Tim!ChildTimerFunction, Tim!Fires
  <2> QED BY <1>0, <1>1, <1>6, <2>1, StampIsLast
          DEF Tim!ChildTimerFunction, Tim!Fires, Tim!Woken
<1>7. CASE Tim!FirstRun
  <2>1. CASE "thread" \in t_stop
    BY <1>0, <1>1, <1>7, <2>1 DEF Tim!FirstRun
  <2>2. CASE "thread" \notin t_stop
    <3>1. Tim!Stamps(4)
      BY <1>7, <2>2 DEF Tim!FirstRun
    <3> QED BY <1>0, <1>1, <1>7, <2>2, <3>1, StampIsLast DEF Tim!FirstRun
  <2> QED BY <2>1, <2>2
<1>8. CASE Tim!CreateChild
  <2>1. Tim!Stamps(5)
    BY <1>8 DEF Tim!CreateChild
  <2> QED BY <1>0, <1>1, <1>8, <2>1, StampIsLast DEF Tim!CreateChild
<1>9. CASE Tim!LastStamp
  <2>1. Tim!Stamps(7)
    BY <1>9 DEF Tim!LastStamp
  <2> QED BY <1>0, <1>1, <1>9, <2>1, StampIsLast DEF Tim!LastStamp
<1>10. CASE Tim!Mark
  BY <1>10 DEF Tim!Mark, Tim!timers
<1>11. CASE Tim!StartChildTimer
  BY <1>11 DEF Tim!StartChildTimer
<1>12. CASE Tim!ChildEnds
  BY <1>12 DEF Tim!ChildEnds, Tim!timers
<1>13. CASE Tim!Unload
  BY <1>13 DEF Tim!Unload, Tim!timers
<1>14. CASE Tim!StopThread
  BY <1>1, <1>14 DEF Tim!StopThread, Tim!timers, Tim!Woken
<1>15. CASE Tim!StopChild
  BY <1>15 DEF Tim!StopChild, Tim!timers
<1>16. CASE Tim!Report
  BY <1>16 DEF Tim!Report, Tim!timers
<1>17. CASE Tim!CancelAndFree
  BY <1>17 DEF Tim!CancelAndFree
<1> QED BY <1>2, <1>3, <1>4, <1>5, <1>6, <1>7, <1>8, <1>9, <1>10, <1>11, <1>12, <1>13,
           <1>14, <1>15, <1>16, <1>17 DEF Tim!Next

(* Exit prints after the thread has taken its last stamp.                  *)
LEMMA OrdersSuffice ==
  TShapes /\ TOrders => Tim!DifferencesAreReal
<1> SUFFICES ASSUME TShapes, TOrders, t_loader = "print", NEW d \in Tim!Differences
             PROVE  t_ts[d[1]] > t_ts[d[2]] /\ t_ts[d[2]] > 0
  BY DEF Tim!DifferencesAreReal
<1>1. \A i \in {0, 1, 2, 3, 4, 5, 6, 7} : i \in Tim!Positions /\ t_ts[i] \in Nat
  BY DEF TShapes, Tim!Positions
<1>2. t_thread = "ended" /\ t_child # "none"
  BY DEF TOrders, TExitOrder
<1>3. /\ t_ts[0] > 0 /\ t_ts[1] > t_ts[0] /\ t_ts[2] > t_ts[1]
      /\ t_ts[3] > 0 /\ t_ts[4] > t_ts[0] /\ t_ts[5] > t_ts[3]
      /\ t_ts[6] > 0 /\ t_ts[7] > t_ts[6]
  BY <1>2 DEF TOrders, TInitOrder, TThreadOrder
<1>4. t_ts[1] > 0
  BY <1>1, <1>3
<1>5. d \in {<<1, 0>>, <<2, 1>>, <<4, 0>>, <<5, 3>>, <<7, 6>>}
  BY DEF Tim!Differences
<1> QED BY <1>3, <1>4, <1>5

\* The same of the next state.
LEMMA OrdersSufficeNext == TShapes' /\ TOrders' => Tim!DifferencesAreReal'
  BY OrdersSuffice, PTL

(* No step shows undefined behaviour while exit prints.                    *)
LEMMA TimingKeeps == TInv /\ Tim!Next => TInv'
<1> SUFFICES ASSUME TInv, Tim!Next PROVE TInv'
  OBVIOUS
<1>1. TShapes /\ TOrders /\ t_intact
  BY DEF TInv, Tim!Next
<1>2. TShapes' /\ (t_intact' => TOrders')
  BY <1>1, TimingKeepsShapes, TimingKeepsOrders
<1>3. CASE t_intact'
  BY <1>2, <1>3, OrdersSufficeNext DEF TInv
<1>4. CASE ~t_intact'
  <2>1. t_loader' # "print"
    <3> SUFFICES ASSUME t_loader' = "print" PROVE FALSE
      OBVIOUS
    <3>1. CASE t_loader = "print"
      <4>1. t_thread = "ended" /\ t_child # "none" /\ t_armed = {}
        BY <1>1, <3>1 DEF TOrders, TThreadOrder, TExitOrder, TShapes, Tim!TimingTypeOK
      <4> QED BY <1>1, <1>4, <3>1, <4>1 DEF Tim!Next, Tim!Zeroed, Tim!Create,
         Tim!SetScheduler, Tim!TimerFunction, Tim!ChildTimerFunction, Tim!Fires,
         Tim!FirstRun, Tim!Mark, Tim!CreateChild, Tim!StartChildTimer, Tim!LastStamp,
         Tim!ChildEnds, Tim!Unload, Tim!StopThread, Tim!StopChild, Tim!Report,
         Tim!CancelAndFree, Tim!LoadsTo
    <3>2. CASE t_loader # "print"
      BY <1>1, <1>4, <3>2 DEF Tim!Next, Tim!Zeroed, Tim!Create,
         Tim!SetScheduler, Tim!TimerFunction, Tim!ChildTimerFunction, Tim!Fires,
         Tim!FirstRun, Tim!Mark, Tim!CreateChild, Tim!StartChildTimer, Tim!LastStamp,
         Tim!ChildEnds, Tim!Unload, Tim!StopThread, Tim!StopChild, Tim!Report,
         Tim!CancelAndFree, Tim!LoadsTo
    <3> QED BY <3>1, <3>2
  <2> QED BY <1>2, <1>4, <2>1 DEF TInv, Tim!DifferencesAreReal
<1> QED BY <1>3, <1>4

\* Steps of the other modules.
LEMMA TimingStays == TInv /\ UNCHANGED t_vars => TInv'
  BY DEF TInv, TShapes, TOrders, TInitOrder, TThreadOrder, TExitOrder, TStarted, TLate,
         Tim!TimingTypeOK, Tim!DifferencesAreReal, t_vars

\* The timing module's invariant is kept.
LEMMA TimingInductive == TInv /\ [SumNext]_sumvars => TInv'
<1> SUFFICES ASSUME TInv, [SumNext]_sumvars PROVE TInv'
  OBVIOUS
<1>1. CASE Tim!Next
  BY <1>1, TimingKeeps
<1>2. CASE UNCHANGED t_vars
  BY <1>2, TimingStays
<1> QED BY <1>1, <1>2 DEF SumNext, sumvars

(* The differences that exit of timing_module.c prints (lines 168 to 172)  *)
(* are each between two stamps that were taken, the second of them first,  *)
(* however the removal falls between the timers and the thread.            *)
THEOREM StampsInOrder == SumSpec => []DifferencesAreReal
<1>1. SumInit => TInv
  BY TInitIsGood DEF SumInit
<1>2. TInv => DifferencesAreReal
  BY DEF TInv, DifferencesAreReal
<1> QED BY <1>1, <1>2, TimingInductive, PTL DEF SumSpec

-----------------------------------------------------------------------------
(* The kernel FIFOs: what is between the indices is in its slots, and each *)
(* byte that was copied but whose index has not moved is known by its      *)
(* place in the order.                                                     *)

FPlaces == {"off", "open", "idle", "ended", "write", "move_in", "copy", "move_out"}

FShapes ==
  /\ f_in \in Nat /\ f_out \in Nat /\ f_next \in Nat
  /\ f_overlapped \in BOOLEAN /\ f_wrong \in BOOLEAN
  /\ f_slot \in [0 .. Size - 1 -> Nat] /\ f_pc \in [Fifo!Actors -> FPlaces]
  /\ f_held \in [Fifo!Actors -> Seq(Nat)]

FLocks ==
  /\ \A a \in Fifo!Actors : f_pc[a] \in {"write", "move_in"} => f_write_lock = a
  /\ \A u \in Users : f_pc[u] \in {"copy", "move_out"} => f_read_lock = u
  /\ f_pc["write_thread"] \notin {"copy", "move_out"}

FHolds(first, last) == \A b \in first .. last : f_slot[(b - 1) % Size] = b

(* What a holds are the bytes after the first ones.                        *)
FHas(a, first) ==
  \A i \in 1 .. Len(f_held[a]) : f_held[a][i] = first + i

FIndices ==
  ~f_wrong /\ f_next = f_out + 1 /\ f_in - f_out \in 0 .. Size /\ FHolds(f_out + 1, f_in)

FWriting ==
  \A a \in Fifo!Actors : f_pc[a] = "move_in" =>
    /\ FHas(a, f_in) /\ f_in + Len(f_held[a]) - f_out <= Size
    /\ FHolds(f_in + 1, f_in + Len(f_held[a]))

FReading ==
  /\ \A a, b \in Fifo!Actors :
       f_pc[a] \in {"copy", "move_out"} /\ f_pc[b] \in {"copy", "move_out"} => a = b
  /\ \A a \in Fifo!Actors : f_pc[a] = "move_out" =>
       FHas(a, f_out) /\ Len(f_held[a]) <= f_in - f_out

FOrder == FIndices /\ FWriting /\ FReading
FInv   == FShapes /\ FLocks /\ (~f_overlapped => FOrder)

(* Bytes less than Size apart have different slots.                        *)
LEMMA SlotsDiffer ==
  ASSUME NEW S \in Nat \ {0}, NEW a \in Nat, NEW b \in Nat, a < b, b - a < S
  PROVE  a % S # b % S
<1> SUFFICES ASSUME a % S = b % S PROVE FALSE
  OBVIOUS
<1>1. /\ a = S * (a \div S) + (a % S) /\ b = S * (b \div S) + (b % S)
      /\ a \div S \in Int /\ b \div S \in Int
      /\ a % S \in 0 .. S - 1 /\ b % S \in 0 .. S - 1
  OBVIOUS
<1>2. PICK p \in Int : p = a \div S
  BY <1>1
<1>3. PICK q \in Int : q = b \div S
  BY <1>1
<1>4. PICK r \in Int : r = a % S
  BY <1>1
<1>5. a = S * p + r /\ b = S * q + r
  BY <1>1, <1>2, <1>3, <1>4
<1>6. CASE q - p >= 1
  <2>1. PICK d \in Nat : q = p + 1 + d
    BY <1>6
  <2>2. S * q = S * p + S + S * d /\ S * d >= 0
    BY <2>1
  <2> QED BY <1>5, <2>2
<1>7. CASE q - p <= 0
  <2>1. PICK d \in Nat : p = q + d
    BY <1>7
  <2>2. S * p = S * q + S * d /\ S * d >= 0
    BY <2>1
  <2> QED BY <1>5, <2>2
<1> QED BY <1>6, <1>7

\* A byte's slot is one of the FIFO's.
LEMMA SlotInRange ==
  ASSUME NEW S \in Nat \ {0}, NEW a \in Nat
  PROVE  a % S \in 0 .. S - 1
  OBVIOUS

\* What is copied is a sequence of numbers.
LEMMA CopyIsSequence ==
  ASSUME NEW k \in Nat, NEW s \in [1 .. k -> Nat]
  PROVE  s \in Seq(Nat) /\ Len(s) = k
  OBVIOUS

\* One can only choose what is there.
LEMMA ChooseOne == \A x : (CHOOSE b \in {x} : TRUE) = x
  OBVIOUS

\* What is chosen is there.
LEMMA ChooseIn == ASSUME NEW S, S # {} PROVE (CHOOSE b \in S : TRUE) \in S
  OBVIOUS

\* The FIFO starts empty.
LEMMA FInitIsGood == Fifo!Init => FInv
<1> SUFFICES ASSUME Fifo!Init PROVE FInv
  OBVIOUS
<1>1. Size \in Nat \ {0}
  BY Parameters DEF Fifo!KfifoAssumption
<1>2. FShapes
  BY <1>1 DEF Fifo!Init, FShapes, FPlaces
<1>3. FLocks
  BY DEF Fifo!Init, FLocks, Fifo!Actors, Fifo!Threads, Fifo!Reader, Fifo!Writer
<1>4. FOrder
  BY <1>1 DEF Fifo!Init, FOrder, FIndices, FWriting, FReading, FHolds
<1> QED BY <1>2, <1>3, <1>4 DEF FInv

FCopies(a, k, s, h) ==
  /\ k = 0 \/ k <= Size - (f_in - f_out)
  /\ \A i \in 1 .. k : s[i] = f_in + i
  /\ s \in Seq(Nat) /\ Len(s) = k
  /\ f_held' = [f_held EXCEPT ![a] = s]
  /\ \A i \in 0 .. Size - 1 :
       h[i] = {b \in f_in + 1 .. f_in + k : (b - 1) % Size = i}
  /\ f_slot' \in [0 .. Size - 1 -> Nat]
  /\ \A i \in 0 .. Size - 1 :
       IF h[i] = {} THEN f_slot'[i] = f_slot[i]
       ELSE f_slot'[i] = CHOOSE b \in h[i] : TRUE

(* What a writer copies: up to two bytes, after in, never past the room.   *)
LEMMA CopyInWorks ==
  ASSUME FShapes, NEW a \in Fifo!Actors, Fifo!CopyIn(a)
  PROVE  \E k \in Nat : \E s \in [1 .. k -> Nat] : \E h \in [0 .. Size - 1 -> SUBSET Nat] :
           FCopies(a, k, s, h)
<1>1. Size \in Nat \ {0}
  BY Parameters DEF Fifo!KfifoAssumption
<1>2. PICK count \in 1 .. 2 :
        LET k == IF count < Size - (f_in - f_out) THEN count ELSE Size - (f_in - f_out) IN
         /\ f_held' = [f_held EXCEPT ![a] =
                         [i \in 1 .. (IF k > 0 THEN k ELSE 0) |-> f_in + i]]
         /\ f_slot' = [i \in 0 .. Size - 1 |->
                       LET hits == {b \in Fifo!ToSet(f_held'[a]) : (b - 1) % Size = i}
                       IN IF hits = {} THEN f_slot[i] ELSE CHOOSE b \in hits : TRUE]
  BY DEF Fifo!CopyIn
<1> DEFINE j == IF count < Size - (f_in - f_out) THEN count ELSE Size - (f_in - f_out)
<1>3. PICK k \in Nat : k = IF j > 0 THEN j ELSE 0
  <2>1. count \in Int /\ Size - (f_in - f_out) \in Int
    BY <1>1 DEF FShapes
  <2> QED BY <2>1
<1>4. k = 0 \/ k <= Size - (f_in - f_out)
  BY <1>1, <1>3 DEF FShapes
<1>5. PICK s : s = [i \in 1 .. k |-> f_in + i]
  OBVIOUS
<1>6. s \in [1 .. k -> Nat] /\ \A i \in 1 .. k : s[i] = f_in + i
  BY <1>5 DEF FShapes
<1>7. s \in Seq(Nat) /\ Len(s) = k
  BY <1>6, CopyIsSequence
<1>8. f_held' = [f_held EXCEPT ![a] = s]
  BY <1>2, <1>3, <1>5
<1>9. f_held'[a] = s
  BY <1>8 DEF FShapes
<1>10. Fifo!ToSet(s) = f_in + 1 .. f_in + k
  <2>1. Fifo!ToSet(s) = {s[i] : i \in 1 .. k}
    BY <1>6 DEF Fifo!ToSet
  <2>2. \A b \in f_in + 1 .. f_in + k : b - f_in \in 1 .. k /\ b = s[b - f_in]
    BY <1>6 DEF FShapes
  <2> QED BY <1>6, <2>1, <2>2 DEF FShapes
<1>11. PICK h \in [0 .. Size - 1 -> SUBSET Nat] :
         \A i \in 0 .. Size - 1 :
           h[i] = {b \in f_in + 1 .. f_in + k : (b - 1) % Size = i}
  <2> DEFINE g == [i \in 0 .. Size - 1 |->
                     {b \in f_in + 1 .. f_in + k : (b - 1) % Size = i}]
  <2>1. g \in [0 .. Size - 1 -> SUBSET Nat]
    BY DEF FShapes
  <2> QED BY <2>1
<1>a. \A i \in 0 .. Size - 1 :
        {b \in Fifo!ToSet(f_held'[a]) : (b - 1) % Size = i} = h[i]
  BY <1>9, <1>10, <1>11
<1>12. f_slot' = [i \in 0 .. Size - 1 |->
                    IF h[i] = {} THEN f_slot[i] ELSE CHOOSE b \in h[i] : TRUE]
  <2> DEFINE V(S, i) == IF S = {} THEN f_slot[i] ELSE CHOOSE b \in S : TRUE
             H(i) == {b \in Fifo!ToSet(f_held'[a]) : (b - 1) % Size = i}
  <2>1. f_slot' = [i \in 0 .. Size - 1 |-> V(H(i), i)]
    BY <1>2
  <2>2. \A i \in 0 .. Size - 1 : H(i) = h[i]
    BY <1>a
  <2>3. [i \in 0 .. Size - 1 |-> V(H(i), i)] = [i \in 0 .. Size - 1 |-> V(h[i], i)]
    <3> HIDE DEF H, V
    <3> QED BY <2>2
  <2> QED BY <2>1, <2>3
<1>13. \A i \in 0 .. Size - 1 : h[i] # {} => (CHOOSE b \in h[i] : TRUE) \in Nat
  BY <1>11, ChooseIn
<1>14. /\ f_slot' \in [0 .. Size - 1 -> Nat]
       /\ \A i \in 0 .. Size - 1 :
            IF h[i] = {} THEN f_slot'[i] = f_slot[i]
            ELSE f_slot'[i] = CHOOSE b \in h[i] : TRUE
  BY <1>12, <1>13 DEF FShapes
<1>15. FCopies(a, k, s, h)
  BY <1>4, <1>6, <1>7, <1>8, <1>11, <1>14 DEF FCopies
<1> QED BY <1>6, <1>15, ZenonT(30)

(* The copy fills slots of its own and leaves those of the unread bytes.    *)
LEMMA CopyInHolds ==
  ASSUME FShapes, NEW a \in Fifo!Actors, Fifo!CopyIn(a), f_in - f_out \in 0 .. Size,
         FHolds(f_out + 1, f_in)
  PROVE  LET k == Len(f_held'[a]) IN
         /\ \A i \in 1 .. k : f_held'[a][i] = f_in + i
         /\ f_in + k - f_out <= Size
         /\ \A b \in f_out + 1 .. f_in + k : f_slot'[(b - 1) % Size] = b
<1>1. Size \in Nat \ {0}
  BY Parameters DEF Fifo!KfifoAssumption
<1>a. PICK k \in Nat : \E s \in [1 .. k -> Nat] : \E h \in [0 .. Size - 1 -> SUBSET Nat] :
        FCopies(a, k, s, h)
  BY CopyInWorks
<1>b. PICK s \in [1 .. k -> Nat] : \E h \in [0 .. Size - 1 -> SUBSET Nat] : FCopies(a, k, s, h)
  BY <1>a
<1>c. PICK h \in [0 .. Size - 1 -> SUBSET Nat] : FCopies(a, k, s, h)
  BY <1>b
<1>3. f_held'[a] = s
  BY <1>c DEF FShapes, FCopies
<1>4. f_in \in Nat /\ f_out \in Nat /\ f_in + k - f_out <= Size
  BY <1>1, <1>c DEF FShapes, FCopies
<1>5. ASSUME NEW b \in f_out + 1 .. f_in + k
      PROVE  f_slot'[(b - 1) % Size] = b
  <2>1. PICK i \in 0 .. Size - 1 : i = (b - 1) % Size
    <3>1. b - 1 \in Nat
      BY <1>4
    <3> QED BY <1>1, <3>1, SlotInRange
  <2>2. \A c \in f_out + 1 .. f_in + k : (c - 1) % Size = i => c = b
    <3> SUFFICES ASSUME NEW c \in f_out + 1 .. f_in + k, c # b
                 PROVE  (c - 1) % Size # (b - 1) % Size
      BY <2>1
    <3>1. /\ b - 1 \in Nat /\ c - 1 \in Nat
          /\ (b - 1) - (c - 1) < Size /\ (c - 1) - (b - 1) < Size
          /\ b - 1 < c - 1 \/ c - 1 < b - 1
      BY <1>1, <1>4
    <3>2. CASE b - 1 < c - 1
      BY <1>1, <3>1, <3>2, SlotsDiffer
    <3>3. CASE c - 1 < b - 1
      BY <1>1, <3>1, <3>3, SlotsDiffer
    <3> QED BY <3>1, <3>2, <3>3
  <2>3. CASE b > f_in
    <3>1. h[i] = {b}
      <4>1. b \in f_in + 1 .. f_in + k
        BY <1>4, <2>3
      <4>2. f_in + 1 .. f_in + k \subseteq f_out + 1 .. f_in + k
        BY <1>4
      <4> QED BY <1>c, <2>1, <2>2, <4>1, <4>2 DEF FCopies
    <3>2. f_slot'[i] = CHOOSE c \in {b} : TRUE
      BY <1>c, <3>1 DEF FCopies
    <3> QED BY <2>1, <3>2, ChooseOne
  <2>4. CASE b <= f_in
    <3>1. h[i] = {}
      <4>1. \A c \in f_in + 1 .. f_in + k : c \in f_out + 1 .. f_in + k /\ c # b
        BY <1>4, <2>4
      <4> QED BY <1>c, <2>2, <4>1 DEF FCopies
    <3>2. f_slot'[i] = f_slot[i]
      BY <1>c, <3>1 DEF FCopies
    <3>3. b \in f_out + 1 .. f_in
      BY <1>4, <2>4
    <3> QED BY <2>1, <3>2, <3>3 DEF FHolds
  <2> QED BY <1>4, <2>3, <2>4
<1> QED BY <1>c, <1>3, <1>4, <1>5 DEF FCopies

\* Who uses the FIFO.
LEMMA FParameters ==
  /\ Size \in Nat \ {0}
  /\ Fifo!Actors = Users \cup {"read_thread", "write_thread"}
  /\ "read_thread" \notin Users /\ "write_thread" \notin Users
  /\ "nobody" \notin Fifo!Actors /\ Fifo!Reader = "read_thread"
  /\ Fifo!Writer = "write_thread" /\ Fifo!Nobody = "nobody"
  /\ Fifo!Threads = {"read_thread", "write_thread"}
  BY Parameters DEF Fifo!KfifoAssumption, Fifo!Actors, Fifo!Threads, Fifo!Reader,
     Fifo!Writer, Fifo!Nobody

(* A step of one that is neither writing nor reading, before and after.    *)
FRests ==
  \E a \in Fifo!Actors : \E q \in {"open", "idle", "ended"} :
    /\ f_pc' = [f_pc EXCEPT ![a] = q]
    /\ UNCHANGED <<f_in, f_out, f_slot, f_held, f_write_lock, f_read_lock, f_next,
                   f_overlapped, f_wrong>>

FStill ==
  UNCHANGED <<f_in, f_out, f_slot, f_pc, f_held, f_write_lock, f_read_lock, f_next,
              f_overlapped, f_wrong>>

FActs ==
  \/ Fifo!ThreadRead
  \/ \E a \in Fifo!Actors :
       Fifo!BeginWrite(a) \/ Fifo!CopyIn(a) \/ Fifo!MoveIn(a) \/ Fifo!CopyOut(a)
         \/ Fifo!MoveOut(a)
  \/ \E u \in Users : Fifo!BeginRead(u)

\* What a step does to the FIFO: nothing, a change of place, or one of the operations.
LEMMA FifoSteps == Fifo!Next => FStill \/ FRests \/ FActs
<1> SUFFICES ASSUME Fifo!Next PROVE FStill \/ FRests \/ FActs
  OBVIOUS
<1>1. CASE Fifo!Load \/ Fifo!RemoveProc \/ Fifo!StopThread \/ Fifo!OpenFails
  BY <1>1 DEF Fifo!Load, Fifo!RemoveProc, Fifo!StopThread, Fifo!OpenFails, FStill, Fifo!fifo,
     Fifo!locks, Fifo!history
<1>2. CASE Fifo!CreateThread
  <2> USE DEF Fifo!fifo, Fifo!locks, Fifo!history
  <2>1. CASE UNCHANGED f_pc
    BY <1>2, <2>1 DEF Fifo!CreateThread, FStill
  <2>2. CASE \E a \in Fifo!Actors : \E q \in {"idle", "open"} : f_pc' = [f_pc EXCEPT ![a] = q]
    BY <1>2, <2>2 DEF Fifo!CreateThread, FRests
  <2> QED BY <1>2, <2>1, <2>2, FParameters DEF Fifo!CreateThread
<1>3. CASE \E a \in Fifo!Threads : Fifo!ThreadEnds(a)
  BY <1>3, FParameters DEF Fifo!ThreadEnds, FRests, Fifo!Goes, Fifo!fifo, Fifo!locks, Fifo!history
<1> QED BY <1>1, <1>2, <1>3 DEF Fifo!Next, FActs

\* Steps that leave the FIFO alone.
LEMMA FifoStays == FInv /\ FStill => FInv'
  BY DEF FInv, FShapes, FLocks, FOrder, FIndices, FWriting, FReading, FHolds, FHas, FStill

\* Places, indices, slots and copies keep their types.
LEMMA FifoKeepsShapes ==
  ASSUME FShapes, FRests \/ FActs
  PROVE  FShapes'
<1> USE FParameters
<1>1. CASE FRests
  BY <1>1 DEF FRests, FShapes, FPlaces
<1>2. CASE Fifo!ThreadRead
  BY <1>2 DEF Fifo!ThreadRead, FShapes, FPlaces, Fifo!Goes, Fifo!fifo, Fifo!locks
<1>3. CASE \E u \in Users : Fifo!BeginRead(u)
  BY <1>3 DEF Fifo!BeginRead, FShapes, FPlaces, Fifo!Goes, Fifo!fifo
<1>4. CASE \E a \in Fifo!Actors : Fifo!BeginWrite(a)
  BY <1>4 DEF Fifo!BeginWrite, FShapes, FPlaces, Fifo!Goes, Fifo!fifo, Fifo!history
<1>5. ASSUME NEW a \in Fifo!Actors, Fifo!CopyIn(a) PROVE FShapes'
  <2>1. /\ f_slot' \in [0 .. Size - 1 -> Nat]
        /\ f_held' \in [Fifo!Actors -> Seq(Nat)]
    <3>1. PICK k \in Nat : \E s \in [1 .. k -> Nat] : \E h \in [0 .. Size - 1 -> SUBSET Nat] :
            FCopies(a, k, s, h)
      BY <1>5, CopyInWorks
    <3>2. PICK s \in [1 .. k -> Nat] : \E h \in [0 .. Size - 1 -> SUBSET Nat] :
            FCopies(a, k, s, h)
      BY <3>1
    <3>3. f_slot' \in [0 .. Size - 1 -> Nat]
      BY <3>2 DEF FCopies
    <3>4. s \in Seq(Nat) /\ f_held' = [f_held EXCEPT ![a] = s]
      BY <3>2 DEF FCopies
    <3> QED BY <3>3, <3>4 DEF FShapes
  <2> QED BY <1>5, <2>1 DEF Fifo!CopyIn, FShapes, FPlaces, Fifo!locks, Fifo!history
<1>6. ASSUME NEW a \in Fifo!Actors, Fifo!MoveIn(a) PROVE FShapes'
  <2>1. f_held[a] \in Seq(Nat) /\ Len(f_held[a]) \in Nat /\ <<>> \in Seq(Nat)
    BY DEF FShapes
  <2> QED BY <1>6, <2>1 DEF Fifo!MoveIn, FShapes, FPlaces, Fifo!Goes, Fifo!history
<1>7. ASSUME NEW a \in Fifo!Actors, Fifo!CopyOut(a) PROVE FShapes'
  <2>1. PICK count \in 1 .. 2 :
          f_held' = [f_held EXCEPT ![a] =
            [i \in 1 .. (IF f_in < f_out \/ count < f_in - f_out THEN count ELSE f_in - f_out)
               |-> f_slot[(f_out + i - 1) % Size]]]
    BY <1>7 DEF Fifo!CopyOut
  <2>2. (IF f_in < f_out \/ count < f_in - f_out THEN count ELSE f_in - f_out) \in Nat
    BY DEF FShapes
  <2>3. PICK k \in Nat :
          k = IF f_in < f_out \/ count < f_in - f_out THEN count ELSE f_in - f_out
    BY <2>2
  <2>4. \A i \in 1 .. k : f_slot[(f_out + i - 1) % Size] \in Nat
    BY SlotInRange DEF FShapes
  <2>5. [i \in 1 .. k |-> f_slot[(f_out + i - 1) % Size]] \in Seq(Nat)
    BY <2>4, CopyIsSequence
  <2>6. f_held' \in [Fifo!Actors -> Seq(Nat)]
    BY <2>1, <2>3, <2>5 DEF FShapes
  <2> QED BY <1>7, <2>6 DEF Fifo!CopyOut, FShapes, FPlaces, Fifo!Goes, Fifo!fifo,
     Fifo!locks, Fifo!history
<1>8. ASSUME NEW a \in Fifo!Actors, Fifo!MoveOut(a) PROVE FShapes'
  <2>1. f_held[a] \in Seq(Nat) /\ Len(f_held[a]) \in Nat /\ <<>> \in Seq(Nat)
    BY DEF FShapes
  <2>2. f_wrong' \in BOOLEAN
    BY <1>8 DEF Fifo!MoveOut
  <2> QED BY <1>8, <2>1, <2>2 DEF Fifo!MoveOut, FShapes, FPlaces, Fifo!Goes
<1> QED BY <1>1, <1>2, <1>3, <1>4, <1>5, <1>6, <1>7, <1>8 DEF FActs

\* Who writes holds the write lock; a user who reads holds the read lock.
LEMMA FifoKeepsLocks ==
  ASSUME FShapes, FLocks, FRests \/ FActs
  PROVE  FLocks'
<1> USE FParameters DEF Fifo!Goes
<1>1. CASE FRests
  BY <1>1 DEF FRests, FShapes, FLocks
<1>2. CASE Fifo!ThreadRead
  BY <1>2 DEF Fifo!ThreadRead, FShapes, FLocks, Fifo!locks
<1>3. CASE \E u \in Users : Fifo!BeginRead(u)
  BY <1>3 DEF Fifo!BeginRead, Fifo!ReadLockFree, FShapes, FLocks
<1>4. CASE \E a \in Fifo!Actors : Fifo!BeginWrite(a)
  BY <1>4 DEF Fifo!BeginWrite, FShapes, FLocks
<1>5. ASSUME NEW a \in Fifo!Actors, Fifo!CopyIn(a) PROVE FLocks'
  <2>1. /\ f_pc[a] = "write" /\ f_pc' = [f_pc EXCEPT ![a] = "move_in"]
        /\ UNCHANGED <<f_write_lock, f_read_lock>>
    BY <1>5 DEF Fifo!CopyIn, Fifo!locks
  <2> QED BY <2>1 DEF FShapes, FLocks
<1>6. CASE \E a \in Fifo!Actors : Fifo!MoveIn(a)
  BY <1>6 DEF Fifo!MoveIn, FShapes, FLocks
<1>7. CASE \E a \in Fifo!Actors : Fifo!CopyOut(a)
  BY <1>7 DEF Fifo!CopyOut, FShapes, FLocks, Fifo!locks
<1>8. CASE \E a \in Fifo!Actors : Fifo!MoveOut(a)
  BY <1>8 DEF Fifo!MoveOut, FShapes, FLocks
<1> QED BY <1>1, <1>2, <1>3, <1>4, <1>5, <1>6, <1>7, <1>8 DEF FActs

(* While no two takes have overlapped, the order is kept.                  *)
LEMMA FifoKeepsOrder ==
  ASSUME FShapes, FLocks, FOrder, FRests \/ FActs, ~f_overlapped'
  PROVE  FOrder'
<1> USE FParameters DEF Fifo!Goes
<1>0. /\ f_in \in Nat /\ f_out \in Nat
      /\ \A a \in Fifo!Actors : f_held[a] \in Seq(Nat) /\ Len(f_held[a]) \in Nat
  BY DEF FShapes
<1>1. CASE FRests
  BY <1>1 DEF FRests, FShapes, FOrder, FIndices, FWriting, FReading, FHolds, FHas
<1>2. CASE Fifo!ThreadRead
  <2>1. \A a \in Fifo!Actors : f_pc[a] \notin {"copy", "move_out"}
    BY <1>2 DEF Fifo!ThreadRead, Fifo!Taking
  <2> QED BY <1>2, <2>1 DEF Fifo!ThreadRead, Fifo!fifo, Fifo!locks, FShapes, FOrder,
     FIndices, FWriting, FReading, FHolds, FHas
<1>3. ASSUME NEW u \in Users, Fifo!BeginRead(u) PROVE FOrder'
  <2>1. \A a \in Fifo!Actors : f_pc[a] \notin {"copy", "move_out"}
    BY <1>3 DEF Fifo!BeginRead, Fifo!ReadLockFree, Fifo!Taking, FLocks
  <2> QED BY <1>3, <2>1 DEF Fifo!BeginRead, Fifo!fifo, FShapes, FOrder, FIndices,
     FWriting, FReading, FHolds, FHas
<1>4. ASSUME NEW a \in Fifo!Actors, Fifo!BeginWrite(a) PROVE FOrder'
  <2>1. /\ UNCHANGED <<f_in, f_out, f_slot, f_held, f_next, f_wrong>>
        /\ \A b \in Fifo!Actors : f_pc'[b] = f_pc[b] \/ f_pc'[b] = "write"
    BY <1>4 DEF Fifo!BeginWrite, Fifo!fifo, Fifo!history, FShapes
  <2>2. FIndices' /\ FReading'
    BY <2>1 DEF FOrder, FIndices, FReading, FHolds, FHas
  <2>3. FWriting'
    BY <2>1 DEF FOrder, FWriting, FHolds, FHas
  <2> QED BY <2>2, <2>3 DEF FOrder
<1>5. ASSUME NEW a \in Fifo!Actors, Fifo!CopyIn(a) PROVE FOrder'
  <2>1. PICK k \in Nat : k = Len(f_held'[a])
    <3>1. f_held' \in [Fifo!Actors -> Seq(Nat)]
      BY <1>5, FifoKeepsShapes DEF FShapes, FActs
    <3> QED BY <3>1
  <2>2. /\ \A i \in 1 .. k : f_held'[a][i] = f_in + i
        /\ f_in + k - f_out <= Size
        /\ \A b \in f_out + 1 .. f_in + k : f_slot'[(b - 1) % Size] = b
    BY <1>5, <2>1, CopyInHolds DEF FOrder, FIndices
  <2>3. /\ UNCHANGED <<f_in, f_out, f_next, f_wrong>> /\ f_pc[a] = "write"
        /\ f_pc' = [f_pc EXCEPT ![a] = "move_in"]
        /\ \A b \in Fifo!Actors \ {a} : f_held'[b] = f_held[b]
    BY <1>5 DEF Fifo!CopyIn, Fifo!history, FShapes
  <2>4. f_in - f_out \in 0 .. Size
    BY DEF FOrder, FIndices
  <2>5. FIndices'
    BY <1>0, <2>2, <2>3, <2>4 DEF FOrder, FIndices, FHolds
  <2>6. FWriting'
    <3>1. \A b \in Fifo!Actors : f_pc'[b] = "move_in" => b = a
      BY <2>3 DEF FShapes, FLocks
    <3>2. \A b \in f_in + 1 .. f_in + k : b \in f_out + 1 .. f_in + k
      BY <1>0, <2>4
    <3>3. FHas(a, f_in)'
      BY <2>1, <2>2, <2>3 DEF FHas
    <3>4. FHolds(f_in + 1, f_in + k)'
      BY <2>2, <2>3, <3>2 DEF FHolds
    <3> QED BY <2>1, <2>2, <2>3, <3>1, <3>3, <3>4 DEF FWriting, FHas, FHolds
  <2>7. FReading'
    BY <2>3 DEF FOrder, FReading, FShapes, FHas
  <2> QED BY <2>5, <2>6, <2>7 DEF FOrder
<1>6. ASSUME NEW a \in Fifo!Actors, Fifo!MoveIn(a) PROVE FOrder'
  <2>1. PICK k \in Nat : k = Len(f_held[a])
    BY <1>0
  <2>2. /\ f_pc[a] = "move_in" /\ f_in' = f_in + k
        /\ UNCHANGED <<f_out, f_slot, f_next, f_wrong>>
        /\ \A b \in Fifo!Actors \ {a} : f_held'[b] = f_held[b] /\ f_pc'[b] = f_pc[b]
        /\ f_pc'[a] \in {"idle", "off"}
    BY <1>6, <2>1 DEF Fifo!MoveIn, Fifo!history, FShapes
  <2>3. f_in + k - f_out <= Size /\ FHolds(f_in + 1, f_in + k)
    BY <2>1, <2>2 DEF FOrder, FWriting
  <2>7. FIndices /\ f_in \in Nat /\ f_out \in Nat /\ f_in' \in Nat /\ Size \in Nat
    BY <1>0, <2>2 DEF FOrder
  <2>8. f_in' - f_out' \in 0 .. Size
    BY <2>2, <2>3, <2>7 DEF FIndices
  <2>9. \A b \in f_out + 1 .. f_in' : b \in f_out + 1 .. f_in \/ b \in f_in + 1 .. f_in + k
    BY <2>2, <2>7
  <2>10. FHolds(f_out + 1, f_in)'
    BY <2>2, <2>3, <2>7, <2>9 DEF FIndices, FHolds
  <2>4. FIndices'
    BY <2>2, <2>7, <2>8, <2>10 DEF FIndices
  <2>5. FWriting'
    BY <2>2 DEF FWriting, FLocks
  <2>6. FReading'
    <3>1. FReading /\ f_in' >= f_in
      BY <1>0, <2>1, <2>2 DEF FOrder
    <3>2. \A b \in Fifo!Actors : f_pc'[b] \in {"copy", "move_out"} =>
            f_pc[b] = f_pc'[b] /\ f_held'[b] = f_held[b]
      BY <2>2
    <3>3. ASSUME NEW b \in Fifo!Actors, f_pc'[b] = "move_out"
          PROVE  FHas(b, f_out)' /\ Len(f_held'[b]) <= f_in' - f_out'
      <4>1. f_held'[b] = f_held[b] /\ FHas(b, f_out) /\ Len(f_held[b]) <= f_in - f_out
        BY <3>1, <3>2, <3>3 DEF FReading
      <4>2. Len(f_held[b]) <= f_in' - f_out'
        BY <1>0, <2>1, <2>2, <4>1
      <4> QED BY <2>2, <4>1, <4>2 DEF FHas
    <3> QED BY <3>1, <3>2, <3>3 DEF FReading
  <2> QED BY <2>4, <2>5, <2>6 DEF FOrder
<1>7. ASSUME NEW a \in Fifo!Actors, Fifo!CopyOut(a) PROVE FOrder'
  <2>1. PICK k \in Nat : /\ k <= f_in - f_out
          /\ f_held' = [f_held EXCEPT ![a] =
                          [i \in 1 .. k |-> f_slot[(f_out + i - 1) % Size]]]
    <3>1. PICK count \in 1 .. 2 :
            f_held' = [f_held EXCEPT ![a] =
              [i \in 1 .. (IF f_in < f_out \/ count < f_in - f_out THEN count ELSE f_in - f_out)
                 |-> f_slot[(f_out + i - 1) % Size]]]
      BY <1>7 DEF Fifo!CopyOut
    <3>2. (IF f_in < f_out \/ count < f_in - f_out THEN count ELSE f_in - f_out)
            \in 0 .. f_in - f_out
      BY <1>0 DEF FOrder, FIndices
    <3>3. PICK k \in 0 .. f_in - f_out :
            k = IF f_in < f_out \/ count < f_in - f_out THEN count ELSE f_in - f_out
      BY <3>2
    <3>4. k \in Nat /\ k <= f_in - f_out
      BY <1>0
    <3>5. f_held' = [f_held EXCEPT ![a] =
                       [i \in 1 .. k |-> f_slot[(f_out + i - 1) % Size]]]
      BY <3>1, <3>3
    <3> QED BY <3>4, <3>5
  <2>2. PICK s : s = [i \in 1 .. k |-> f_slot[(f_out + i - 1) % Size]]
    OBVIOUS
  <2>3. \A i \in 1 .. k : s[i] = f_out + i
    <3> SUFFICES ASSUME NEW i \in 1 .. k PROVE s[i] = f_out + i
      OBVIOUS
    <3>1. f_out + i \in f_out + 1 .. f_in
      BY <1>0, <2>1
    <3>2. f_slot[(f_out + i - 1) % Size] = f_out + i
      <4>1. PICK b \in f_out + 1 .. f_in : b = f_out + i
        BY <3>1
      <4>2. f_slot[(b - 1) % Size] = b
        BY DEF FOrder, FIndices, FHolds
      <4>3. b - 1 = f_out + i - 1
        BY <1>0, <4>1
      <4> QED BY <4>1, <4>2, <4>3
    <3> QED BY <2>2, <3>2
  <2>4. s \in [1 .. k -> Nat]
    <3>1. \A i \in 1 .. k : f_out + i \in Nat
      BY <1>0
    <3> QED BY <2>2, <2>3, <3>1
  <2>5. Len(s) = k
    BY <2>4, CopyIsSequence
  <2>6. /\ f_pc[a] = "copy" /\ UNCHANGED <<f_in, f_out, f_slot, f_next, f_wrong>>
        /\ f_pc' = [f_pc EXCEPT ![a] = "move_out"] /\ f_held'[a] = s
        /\ \A b \in Fifo!Actors \ {a} : f_held'[b] = f_held[b]
    BY <1>7, <2>1, <2>2 DEF Fifo!CopyOut, Fifo!fifo, Fifo!history, FShapes
  <2>7. FIndices'
    BY <2>6 DEF FOrder, FIndices, FHolds
  <2>8. FWriting'
    <3> SUFFICES ASSUME NEW b \in Fifo!Actors, f_pc'[b] = "move_in"
                 PROVE  /\ FHas(b, f_in)' /\ f_in' + Len(f_held'[b]) - f_out' <= Size
                        /\ FHolds(f_in + 1, f_in + Len(f_held[b]))'
      BY DEF FWriting
    <3>1. f_held'[b] = f_held[b] /\ f_pc[b] = "move_in"
      BY <2>6 DEF FShapes
    <3>2. /\ FHas(b, f_in) /\ f_in + Len(f_held[b]) - f_out <= Size
          /\ FHolds(f_in + 1, f_in + Len(f_held[b]))
      BY <3>1 DEF FOrder, FWriting
    <3> QED BY <2>6, <3>1, <3>2 DEF FHas, FHolds
  <2>9. FReading'
    <3>1. \A b \in Fifo!Actors : f_pc'[b] \in {"copy", "move_out"} => b = a
      BY <2>6 DEF FOrder, FReading, FShapes
    <3>2. FHas(a, f_out)' /\ Len(f_held'[a]) <= f_in' - f_out'
      BY <2>1, <2>3, <2>5, <2>6 DEF FHas
    <3> QED BY <2>6, <3>1, <3>2 DEF FReading, FHas
  <2> QED BY <2>7, <2>8, <2>9 DEF FOrder
<1>8. ASSUME NEW a \in Fifo!Actors, Fifo!MoveOut(a) PROVE FOrder'
  <2>1. PICK k \in Nat : k = Len(f_held[a])
    BY <1>0
  <2>2. /\ f_pc[a] = "move_out" /\ f_out' = f_out + k /\ f_next' = f_next + k
        /\ UNCHANGED <<f_in, f_slot>>
        /\ f_wrong' = (f_wrong \/ f_held[a] # [i \in 1 .. k |-> f_next + i - 1])
        /\ \A b \in Fifo!Actors \ {a} : f_held'[b] = f_held[b] /\ f_pc'[b] = f_pc[b]
        /\ f_pc'[a] \in {"idle", "off"}
    BY <1>8, <2>1 DEF Fifo!MoveOut, FShapes
  <2>3. k <= f_in - f_out /\ \A i \in 1 .. k : f_held[a][i] = f_out + i
    BY <2>1, <2>2 DEF FOrder, FReading, FHas
  <2>4. f_held[a] = [i \in 1 .. k |-> f_next + i - 1]
    <3>1. f_held[a] = [i \in 1 .. k |-> f_held[a][i]]
      BY <1>0, <2>1
    <3>2. \A i \in 1 .. k : f_held[a][i] = f_next + i - 1
      BY <1>0, <2>3 DEF FOrder, FIndices
    <3> QED BY <3>1, <3>2
  <2>5. ~f_wrong'
    BY <2>2, <2>4 DEF FOrder, FIndices
  <2>6. FIndices'
    BY <1>0, <2>2, <2>3, <2>5 DEF FOrder, FIndices, FHolds
  <2>7. FWriting'
    <3> SUFFICES ASSUME NEW b \in Fifo!Actors, f_pc'[b] = "move_in"
                 PROVE  /\ FHas(b, f_in)' /\ f_in' + Len(f_held'[b]) - f_out' <= Size
                        /\ FHolds(f_in + 1, f_in + Len(f_held[b]))'
      BY DEF FWriting
    <3>1. f_held'[b] = f_held[b] /\ f_pc[b] = "move_in" /\ Len(f_held[b]) \in Nat
      BY <1>0, <2>2
    <3>2. /\ FHas(b, f_in) /\ f_in + Len(f_held[b]) - f_out <= Size
          /\ FHolds(f_in + 1, f_in + Len(f_held[b]))
      BY <3>1 DEF FOrder, FWriting
    <3>3. f_in + Len(f_held[b]) - f_out' <= Size
      <4>1. PICK n \in Nat : n = Len(f_held[b])
        BY <3>1
      <4>2. f_in + n - (f_out + k) <= Size
        <5>1. f_in + n - f_out <= Size /\ Size \in Nat
          BY <3>2, <4>1
        <5> QED BY <1>0, <5>1
      <4> QED BY <2>2, <4>1, <4>2
    <3> QED BY <2>2, <3>1, <3>2, <3>3 DEF FHas, FHolds
  <2>8. FReading'
    <3>1. \A b \in Fifo!Actors : f_pc[b] \in {"copy", "move_out"} => b = a
      BY <2>2 DEF FOrder, FReading
    <3>2. \A b \in Fifo!Actors : f_pc'[b] \notin {"copy", "move_out"}
      BY <2>2, <3>1
    <3> QED BY <3>2 DEF FReading
  <2> QED BY <2>6, <2>7, <2>8 DEF FOrder
<1> QED BY <1>1, <1>2, <1>3, <1>4, <1>5, <1>6, <1>7, <1>8 DEF FActs

(* Takes that overlapped once have overlapped for good.                    *)
LEMMA OverlapStays == FRests \/ FActs => (f_overlapped => f_overlapped')
  BY DEF FRests, FActs, Fifo!ThreadRead, Fifo!BeginRead, Fifo!BeginWrite, Fifo!CopyIn,
     Fifo!MoveIn, Fifo!CopyOut, Fifo!MoveOut, Fifo!history

\* The FIFO's invariant is kept.
LEMMA FifoInductive == FInv /\ [SumNext]_sumvars => FInv'
<1> SUFFICES ASSUME FInv, [SumNext]_sumvars PROVE FInv'
  OBVIOUS
<1>1. Fifo!Next \/ FStill
  BY DEF SumNext, sumvars, FStill, f_vars
<1>2. CASE FStill
  BY <1>2, FifoStays
<1>3. CASE FRests \/ FActs
  <2>1. FShapes' /\ FLocks'
    BY <1>3, FifoKeepsShapes, FifoKeepsLocks DEF FInv
  <2>2. ~f_overlapped' => FOrder'
    BY <1>3, FifoKeepsOrder, OverlapStays DEF FInv
  <2> QED BY <2>1, <2>2 DEF FInv
<1> QED BY <1>1, <1>2, <1>3, FifoSteps

(* Readers of the proc file of kernel_fifo_test.c and kfifo_example.c get  *)
(* the bytes once and in the order written, and the indices stay within    *)
(* the storage, for every size and any number of readers and writers,      *)
(* until the reading thread takes at the same time as a reader of the      *)
(* file.                                                                   *)
THEOREM FifoOrder == SumSpec => []BytesInOrder
<1>1. SumInit => FInv
  BY FInitIsGood DEF SumInit
<1>2. FInv => BytesInOrder
  BY DEF FInv, FOrder, FIndices, BytesInOrder, Fifo!BytesInOrder
<1> QED BY <1>1, <1>2, FifoInductive, PTL DEF SumSpec

-----------------------------------------------------------------------------
(***************************************************************************)
(* The recursion of my_get_order.                                          *)
(***************************************************************************)
\* A set with every number of which it has all smaller ones has them all.
LEMMA SmallestFirst ==
  ASSUME NEW X, \A m \in Nat : (\A k \in Nat : k < m => k \in X) => m \in X
  PROVE  Nat \subseteq X
<1> SUFFICES ASSUME Nat \ X # {} PROVE FALSE
  OBVIOUS
<1>1. IsWellFoundedOn(OpToRel(<, Nat), Nat)
  BY NatLessThanWellFounded
<1>2. PICK m \in Nat \ X : \A k \in Nat \ X : <<k, m>> \notin OpToRel(<, Nat)
  <2>1. Nat \ X \subseteq Nat
    OBVIOUS
  <2> QED BY <1>1, <2>1, WFMin
<1>3. ASSUME NEW k \in Nat, k < m PROVE k \in X
  <2>1. <<k, m>> \in OpToRel(<, Nat)
    BY <1>3 DEF OpToRel
  <2> QED BY <1>2, <2>1
<1> QED BY <1>2, <1>3

\* Halving makes smaller, by at most half.
LEMMA HalfLess ==
  ASSUME NEW m \in Nat \ {0}
  PROVE  m \div 2 \in Nat /\ m \div 2 < m /\ m <= 2 * (m \div 2) + 1
OBVIOUS

\* The subsets of k + 1 elements are twice as many as those of k.
LEMMA Doubles == ASSUME NEW k \in Nat PROVE 2^(k + 1) = 2 * 2^k /\ 2^k \in Nat
<1> DEFINE A == 1 .. k
           Ax == {B \cup {k + 1} : B \in SUBSET A}
<1>1. IsFiniteSet(A) /\ Cardinality(A) = k
  BY FS_Interval
<1>2. IsFiniteSet(A \cup {k + 1}) /\ Cardinality(A \cup {k + 1}) = k + 1
  <2>1. k + 1 \notin A
    OBVIOUS
  <2> QED BY <1>1, <2>1, FS_AddElement
<1>3. /\ IsFiniteSet(SUBSET A) /\ Cardinality(SUBSET A) = 2^k
      /\ Cardinality(SUBSET (A \cup {k + 1})) = 2^(k + 1)
  <2>1. IsFiniteSet(SUBSET A) /\ Cardinality(SUBSET A) = 2^Cardinality(A)
    BY <1>1, FS_SUBSET
  <2>2. Cardinality(SUBSET (A \cup {k + 1})) = 2^Cardinality(A \cup {k + 1})
    BY <1>2, FS_SUBSET
  <2> QED BY <1>1, <1>2, <2>1, <2>2
<1>4. IsFiniteSet(Ax) /\ Cardinality(Ax) = 2^k
  <2> DEFINE f == [B \in SUBSET A |-> B \cup {k + 1}]
  <2>1. f \in [SUBSET A -> Ax]
    OBVIOUS
  <2>2. ASSUME NEW B \in SUBSET A, NEW C \in SUBSET A, f[B] = f[C] PROVE B = C
    <3>1. k + 1 \notin B /\ k + 1 \notin C
      OBVIOUS
    <3>2. B \cup {k + 1} = C \cup {k + 1}
      BY <2>2
    <3> QED BY <3>1, <3>2
  <2>3. \A y \in Ax : \E B \in SUBSET A : f[B] = y
    OBVIOUS
  <2>4. ExistsBijection(SUBSET A, Ax)
    <3> HIDE DEF A, Ax, f
    <3>1. f \in Bijection(SUBSET A, Ax)
      BY <2>1, <2>2, <2>3 DEF Bijection, Injection, Surjection, IsInjective
    <3> QED BY <3>1 DEF ExistsBijection
  <2> QED BY <1>3, <2>4, FS_Bijection
<1>5. SUBSET (A \cup {k + 1}) = (SUBSET A) \cup Ax
  <2>1. ASSUME NEW D \in SUBSET (A \cup {k + 1}) PROVE D \in (SUBSET A) \cup Ax
    <3>1. CASE k + 1 \in D
      <4>1. D \ {k + 1} \in SUBSET A /\ D = (D \ {k + 1}) \cup {k + 1}
        BY <3>1
      <4> QED BY <4>1
    <3>2. CASE k + 1 \notin D
      BY <3>2
    <3> QED BY <3>1, <3>2
  <2>2. ASSUME NEW D \in (SUBSET A) \cup Ax PROVE D \in SUBSET (A \cup {k + 1})
    OBVIOUS
  <2> QED BY <2>1, <2>2
<1>6. (SUBSET A) \cap Ax = {}
  <2>1. \A B \in SUBSET A : k + 1 \notin B
    OBVIOUS
  <2> QED BY <2>1
<1> HIDE DEF A, Ax
<1>7. PICK p \in Nat : p = 2^k
  BY <1>3, FS_CardinalityType
<1>8. Cardinality((SUBSET A) \cup Ax) = p + p
  <2>1. Cardinality((SUBSET A) \cap Ax) = 0
    BY <1>6, FS_EmptySet
  <2>2. Cardinality((SUBSET A) \cup Ax)
          = Cardinality(SUBSET A) + Cardinality(Ax) - Cardinality((SUBSET A) \cap Ax)
    BY <1>3, <1>4, FS_Union
  <2>3. Cardinality((SUBSET A) \cup Ax) = p + p - 0
    BY <1>3, <1>4, <1>7, <2>1, <2>2
  <2> QED BY <2>3
<1>9. 2^(k + 1) = p + p
  BY <1>3, <1>5, <1>8
<1> QED BY <1>7, <1>9

\* A table of the first n values of Shifts.
Halvings(n, g) ==
  g \in [0 .. n -> Nat] /\ \A k \in 0 .. n : g[k] = IF k = 0 THEN 0 ELSE 1 + g[k \div 2]

\* A shorter table of halvings.
LEMMA HalvingsLess ==
  ASSUME NEW n \in Nat, NEW g, Halvings(n, g), NEW k \in 0 .. n
  PROVE  Halvings(k, [j \in 0 .. k |-> g[j]])
<1> DEFINE h == [j \in 0 .. k |-> g[j]]
<1>1. h \in [0 .. k -> Nat]
  BY DEF Halvings
<1>2. ASSUME NEW j \in 0 .. k PROVE h[j] = IF j = 0 THEN 0 ELSE 1 + h[j \div 2]
  <2>1. j \in Nat /\ (j # 0 => j \div 2 \in 0 .. k)
    BY HalfLess
  <2> QED BY <2>1 DEF Halvings
<1> HIDE DEF h
<1> QED BY <1>1, <1>2 DEF Halvings

\* There is only one such table ...
LEMMA HalvingsOnce ==
  ASSUME NEW n \in Nat, NEW g, NEW h, Halvings(n, g), Halvings(n, h)
  PROVE  \A k \in 0 .. n : g[k] = h[k]
<1> DEFINE X == {k \in Nat : k <= n => g[k] = h[k]}
<1>1. ASSUME NEW m \in Nat, \A k \in Nat : k < m => k \in X PROVE m \in X
  <2> SUFFICES ASSUME m <= n PROVE g[m] = h[m]
    OBVIOUS
  <2>1. CASE m = 0
    BY <2>1 DEF Halvings
  <2>2. CASE m # 0
    <3>1. m \div 2 \in Nat /\ m \div 2 < m
      BY <2>2, HalfLess
    <3>2. g[m \div 2] = h[m \div 2]
      BY <1>1, <3>1
    <3> QED BY <2>2, <3>2 DEF Halvings
  <2> QED BY <2>1, <2>2
<1>2. Nat \subseteq X
  <2> HIDE DEF X
  <2> QED BY <1>1, SmallestFirst
<1> QED BY <1>2

\* ... and one for every length.
LEMMA HalvingsAll == \A n \in Nat : \E g : Halvings(n, g)
<1> DEFINE X == {n \in Nat : \E g : Halvings(n, g)}
<1>1. ASSUME NEW m \in Nat, \A k \in Nat : k < m => k \in X PROVE m \in X
  <2>1. CASE m = 0
    <3> DEFINE g == [k \in 0 .. 0 |-> 0]
    <3>1. Halvings(0, g)
      BY DEF Halvings
    <3> QED BY <2>1, <3>1
  <2>2. CASE m # 0
    <3>1. m - 1 \in Nat /\ m - 1 < m
      BY <2>2
    <3>2. PICK h : Halvings(m - 1, h)
      BY <1>1, <3>1
    <3>3. PICK c \in 0 .. m - 1 : c = m \div 2
      BY <2>2, HalfLess
    <3> DEFINE g == [k \in 0 .. m |-> IF k = m THEN 1 + h[c] ELSE h[k]]
    <3>4. h[c] \in Nat /\ h \in [0 .. m - 1 -> Nat]
      BY <3>2, <3>3 DEF Halvings
    <3>5. g \in [0 .. m -> Nat]
      BY <3>4
    <3>6. \A k \in 0 .. m - 1 : k # m /\ g[k] = h[k]
      OBVIOUS
    <3>7. g[m] = 1 + h[c]
      OBVIOUS
    <3> HIDE DEF g
    <3>8. ASSUME NEW k \in 0 .. m PROVE g[k] = IF k = 0 THEN 0 ELSE 1 + g[k \div 2]
      <4>1. CASE k = m
        BY <2>2, <3>3, <3>6, <3>7, <4>1
      <4>2. CASE k # m
        <5>1. k \in 0 .. m - 1 /\ (k # 0 => k \div 2 \in 0 .. m - 1)
          BY <4>2, HalfLess
        <5>2. h[k] = IF k = 0 THEN 0 ELSE 1 + h[k \div 2]
          BY <3>2, <5>1 DEF Halvings
        <5> QED BY <3>6, <5>1, <5>2
      <4> QED BY <4>1, <4>2
    <3>9. Halvings(m, g)
      BY <3>5, <3>8 DEF Halvings
    <3> QED BY <3>9
  <2> QED BY <2>1, <2>2
<1>2. Nat \subseteq X
  <2> HIDE DEF X
  <2> QED BY <1>1, SmallestFirst
<1> QED BY <1>2

\* Shifts is defined by its recursion.
LEMMA ShiftsIs ==
  \A n \in Nat : /\ Mem!Shifts[n] \in Nat
                 /\ Mem!Shifts[n] = IF n = 0 THEN 0 ELSE 1 + Mem!Shifts[n \div 2]
<1> DEFINE G(n) == CHOOSE g : Halvings(n, g)
           f == [n \in Nat |-> G(n)[n]]
<1>1. \A n \in Nat : Halvings(n, G(n))
  BY HalvingsAll
<1>2. ASSUME NEW n \in Nat, NEW k \in 0 .. n PROVE f[k] = G(n)[k]
  <2>1. Halvings(k, [j \in 0 .. k |-> G(n)[j]]) /\ Halvings(k, G(k))
    BY <1>1, HalvingsLess
  <2> HIDE DEF G
  <2>2. k \in Nat /\ k \in 0 .. k
    OBVIOUS
  <2>3. G(k)[k] = [j \in 0 .. k |-> G(n)[j]][k]
    BY <2>1, <2>2, HalvingsOnce
  <2> QED BY <2>2, <2>3
<1>3. ASSUME NEW n \in Nat PROVE f[n] \in Nat /\ f[n] = IF n = 0 THEN 0 ELSE 1 + f[n \div 2]
  <2>1. n \in 0 .. n /\ (n # 0 => n \div 2 \in 0 .. n)
    BY HalfLess
  <2>2. f[n] = G(n)[n] /\ (n # 0 => f[n \div 2] = G(n)[n \div 2])
    BY <1>2, <2>1
  <2> HIDE DEF f, G
  <2>3. Halvings(n, G(n))
    BY <1>1
  <2> QED BY <2>1, <2>2, <2>3 DEF Halvings
<1>4. f = [n \in Nat |-> IF n = 0 THEN 0 ELSE 1 + f[n \div 2]]
  <2>1. f = [n \in Nat |-> f[n]]
    OBVIOUS
  <2> HIDE DEF f
  <2> QED BY <1>3, <2>1
<1>5. Mem!Shifts = [n \in Nat |-> IF n = 0 THEN 0 ELSE 1 + Mem!Shifts[n \div 2]]
  <2> HIDE DEF f
  <2> QED BY <1>4 DEF Mem!Shifts
<1>6. \A n \in Nat : Mem!Shifts[n] = f[n]
  <2> DEFINE X == {n \in Nat : Mem!Shifts[n] = f[n]}
  <2> HIDE DEF f
  <2>1. ASSUME NEW m \in Nat, \A k \in Nat : k < m => k \in X PROVE m \in X
    <3>1. Mem!Shifts[m] = IF m = 0 THEN 0 ELSE 1 + Mem!Shifts[m \div 2]
      BY <1>5
    <3>2. m # 0 => Mem!Shifts[m \div 2] = f[m \div 2]
      BY <2>1, HalfLess
    <3> QED BY <1>3, <3>1, <3>2
  <2>2. Nat \subseteq X
    <3> HIDE DEF X
    <3> QED BY <2>1, SmallestFirst
  <2> QED BY <2>2
<1> HIDE DEF f
<1>7. \A n \in Nat : Mem!Shifts[n] = IF n = 0 THEN 0 ELSE 1 + Mem!Shifts[n \div 2]
  BY <1>5
<1> QED BY <1>3, <1>6, <1>7

\* Shifting by Shifts exceeds the number.
LEMMA ShiftsEnough ==
  \A n \in Nat : Mem!Shifts[n] \in Nat /\ 2^Mem!Shifts[n] \in Nat /\ n < 2^Mem!Shifts[n]
<1> DEFINE X == {n \in Nat : n < 2^Mem!Shifts[n]}
<1>1. \A n \in Nat : Mem!Shifts[n] \in Nat /\ 2^Mem!Shifts[n] \in Nat
  BY ShiftsIs, Doubles
<1>2. ASSUME NEW m \in Nat, \A k \in Nat : k < m => k \in X PROVE m \in X
  <2>1. CASE m = 0
    <3>1. Mem!Shifts[m] = 0
      BY <2>1, ShiftsIs
    <3>2. 2^0 = 1
      OBVIOUS
    <3>3. 2^Mem!Shifts[m] = 1
      BY <3>1, <3>2
    <3> QED BY <2>1, <3>3
  <2>2. CASE m # 0
    <3>1. PICK h \in Nat : h = m \div 2 /\ h < m /\ m <= 2 * h + 1
      BY <2>2, HalfLess
    <3>2. PICK k \in Nat : k = Mem!Shifts[h]
      BY <1>1
    <3>3. PICK p \in Nat : p = 2^k /\ h < p
      BY <1>1, <1>2, <3>1, <3>2
    <3>4. Mem!Shifts[m] = k + 1
      BY <2>2, <3>1, <3>2, ShiftsIs
    <3>5. 2^(k + 1) = 2 * p
      BY <3>3, Doubles
    <3>6. 2^Mem!Shifts[m] = 2 * p
      BY <3>4, <3>5
    <3> QED BY <3>1, <3>3, <3>6
  <2> QED BY <2>1, <2>2
<1>3. Nat \subseteq X
  <2> HIDE DEF X
  <2> QED BY <1>2, SmallestFirst
<1> QED BY <1>1, <1>3

-----------------------------------------------------------------------------
(***************************************************************************)
(* The memory module: what one reading of nr_structs lays out fits the     *)
(* pages that my_get_order asks for.                                       *)
(***************************************************************************)
LaidOut(n) ==
  m_nr_pages = Mem!Pages(n) + Mem!Tail(n) /\ m_order = Mem!my_get_order(m_nr_pages)

Spread(n) ==
  LaidOut(n) /\ m_nr_pages # 0 /\ m_nr_structs_per_page = n \div m_nr_pages

MemTypes ==
  /\ m_thread \in {"none", "start", "multiply", "divide", "alloc", "wait", "free",
                   "error", "ended"}
  /\ m_loader = "out" => m_thread = "none"
  /\ m_thread # "none" => m_nr_structs \in Numbers
  /\ m_thread \in {"multiply", "divide", "alloc"} => m_read # {}
  /\ Mem!KernelMemoryTypeOK

MemInv ==
  /\ MemTypes
  /\ \A n \in Numbers :
       /\ m_thread = "multiply" /\ m_read = {n} => m_tail = Mem!Tail(n)
       /\ m_thread = "divide" /\ m_read = {n} => LaidOut(n)
       /\ m_thread \in {"alloc", "wait", "free", "error"} /\ m_intact /\ m_read = {n} => Spread(n)
       /\ m_thread = "alloc" /\ ~m_intact /\ m_read = {n} => LaidOut(n) /\ m_nr_pages = 0
       /\ m_thread \in {"wait", "free", "error"} /\ m_read = {n} /\ n < Wrap =>
            m_intact /\ m_thread # "error"

\* What the assumptions say of the sizes.
LEMMA MemConstants == PerPage \in Nat \ {0} /\ Wrap \in Nat \ {0} /\ Numbers \subseteq Nat
BY Parameters DEF Mem!KernelMemoryAssumption

\* my_get_order asks for enough.
LEMMA OrderEnough ==
  ASSUME NEW n \in Nat \ {0}
  PROVE  /\ Mem!my_get_order(n) \in Nat /\ 2^Mem!my_get_order(n) \in Nat
         /\ n <= 2^Mem!my_get_order(n)
<1>1. PICK k \in Nat : /\ k = n - 1 /\ Mem!Shifts[k] \in Nat
                       /\ 2^Mem!Shifts[k] \in Nat /\ k < 2^Mem!Shifts[k]
  BY ShiftsEnough
<1>2. Mem!Shifts[n] \in Nat /\ 2^Mem!Shifts[n] \in Nat /\ n < 2^Mem!Shifts[n]
  BY ShiftsEnough
<1>3. Mem!my_get_order(n) = Mem!Shifts[k] \/ Mem!my_get_order(n) = Mem!Shifts[n]
  BY <1>1 DEF Mem!my_get_order
<1>4. CASE Mem!my_get_order(n) = Mem!Shifts[k]
  <2>1. PICK p \in Nat : p = 2^Mem!Shifts[k] /\ k < p
    BY <1>1
  <2>2. 2^Mem!my_get_order(n) = p
    BY <1>4, <2>1
  <2>3. n <= p
    BY <1>1, <2>1
  <2> QED BY <1>1, <1>4, <2>2, <2>3
<1>5. CASE Mem!my_get_order(n) = Mem!Shifts[n]
  <2>1. PICK p \in Nat : p = 2^Mem!Shifts[n] /\ n < p
    BY <1>2
  <2>2. 2^Mem!my_get_order(n) = p
    BY <1>5, <2>1
  <2>3. n <= p
    BY <2>1
  <2> QED BY <1>2, <1>5, <2>2, <2>3
<1> QED BY <1>3, <1>4, <1>5

\* Numbers of pages.
LEMMA PagesNat == ASSUME NEW n \in Nat PROVE Mem!Pages(n) \in Nat /\ Mem!Tail(n) \in {0, 1}
<1>1. n % Wrap \in Nat
  BY MemConstants
<1>2. PICK x \in Nat : x = n % Wrap
  BY <1>1
<1>3. x \div PerPage \in Nat
  BY MemConstants
<1> QED BY <1>2, <1>3 DEF Mem!Pages, Mem!Tail

\* No page is counted just when the structs do not fill one.
LEMMA NoPages ==
  ASSUME NEW n \in Nat, n < Wrap, LaidOut(n)
  PROVE  m_nr_pages = 0 <=> n < PerPage
<1>1. PICK q \in Nat \ {0} : q = PerPage
  BY MemConstants
<1>2. n % Wrap = n
  BY MemConstants
<1>3. PICK p \in Nat, r \in 0 .. q - 1 : p = n \div q /\ n = q * p + r
  <2>1. n \div q \in Nat /\ n = q * (n \div q) + (n % q) /\ n % q \in 0 .. q - 1
    OBVIOUS
  <2> QED BY <2>1
<1>4. p = 0 <=> n < q
  <2>1. CASE p = 0
    BY <1>3, <2>1
  <2>2. CASE p # 0
    <3>1. PICK x \in Nat : p = 1 + x
      <4>1. p - 1 \in Nat /\ p = 1 + (p - 1)
        BY <2>2
      <4> QED BY <4>1
    <3>2. q * p = q + q * x /\ q * x \in Nat
      BY <3>1
    <3> QED BY <1>3, <2>2, <3>2
  <2> QED BY <2>1, <2>2
<1>5. Mem!Pages(n) = p
  BY <1>1, <1>2, <1>3 DEF Mem!Pages
<1>6. m_nr_pages = p + IF p = 0 THEN 0 ELSE 1
  BY <1>5 DEF LaidOut, Mem!Tail
<1> QED BY <1>1, <1>3, <1>4, <1>6

\* Fewer structs than fit a page come on each.
LEMMA FewPerPage ==
  ASSUME NEW n \in Nat, n < Wrap, Spread(n)
  PROVE  m_nr_pages \in Nat \ {0} /\ m_nr_structs_per_page \in 0 .. PerPage - 1
<1>1. PICK q \in Nat : q = PerPage /\ q # 0
  BY MemConstants
<1>2. n % Wrap = n
  BY MemConstants
<1>3. PICK p \in Nat : p = n \div q /\ n < q * (p + 1)
  <2>1. n \div q \in Nat /\ n = q * (n \div q) + (n % q) /\ n % q \in 0 .. q - 1
    BY <1>1
  <2>2. PICK p \in Nat, r \in 0 .. q - 1 : p = n \div q /\ n = q * p + r
    BY <2>1
  <2>3. q * (p + 1) = q * p + q
    BY <1>1
  <2> QED BY <2>2, <2>3
<1>4. Mem!Pages(n) = p
  BY <1>1, <1>2, <1>3 DEF Mem!Pages
<1>5. p # 0 /\ m_nr_pages = p + 1
  BY <1>4 DEF Spread, LaidOut, Mem!Tail
<1>6. PICK c \in Nat : c = n \div (p + 1) /\ (p + 1) * c <= n
  <2>1. n \div (p + 1) \in Nat /\ n % (p + 1) \in Nat
        /\ n = (p + 1) * (n \div (p + 1)) + (n % (p + 1))
    OBVIOUS
  <2> QED BY <2>1
<1>7. c < q
  <2> SUFFICES ASSUME c >= q PROVE FALSE
    BY <1>1
  <2>1. PICK x \in Nat : c = q + x
    BY <1>1
  <2>2. (p + 1) * c = q * (p + 1) + (p + 1) * x /\ (p + 1) * x >= 0
    BY <1>1, <2>1
  <2>3. (p + 1) * c \in Nat /\ q * (p + 1) \in Nat /\ (p + 1) * x \in Nat
    BY <1>1
  <2> QED BY <1>3, <1>6, <2>2, <2>3
<1> QED BY <1>1, <1>5, <1>6, <1>7 DEF Spread

\* Page after page, nothing is outside and nothing is written twice.
LEMMA Fits ==
  ASSUME NEW n \in Nat, n < Wrap, Spread(n)
  PROVE  \A s \in Mem!Structs : Mem!Place(s) \in Mem!Allocated /\ Mem!Holds(s)
<1>1. PICK q \in Nat, m \in Nat \ {0} :
        q = PerPage /\ m = m_nr_pages /\ m_nr_structs_per_page \in 0 .. q - 1
  BY FewPerPage, MemConstants
<1>2. PICK p \in Nat : p = 2^m_order /\ m <= p
  BY <1>1, OrderEnough DEF Spread, LaidOut
<1>3. ASSUME NEW s \in Mem!Structs
      PROVE  /\ s[1] \in 0 .. m - 1 /\ s[2] \in 0 .. q - 2 /\ Mem!Place(s) = s[1] * q + s[2]
  BY <1>1 DEF Mem!Structs, Mem!Place
<1>4. ASSUME NEW s \in Mem!Structs PROVE Mem!Place(s) \in Mem!Allocated
  <2>1. PICK a \in 0 .. m - 1, b \in 0 .. q - 2 : Mem!Place(s) = a * q + b
    BY <1>3
  <2>2. PICK x \in Nat : p = a + 1 + x
    <3>1. p - a - 1 \in Nat /\ p = a + 1 + (p - a - 1)
      BY <1>2
    <3> QED BY <3>1
  <2>3. p * q = a * q + q + x * q /\ a * q \in Nat /\ x * q \in Nat /\ p * q \in Nat
    BY <2>2
  <2>4. a * q + b \in 0 .. p * q - 1
    BY <2>3
  <2> QED BY <1>1, <1>2, <2>1, <2>4 DEF Mem!Allocated
<1>5. ASSUME NEW s \in Mem!Structs PROVE Mem!Holds(s)
  <2> SUFFICES ASSUME NEW other \in Mem!Structs, Mem!Place(other) = Mem!Place(s), other[1] > s[1]
               PROVE  FALSE
    BY <1>3 DEF Mem!Holds
  <2>1. PICK a \in 0 .. m - 1, b \in 0 .. q - 2 : a = s[1] /\ Mem!Place(s) = a * q + b
    BY <1>3
  <2>2. PICK d \in 0 .. m - 1, e \in 0 .. q - 2 : d = other[1] /\ Mem!Place(other) = d * q + e
    BY <1>3
  <2>3. PICK x \in Nat : d = a + 1 + x
    <3>1. d - a - 1 \in Nat /\ d = a + 1 + (d - a - 1)
      BY <2>1, <2>2
    <3> QED BY <3>1
  <2>4. d * q = a * q + q + x * q /\ a * q \in Nat /\ x * q \in Nat
    BY <2>3
  <2> QED BY <2>1, <2>2, <2>4
<1> QED BY <1>4, <1>5

\* No thread runs before the module is loaded.
LEMMA MemInitIsGood == Mem!Init => MemInv
  BY DEF Mem!Init, MemInv, MemTypes, Mem!KernelMemoryTypeOK

\* The memory module's invariant is kept.
LEMMA MemInductive == MemInv /\ [SumNext]_sumvars => MemInv'
<1> SUFFICES ASSUME MemInv, [SumNext]_sumvars PROVE MemInv'
  OBVIOUS
<1>0. Numbers \subseteq Nat
  BY MemConstants
<1>1. Mem!Next \/ UNCHANGED m_vars
  BY DEF SumNext, sumvars
<1>2. CASE UNCHANGED m_vars
  <2>1. /\ UNCHANGED <<m_loader, m_intact, m_stop, m_thread, m_nr_structs, m_nr_pages, m_tail,
                       m_order, m_nr_structs_per_page, m_read>>
    BY <1>2 DEF m_vars
  <2> QED BY <2>1 DEF MemInv, MemTypes, Mem!KernelMemoryTypeOK, LaidOut, Spread
<1>3. CASE m_intact /\ (Mem!Load \/ Mem!SetParameter \/ Mem!Stop \/ Mem!Stopped)
  <2>1. /\ UNCHANGED <<m_nr_pages, m_tail, m_order, m_nr_structs_per_page, m_read>>
        /\ m_thread' = m_thread \/ m_thread' = "start"
        /\ m_intact' \/ m_thread' = "ended"
    BY <1>3 DEF Mem!Load, Mem!SetParameter, Mem!Stop, Mem!Stopped, Mem!layout
  <2>2. MemTypes'
    BY <1>3 DEF Mem!Load, Mem!SetParameter, Mem!Stop, Mem!Stopped, Mem!layout, MemInv, MemTypes,
       Mem!KernelMemoryTypeOK
  <2> QED BY <1>3, <2>1, <2>2 DEF MemInv, LaidOut, Spread
<1>4. CASE Mem!ReadTail
  <2>1. m_nr_structs \in Numbers
    BY <1>4 DEF Mem!ReadTail, Mem!ThreadGoes, MemInv, MemTypes
  <2>2. Mem!Tail(m_nr_structs) \in {0, 1}
    BY <1>0, <2>1, PagesNat
  <2>3. MemTypes'
    BY <1>4, <2>1, <2>2 DEF Mem!ReadTail, Mem!ThreadGoes, MemInv, MemTypes,
       Mem!KernelMemoryTypeOK
  <2>4. \/ m_thread' = "ended"
        \/ /\ m_thread' = "multiply"
           /\ \A n \in Numbers : m_read' = {n} => m_tail' = Mem!Tail(n)
    BY <1>4 DEF Mem!ReadTail, Mem!ThreadGoes
  <2> QED BY <2>3, <2>4 DEF MemInv
<1>5. CASE Mem!Multiply
  <2>1. /\ m_nr_structs \in Numbers /\ m_thread = "multiply" /\ m_thread' = "divide"
        /\ m_nr_pages' = Mem!Pages(m_nr_structs) + m_tail
        /\ m_order' = Mem!my_get_order(m_nr_pages') /\ m_read' = m_read \cup {m_nr_structs}
        /\ UNCHANGED <<m_loader, m_nr_structs, m_tail, m_nr_structs_per_page>>
    BY <1>5 DEF Mem!Multiply, Mem!ThreadGoes, MemInv, MemTypes
  <2>2. Mem!Pages(m_nr_structs) \in Nat /\ m_tail \in {0, 1}
    BY <1>0, <2>1, PagesNat DEF MemInv, MemTypes, Mem!KernelMemoryTypeOK
  <2>3. m_nr_pages' \in Nat
    BY <2>1, <2>2
  <2>4. m_order' \in Nat
    <3>1. PICK m \in Nat : m = m_nr_pages'
      BY <2>3
    <3>2. Mem!my_get_order(m) \in Nat
      <4>1. CASE m = 0
        <5>1. Mem!Shifts[m] \in Nat /\ ~Mem!PowerOfTwo(m)
          <6>1. \A k \in 0 .. 0 : 2^k # 0
            <7>1. 2^0 = 1
              OBVIOUS
            <7> QED BY <7>1
          <6> QED BY <4>1, <6>1, ShiftsEnough DEF Mem!PowerOfTwo
        <5> QED BY <5>1 DEF Mem!my_get_order
      <4>2. CASE m # 0
        BY <4>2, OrderEnough
      <4> QED BY <4>1, <4>2
    <3> QED BY <2>1, <3>1, <3>2
  <2>5. MemTypes'
    BY <2>1, <2>3, <2>4 DEF MemInv, MemTypes, Mem!KernelMemoryTypeOK
  <2>6. ASSUME NEW n \in Numbers, m_read' = {n} PROVE LaidOut(n)'
    <3>1. m_nr_structs = n /\ m_read \subseteq {n}
      BY <2>1, <2>6
    <3>2. m_read = {n}
      BY <3>1, <2>1 DEF MemInv, MemTypes
    <3> QED BY <2>1, <3>1, <3>2 DEF MemInv, LaidOut
  <2> QED BY <2>1, <2>5, <2>6 DEF MemInv
<1>6. CASE Mem!Divide /\ m_intact
  <2>1. /\ m_nr_structs \in Numbers /\ m_thread = "divide" /\ m_thread' = "alloc"
        /\ m_read' = m_read \cup {m_nr_structs}
        /\ UNCHANGED <<m_loader, m_nr_structs, m_nr_pages, m_tail, m_order>>
    BY <1>6 DEF Mem!Divide, Mem!ThreadGoes, MemInv, MemTypes
  <2>2. IF m_nr_pages # 0
        THEN m_intact' /\ m_nr_structs_per_page' = m_nr_structs \div m_nr_pages
        ELSE ~m_intact' /\ UNCHANGED m_nr_structs_per_page
    BY <1>6 DEF Mem!Divide
  <2>3. m_nr_structs_per_page' \in Nat
    <3>1. PICK n \in Nat, p \in Nat : n = m_nr_structs /\ p = m_nr_pages
      BY <1>0, <2>1 DEF MemInv, MemTypes, Mem!KernelMemoryTypeOK
    <3>2. p # 0 => n \div p \in Nat
      OBVIOUS
    <3> QED BY <2>2, <3>1, <3>2 DEF MemInv, MemTypes, Mem!KernelMemoryTypeOK
  <2>4. MemTypes'
    BY <2>1, <2>3 DEF MemInv, MemTypes, Mem!KernelMemoryTypeOK
  <2>5. ASSUME NEW n \in Numbers, m_read' = {n}
        PROVE  (m_intact' => Spread(n)') /\ (~m_intact' => LaidOut(n)' /\ m_nr_pages' = 0)
    <3>1. m_nr_structs = n /\ m_read \subseteq {n}
      BY <2>1, <2>5
    <3>2. m_read = {n}
      BY <3>1, <2>1 DEF MemInv, MemTypes
    <3>3. LaidOut(n)
      BY <2>1, <3>2 DEF MemInv
    <3> QED BY <2>1, <2>2, <2>5, <3>1, <3>3 DEF LaidOut, Spread
  <2> QED BY <2>1, <2>4, <2>5 DEF MemInv
<1>7. CASE Mem!AllocAndFill /\ m_intact
  <2>1. /\ m_thread = "alloc" /\ m_thread' \in {"ended", "wait"}
        /\ UNCHANGED <<m_loader, m_nr_structs, m_nr_pages, m_tail, m_order,
                       m_nr_structs_per_page, m_read>>
        /\ m_thread' = "wait" => m_intact' = \A s \in Mem!Structs : Mem!Place(s) \in Mem!Allocated
    BY <1>7 DEF Mem!AllocAndFill, Mem!ThreadGoes, Mem!layout
  <2>2. MemTypes'
    BY <2>1 DEF MemInv, MemTypes, Mem!KernelMemoryTypeOK
  <2>3. ASSUME NEW n \in Numbers, m_read' = {n}
        PROVE  Spread(n)' /\ (n < Wrap /\ m_thread' = "wait" => m_intact')
    <3>1. Spread(n)
      BY <1>7, <2>1, <2>3 DEF MemInv
    <3>2. n < Wrap => \A s \in Mem!Structs : Mem!Place(s) \in Mem!Allocated
      BY <1>0, <3>1, Fits
    <3> QED BY <2>1, <3>1, <3>2 DEF LaidOut, Spread
  <2> QED BY <2>1, <2>2, <2>3 DEF MemInv
<1>8. CASE Mem!Verify /\ m_intact
  <2>1. /\ m_thread = "wait" /\ m_thread' \in {"free", "error"} /\ m_intact'
        /\ UNCHANGED <<m_loader, m_nr_structs, m_nr_pages, m_tail, m_order,
                       m_nr_structs_per_page, m_read>>
        /\ (\A s \in Mem!Structs : Mem!Holds(s)) => m_thread' = "free"
    BY <1>8 DEF Mem!Verify, Mem!ThreadGoes, Mem!layout
  <2>2. MemTypes'
    BY <2>1 DEF MemInv, MemTypes, Mem!KernelMemoryTypeOK
  <2>3. ASSUME NEW n \in Numbers, m_read' = {n}
        PROVE  Spread(n)' /\ (n < Wrap => m_thread' # "error")
    <3>1. Spread(n)
      BY <1>8, <2>1, <2>3 DEF MemInv
    <3>2. n < Wrap => \A s \in Mem!Structs : Mem!Holds(s)
      BY <1>0, <3>1, Fits
    <3> QED BY <2>1, <3>1, <3>2 DEF LaidOut, Spread
  <2> QED BY <2>1, <2>2, <2>3 DEF MemInv
<1>9. CASE Mem!Free
  BY <1>9 DEF Mem!Free, Mem!ThreadGoes, Mem!layout, MemInv, MemTypes, Mem!KernelMemoryTypeOK
<1> QED BY <1>1, <1>2, <1>3, <1>4, <1>5, <1>6, <1>7, <1>8, <1>9 DEF Mem!Next

(* studio4/kernel_memory.c: where nr_structs does not change between the   *)
(* thread's three readings of it and its bytes fit 32 bits, enough structs *)
(* to fill a page are all inside of the pages that my_get_order (lines 39  *)
(* to 56) asks for and the check at the end finds each as it was written;  *)
(* with fewer the thread divides by zero (line 83) and gets no further.    *)
(* That is so for every number of structs and every number that fits a     *)
(* page.                                                                   *)
THEOREM MemoryVerifies == SumSpec => []VerifiesClean
<1>1. SumInit => MemInv
  BY MemInitIsGood DEF SumInit
<1>2. MemInv => VerifiesClean
  <2> SUFFICES ASSUME MemInv, NEW n \in Numbers, m_read = {n}, n < Wrap
               PROVE  /\ n >= PerPage => /\ m_thread \in {"alloc", "wait", "free"} => m_intact
                                         /\ m_thread # "error"
                      /\ n < PerPage  => /\ m_thread = "alloc" => ~m_intact
                                         /\ m_thread \notin {"wait", "free", "error"}
    BY DEF VerifiesClean, Mem!VerifiesClean
  <2>1. n \in Nat /\ PerPage \in Nat
    BY MemConstants
  <2>2. m_thread \in {"wait", "free", "error"} => m_intact /\ m_thread # "error"
    BY DEF MemInv
  <2>3. m_thread \in {"alloc", "wait", "free"} /\ m_intact => n >= PerPage
    <3> SUFFICES ASSUME m_thread \in {"alloc", "wait", "free"}, m_intact PROVE n >= PerPage
      OBVIOUS
    <3>1. Spread(n)
      BY DEF MemInv
    <3>2. m_nr_pages # 0 /\ LaidOut(n)
      BY <3>1 DEF Spread
    <3> QED BY <2>1, <3>2, NoPages
  <2>4. m_thread = "alloc" /\ ~m_intact => n < PerPage
    <3> SUFFICES ASSUME m_thread = "alloc", ~m_intact PROVE n < PerPage
      OBVIOUS
    <3>1. LaidOut(n) /\ m_nr_pages = 0
      BY DEF MemInv
    <3> QED BY <2>1, <3>1, NoPages
  <2> QED BY <2>1, <2>2, <2>3, <2>4
<1> QED BY <1>1, <1>2, MemInductive, PTL DEF SumSpec

-----------------------------------------------------------------------------
(***************************************************************************)
(* The self test of kfifo_example.c, on sequences.                         *)
(***************************************************************************)
\* The second of two sequences, from where it starts.
LEMMA DropFirst ==
  ASSUME NEW S, NEW s \in Seq(S), NEW t \in Seq(S)
  PROVE  Fifo!Drop(s \o t, Len(s)) = t
<1>0. PICK k \in Nat, n \in Nat : k = Len(s) /\ n = Len(t)
  OBVIOUS
<1>1. s \o t \in Seq(S) /\ Len(s \o t) = k + n
  BY <1>0
<1>2. PICK w \in Seq(S) : w = s \o t
  BY <1>1
<1>3. \A i \in 1 .. n : w[i + k] = t[i]
  BY <1>0, <1>2
<1>4. SubSeq(w, k + 1, k + n) = [i \in 1 .. n |-> w[i + k]]
  <2>1. Len(w) = k + n
    BY <1>1, <1>2
  <2>2. SubSeq(w, k + 1, k + n) = [i \in 1 .. (k + n) - (k + 1) + 1 |-> w[i + (k + 1) - 1]]
    OBVIOUS
  <2>3. (k + n) - (k + 1) + 1 = n /\ \A i \in 1 .. n : i + (k + 1) - 1 = i + k
    OBVIOUS
  <2> QED BY <2>2, <2>3
<1>5. t = [i \in 1 .. n |-> t[i]]
  BY <1>0
<1>6. SubSeq(w, k + 1, k + n) = t
  BY <1>3, <1>4, <1>5
<1> QED BY <1>0, <1>1, <1>2, <1>6 DEF Fifo!Drop

\* The type of a sequence of five.
LEMMA Five ==
  ASSUME NEW S, NEW a \in S, NEW b \in S, NEW c \in S, NEW d \in S, NEW e \in S
  PROVE  <<a, b, c, d, e>> \in Seq(S) /\ Len(<<a, b, c, d, e>>) = 5
OBVIOUS

\* testfunc gets what it expects.
LEMMA SelfTest == Fifo!TestQueue = Fifo!expected_result
<1> DEFINE S == {"h", "e", "l", "o"} \cup Nat
           filled == [i \in 1 .. 10 |-> i - 1]
           a == [i \in 1 .. 8 |-> i + 1]
           b == <<0, 1>>
           cycled == [i \in 1 .. 9 |-> IF i <= 7 THEN i + 2 ELSE i - 8]
           rest == [i \in 1 .. 23 |-> i + 19]
<1>1. Fifo!Drop(Fifo!Hello \o filled, 5) = filled
  <2>1. Fifo!Hello \in Seq(S) /\ Len(Fifo!Hello) = 5
    <3>1. "h" \in S /\ "e" \in S /\ "l" \in S /\ "o" \in S
      OBVIOUS
    <3> HIDE DEF S
    <3> QED BY <3>1, Five DEF Fifo!Hello
  <2>2. filled \in Seq(Nat) /\ Len(filled) = 10
    OBVIOUS
  <2>3. filled \in Seq(S)
    <3> HIDE DEF filled
    <3> QED BY <2>2
  <2> HIDE DEF S, filled
  <2>4. Fifo!Drop(Fifo!Hello \o filled, Len(Fifo!Hello)) = filled
    BY <2>1, <2>3, DropFirst, ZenonT(30)
  <2> QED BY <2>1, <2>4
<1>2. Fifo!Drop(filled, 2) = a
  <2>1. filled \in Seq(Nat) /\ Len(filled) = 10
    OBVIOUS
  <2>2. SubSeq(filled, 3, 10) = a
    OBVIOUS
  <2> HIDE DEF filled
  <2> QED BY <2>1, <2>2 DEF Fifo!Drop
<1>3. SubSeq(filled, 1, 2) = b
  <2>1. filled \in Seq(Nat) /\ Len(filled) = 10
    OBVIOUS
  <2>2. SubSeq(filled, 1, 2) = [i \in 1 .. 2 |-> i - 1]
    OBVIOUS
  <2>3. b = [i \in 1 .. 2 |-> i - 1]
    OBVIOUS
  <2> HIDE DEF filled, b
  <2> QED BY <2>2, <2>3
<1>4. Fifo!Skipped(a \o b) = cycled
  <2>1. a \o b = [i \in 1 .. 10 |-> IF i <= 8 THEN i + 1 ELSE i - 9]
    OBVIOUS
  <2> QED BY <2>1 DEF Fifo!Skipped
<1>5. Len(cycled) = 9
  OBVIOUS
<1>6. Fifo!TestQueue = cycled \o [i \in 1 .. 32 - Len(cycled) |-> i + 19]
  <2> HIDE DEF cycled, a, b
  <2> QED BY <1>1, <1>2, <1>3, <1>4 DEF Fifo!TestQueue
<1>7. Fifo!TestQueue = cycled \o rest
  <2>1. 32 - 9 = 23
    OBVIOUS
  <2> HIDE DEF cycled
  <2> QED BY <1>5, <1>6, <2>1
<1>8. cycled = [i \in 1 .. 7 |-> i + 2] \o <<0, 1>>
  OBVIOUS
<1> QED BY <1>7, <1>8 DEF Fifo!expected_result

(* kfifo_example.c: testfunc (lines 57 to 108) finds the sequence it       *)
(* expects, so that init does not fail.                                    *)
THEOREM SelfTestIsPassed == SumSpec => []SelfTestPasses
<1>1. SumInit => SelfTestPasses
  BY DEF SumInit, Fifo!Init, SelfTestPasses, Fifo!SelfTestPasses
<1>2. SelfTestPasses /\ [SumNext]_sumvars => SelfTestPasses'
  <2> SUFFICES ASSUME SelfTestPasses, [SumNext]_sumvars PROVE f_loader' # "eio"
    BY DEF SelfTestPasses, Fifo!SelfTestPasses
  <2>1. Fifo!Next \/ UNCHANGED f_vars
    BY DEF SumNext, sumvars
  <2>2. f_loader # "eio"
    BY DEF SelfTestPasses, Fifo!SelfTestPasses
  <2>3. CASE UNCHANGED f_vars
    BY <2>2, <2>3 DEF f_vars
  <2>4. CASE Fifo!Load
    BY <2>4, SelfTest DEF Fifo!Load
  <2>5. CASE Fifo!Next /\ ~Fifo!Load
    BY <2>2, <2>5 DEF Fifo!Next, Fifo!CreateThread, Fifo!RemoveProc, Fifo!StopThread,
       Fifo!OpenFails, Fifo!ThreadRead, Fifo!BeginWrite, Fifo!CopyIn, Fifo!MoveIn,
       Fifo!CopyOut, Fifo!MoveOut, Fifo!BeginRead, Fifo!ThreadEnds
  <2> QED BY <2>1, <2>3, <2>4, <2>5
<1> QED BY <1>1, <1>2, PTL DEF SumSpec

-----------------------------------------------------------------------------
(***************************************************************************)
(* The types of all modules.                                               *)
(***************************************************************************)
FTypes ==
  /\ f_stop \subseteq Fifo!Threads
  /\ f_write_lock \in Fifo!Actors \cup {Fifo!Nobody}
  /\ f_read_lock \in Users \cup {Fifo!Nobody}
  /\ \A a \in Fifo!Actors : Len(f_held[a]) <= 2

\* Nobody copies more than it asks for.
LEMMA FifoKeepsTypes == FInv /\ FTypes /\ [SumNext]_sumvars => FTypes'
<1> SUFFICES ASSUME FInv, FTypes, [SumNext]_sumvars PROVE FTypes'
  OBVIOUS
<1>0. /\ f_in \in Nat /\ f_out \in Nat /\ f_held \in [Fifo!Actors -> Seq(Nat)]
      /\ Size \in Nat
  BY Parameters DEF FInv, FShapes, Fifo!KfifoAssumption
<1>1. Fifo!Next \/ UNCHANGED f_vars
  BY DEF SumNext, sumvars
<1>2. CASE UNCHANGED f_vars
  BY <1>2 DEF f_vars, FTypes
<1>3. CASE \/ Fifo!Load \/ Fifo!CreateThread \/ Fifo!RemoveProc \/ Fifo!OpenFails
           \/ Fifo!ThreadRead \/ \E a \in Fifo!Threads : Fifo!ThreadEnds(a)
  BY <1>3 DEF Fifo!Load, Fifo!CreateThread, Fifo!RemoveProc, Fifo!OpenFails,
     Fifo!ThreadRead, Fifo!ThreadEnds, Fifo!locks, FTypes
<1>4. CASE Fifo!StopThread
  BY <1>4 DEF Fifo!StopThread, Fifo!locks, FTypes
<1>5. CASE \E u \in Users : Fifo!BeginRead(u)
  BY <1>5 DEF Fifo!BeginRead, FTypes
<1>6. ASSUME NEW a \in Fifo!Actors, Fifo!BeginWrite(a) PROVE FTypes'
  BY <1>6 DEF Fifo!BeginWrite, FTypes
<1>7. ASSUME NEW a \in Fifo!Actors, Fifo!MoveIn(a) \/ Fifo!MoveOut(a) PROVE FTypes'
  <2>1. /\ f_held' = [f_held EXCEPT ![a] = <<>>] /\ f_stop' = f_stop
        /\ f_write_lock' \in {f_write_lock, Fifo!Nobody}
        /\ f_read_lock' \in {f_read_lock, Fifo!Nobody}
    BY <1>7 DEF Fifo!MoveIn, Fifo!MoveOut
  <2>2. Len(<<>>) = 0
    OBVIOUS
  <2> QED BY <1>0, <2>1, <2>2 DEF FTypes
<1>8. ASSUME NEW a \in Fifo!Actors, Fifo!CopyIn(a) PROVE FTypes'
  <2>1. PICK count \in 1 .. 2 :
          LET k == IF count < Size - (f_in - f_out) THEN count ELSE Size - (f_in - f_out) IN
            f_held' = [f_held EXCEPT ![a] = [i \in 1 .. (IF k > 0 THEN k ELSE 0) |-> f_in + i]]
    BY <1>8 DEF Fifo!CopyIn
  <2> DEFINE least == IF count < Size - (f_in - f_out) THEN count ELSE Size - (f_in - f_out)
             n == IF least > 0 THEN least ELSE 0
  <2>5. f_held' = [f_held EXCEPT ![a] = [i \in 1 .. n |-> f_in + i]]
    BY <2>1
  <2>6. n \in 0 .. 2
    BY <1>0, <2>1
  <2> HIDE DEF n
  <2>2. PICK m \in 0 .. 2 : f_held' = [f_held EXCEPT ![a] = [i \in 1 .. m |-> f_in + i]]
    BY <2>5, <2>6, Zenon
  <2>3. Len([i \in 1 .. m |-> f_in + i]) = m
    OBVIOUS
  <2>4. UNCHANGED <<f_stop, f_write_lock, f_read_lock>>
    BY <1>8 DEF Fifo!CopyIn, Fifo!locks
  <2> QED BY <1>0, <2>2, <2>3, <2>4 DEF FTypes
<1>9. ASSUME NEW a \in Fifo!Actors, Fifo!CopyOut(a) PROVE FTypes'
  <2>1. PICK count \in 1 .. 2 :
          LET k == IF f_in < f_out \/ count < f_in - f_out THEN count ELSE f_in - f_out IN
            f_held' = [f_held EXCEPT ![a] = [i \in 1 .. k |-> f_slot[(f_out + i - 1) % Size]]]
    BY <1>9 DEF Fifo!CopyOut
  <2> DEFINE n == IF f_in < f_out \/ count < f_in - f_out THEN count ELSE f_in - f_out
  <2>5. f_held' = [f_held EXCEPT ![a] = [i \in 1 .. n |-> f_slot[(f_out + i - 1) % Size]]]
    BY <2>1
  <2>6. n \in 0 .. 2
    BY <1>0, <2>1
  <2> HIDE DEF n
  <2>2. PICK m \in 0 .. 2 :
          f_held' = [f_held EXCEPT ![a] = [i \in 1 .. m |-> f_slot[(f_out + i - 1) % Size]]]
    BY <2>5, <2>6, Zenon
  <2>3. Len([i \in 1 .. m |-> f_slot[(f_out + i - 1) % Size]]) = m
    OBVIOUS
  <2>4. UNCHANGED <<f_stop, f_write_lock, f_read_lock>>
    BY <1>9 DEF Fifo!CopyOut, Fifo!locks
  <2> QED BY <1>0, <2>2, <2>3, <2>4 DEF FTypes
<1> QED BY <1>1, <1>2, <1>3, <1>4, <1>5, <1>6, <1>7, <1>8, <1>9 DEF Fifo!Next

PTypes ==
  /\ Per!PeriodicTypeOK
  /\ p_pc \in [Per!Threads -> {"none", "created", "first", "test", "mark", "sleep", "work",
                               "ended"}]

\* The periodic threads go from place to place.
LEMMA PeriodicKeepsTypes == PTypes /\ [SumNext]_sumvars => PTypes'
<1> SUFFICES ASSUME PTypes, [SumNext]_sumvars PROVE PTypes'
  OBVIOUS
<1>1. Per!Next \/ UNCHANGED p_vars
  BY DEF SumNext, sumvars
<1>2. ASSUME NEW W, Per!Wake(W)
      PROVE  p_pc' \in [Per!Threads -> {"none", "created", "first", "test", "mark", "sleep",
                                        "work", "ended"}]
  BY <1>2 DEF Per!Wake, PTypes
<1>3. p_at < Per!Last => p_at + 1 \in Per!Threads
  BY DEF PTypes, Per!PeriodicTypeOK, Per!Threads, Per!Last
<1> USE DEF Per!PeriodicTypeOK, PTypes
<1>4. CASE UNCHANGED p_vars
  BY <1>4 DEF p_vars
<1>5. CASE Per!Load \/ Per!StartTimer \/ Per!CancelTimer
  BY <1>5 DEF Per!Load, Per!StartTimer, Per!CancelTimer, Per!init
<1>6. CASE Per!Create
  BY <1>6 DEF Per!Create
<1>7. CASE Per!WakeCreated
  <2>1. p_at' \in Per!Threads /\ UNCHANGED <<p_rate, p_stop>>
    BY <1>3, <1>7 DEF Per!WakeCreated, Per!Threads
  <2>2. Per!Wake({p_at})
    BY <1>7 DEF Per!WakeCreated
  <2> QED BY <1>2, <2>1, <2>2
<1>8. CASE Per!TimerFunction
  <2>1. p_rate' \in 0 .. 3 /\ UNCHANGED <<p_at, p_stop>>
    BY <1>8 DEF Per!TimerFunction, Per!init
  <2>2. \E W : Per!Wake(W)
    BY <1>8 DEF Per!TimerFunction
  <2> QED BY <1>2, <2>1, <2>2
<1>9. CASE Per!Exit
  <2>1. p_at' \in Per!Threads /\ p_rate' = p_rate /\ p_stop' \subseteq Per!Threads
    BY <1>3, <1>9 DEF Per!Exit, Per!Stop, Per!Stopped, Per!init
  <2>2. (\E W : Per!Wake(W)) \/ p_pc' = p_pc
    BY <1>9 DEF Per!Exit, Per!Stop, Per!Stopped
  <2> QED BY <1>2, <2>1, <2>2
<1>10. ASSUME NEW t \in Per!Threads, Per!ThreadStep(t) PROVE PTypes'
  BY <1>10 DEF Per!ThreadStep, Per!FirstRun, Per!Test, Per!Mark, Per!Work, Per!Goes, Per!init
<1> QED BY <1>1, <1>4, <1>5, <1>6, <1>7, <1>8, <1>9, <1>10 DEF Per!Next

\* The socket never holds more than it may.
LEMMA UdpKeepsTypes == Udp!UdpTypeOK /\ [SumNext]_sumvars => Udp!UdpTypeOK'
<1> SUFFICES ASSUME Udp!UdpTypeOK, [SumNext]_sumvars PROVE Udp!UdpTypeOK'
  OBVIOUS
<1>1. Udp!Next \/ UNCHANGED u_vars
  BY DEF SumNext, sumvars
<1>2. MaxWaiting \in Nat
  BY Parameters DEF Udp!UdpAssumption
<1>3. \/ u_server' = u_server \/ u_server' = TRUE \/ u_server' = FALSE
  BY <1>1 DEF u_vars, Udp!Next, Udp!Load, Udp!LookAtServer, Udp!Datagram, Udp!Thread,
     Udp!ThreadStep, Udp!FirstRun, Udp!Setup, Udp!Receive, Udp!Return, Udp!Exit,
     Udp!StopServer, Udp!Joined
<1>4. u_stop' = u_stop \/ u_stop' = TRUE
  BY <1>1 DEF u_vars, Udp!Next, Udp!Load, Udp!LookAtServer, Udp!Datagram, Udp!Thread,
     Udp!ThreadStep, Udp!Exit, Udp!StopServer, Udp!Joined
<1>5. \/ u_waiting' = u_waiting
      \/ u_waiting > 0 /\ u_waiting' = u_waiting - 1
      \/ u_waiting < MaxWaiting /\ u_waiting' = u_waiting + 1
  BY <1>1 DEF u_vars, Udp!Next, Udp!Load, Udp!LookAtServer, Udp!Datagram, Udp!Thread,
     Udp!ThreadStep, Udp!FirstRun, Udp!Setup, Udp!Receive, Udp!Return, Udp!Exit,
     Udp!StopServer, Udp!Joined
<1>6. u_waiting' \in 0 .. MaxWaiting
  BY <1>2, <1>5 DEF Udp!UdpTypeOK
<1>7. u_server' \in BOOLEAN /\ u_stop' \in BOOLEAN
  BY <1>3, <1>4 DEF Udp!UdpTypeOK
<1> QED BY <1>6, <1>7 DEF Udp!UdpTypeOK

\* The behaviours of all the modules are, for the barrier, behaviours of its
\* own specification.
LEMMA BarrierImplemented == SumSpec => Spec
<1>1. SumInit => Init
  BY DEF SumInit
<1>2. [SumNext]_sumvars => [Next]_vars
  BY DEF SumNext, sumvars
<1> QED BY <1>1, <1>2, PTL DEF SumSpec, Spec

(* Each module's state keeps its type: the copies of the FIFO's users, the *)
(* stamps and their count, the places and counters of the periodic         *)
(* threads, the pages of the memory module, the queue of the UDP server    *)
(* and the barrier's counter.                                              *)
THEOREM TypeCorrect == SumSpec => []TypeOK
<1> DEFINE Kept == /\ loaded \in Modules /\ FInv /\ FTypes /\ IInv /\ TInv
                   /\ PTypes /\ MemInv /\ Udp!UdpTypeOK
<1>1. SumInit => Kept
  <2> SUFFICES ASSUME SumInit PROVE Kept
    OBVIOUS
  <2>1. loaded \in Modules /\ FInv /\ TInv /\ IInv /\ MemInv
    BY FInitIsGood, TInitIsGood, InitIsGood, MemInitIsGood DEF SumInit
  <2>2. FTypes
    <3>1. Len(<<>>) = 0
      OBVIOUS
    <3> QED BY <3>1 DEF SumInit, Fifo!Init, FTypes
  <2>3. PTypes
    BY DEF SumInit, Per!Init, PTypes, Per!PeriodicTypeOK, Per!Threads
  <2>4. Udp!UdpTypeOK
    <3>1. 0 \in 0 .. MaxWaiting
      BY Parameters DEF Udp!UdpAssumption
    <3> QED BY <3>1 DEF SumInit, Udp!Init, Udp!UdpTypeOK
  <2> QED BY <2>1, <2>2, <2>3, <2>4
<1>2. loaded \in Modules /\ [SumNext]_sumvars => (loaded \in Modules)'
  BY DEF SumNext, sumvars
<1>3. IInv /\ [SumNext]_sumvars => IInv'
  <2>1. [SumNext]_sumvars => [Next]_vars
    BY DEF SumNext, sumvars
  <2> QED BY <2>1, StepKeeps
<1>4. Kept /\ [SumNext]_sumvars => Kept'
  BY <1>2, <1>3, FifoInductive, FifoKeepsTypes, TimingInductive, PeriodicKeepsTypes,
     MemInductive, UdpKeepsTypes
<1>5. Kept => TypeOK
  BY DEF FInv, FShapes, FTypes, TInv, TShapes, PTypes, MemInv, MemTypes, IInv, TypeOK,
     Fifo!KfifoTypeOK
<1> QED
  <2> HIDE DEF Kept
  <2> QED BY <1>1, <1>4, <1>5, PTL DEF SumSpec
=============================================================================
