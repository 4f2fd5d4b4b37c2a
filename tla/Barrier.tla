------------------------------ MODULE Barrier ------------------------------
(***************************************************************************)
(* studio8/timing_module_q7.c: four real-time threads on cores of their own*)
(* take two time stamps each and meet at a barrier, where they spin until  *)
(* an atomic counter is zero.                                              *)
(*                                                                         *)
(* The thread of a smaller number has the higher priority.                 *)
(***************************************************************************)
EXTENDS Integers

CONSTANT Cores      \* cores of the machine

ASSUME BarrierAssumption == {0, 1, 2} \subseteq Cores

Threads == 1 .. 4

VARIABLES
  loader, at,       \* place in init and exit, thread it is at
  intact,           \* no undefined behaviour has shown; the model ends there
  counter,
  stop,             \* threads told to stop
  pc                \* place in thread_fn

init == <<loader, at>>
vars == <<init, intact, counter, stop, pc>>

Init ==
  /\ loader = "out" /\ at = 1 /\ intact = TRUE
  /\ counter = 0
  /\ stop = {} /\ pc = [t \in Threads |-> "none"]

-----------------------------------------------------------------------------
(* init and exit. *)

Setup_ForInitToo(n) == counter' = n + 1
Setup(n)            == counter' = n

Load ==
  /\ loader = "out" /\ loader' = "create" /\ at' = 1
  /\ Setup(4)
  /\ UNCHANGED <<intact, stop, pc>>

InitGoesOn(from, to) ==
  /\ loader = from
  /\ IF at < 4 THEN at' = at + 1 /\ UNCHANGED loader ELSE at' = 1 /\ loader' = to

(* On an error init leaves the threads it has created, which nobody wakes. *)
Create ==
  /\ \/ InitGoesOn("create", "wake") /\ pc' = [pc EXCEPT ![at] = "created"]
     \/ loader = "create" /\ loader' = "failed" /\ UNCHANGED <<at, pc>>
  /\ UNCHANGED <<intact, counter, stop>>

WakeUp ==
  /\ InitGoesOn("wake", "in")
  /\ pc' = [pc EXCEPT ![at] = "woken"]
  /\ UNCHANGED <<intact, counter, stop>>

Unload ==
  /\ loader = "in" /\ loader' = "stop"
  /\ UNCHANGED <<at, intact, counter, stop, pc>>

(* The task of a thread that has ended is gone: nobody holds it.           *)
Stop ==
  /\ loader = "stop" /\ at \notin stop
  /\ stop' = stop \cup {at}
  /\ intact' = (pc[at] # "left")
  /\ UNCHANGED <<init, counter, pc>>

Stopped ==
  /\ at \in stop /\ pc[at] \in {"left", "skipped"}
  /\ InitGoesOn("stop", "gone")
  /\ UNCHANGED <<intact, counter, stop, pc>>

-----------------------------------------------------------------------------
(* The threads. *)

(* thread 4 is bound to core 4: where there is none, it may run anywhere.  *)
Core == <<0, 1, 2, 4>>
CoresOf(t) == IF Core[t] \in Cores THEN {Core[t]} ELSE Cores

Awake(t) == pc[t] \in {"woken", "number", "stamp", "astray", "arrive", "spin"}

(* A thread keeps every one of lower priority from its core.               *)
Runs(t) ==
  /\ Awake(t)
  /\ \E c \in CoresOf(t) : \A u \in 1 .. t - 1 : Awake(u) => CoresOf(u) # {c}

(* A thread that is told to stop before it first runs never calls          *)
(* thread_fn.                                                              *)
FirstRun(t) ==
  /\ pc[t] = "woken"
  /\ pc' = [pc EXCEPT ![t] = IF t \in stop THEN "skipped" ELSE "number"]
  /\ UNCHANGED <<intact, counter>>

(* The number is on the stack of init; when init has returned it may be    *)
(* anything, and the stamps be written past the array.                     *)
ReadNumber(t) ==
  /\ pc[t] = "number"
  /\ \/ pc' = [pc EXCEPT ![t] = "stamp"]
     \/ loader \notin {"create", "wake"} /\ pc' = [pc EXCEPT ![t] = "astray"]
  /\ UNCHANGED <<intact, counter>>

Stamp(t) ==
  /\ \/ pc[t] = "stamp" /\ pc' = [pc EXCEPT ![t] = "arrive"] /\ UNCHANGED intact
     \/ pc[t] = "astray" /\ intact' = FALSE /\ UNCHANGED pc
  /\ UNCHANGED counter

Arrive(t) ==
  /\ pc[t] = "arrive"
  /\ counter' = counter - 1
  /\ pc' = [pc EXCEPT ![t] = "spin"]
  /\ UNCHANGED intact

Open_OneLeft == counter <= 1
Open         == counter = 0

Leave(t) ==
  /\ pc[t] = "spin" /\ Open
  /\ pc' = [pc EXCEPT ![t] = "left"]
  /\ UNCHANGED <<intact, counter>>

ThreadStep(t) ==
  /\ intact /\ Runs(t)
  /\ FirstRun(t) \/ ReadNumber(t) \/ Stamp(t) \/ Arrive(t) \/ Leave(t)
  /\ UNCHANGED <<init, stop>>

InitStep == intact /\ (Load \/ Create \/ WakeUp \/ Unload \/ Stop \/ Stopped)

Next == InitStep \/ \E t \in Threads : ThreadStep(t)

Fairness == \A t \in Threads : WF_vars(ThreadStep(t))

Spec     == Init /\ [][Next]_vars
FairSpec == Spec /\ Fairness

-----------------------------------------------------------------------------
(* Properties. *)

Places == {"none", "created", "woken", "number", "stamp", "astray",
           "arrive", "spin", "left", "skipped"}

BarrierTypeOK ==
  /\ loader \in {"out", "create", "failed", "wake", "in", "stop", "gone"}
  /\ at \in Threads /\ intact \in BOOLEAN /\ counter \in Int
  /\ stop \subseteq Threads
  /\ pc \in [Threads -> Places]

(* wait (lines 36 to 44): nobody is past the barrier before every thread   *)
(* has come to it, whenever the module is removed.                         *)
NobodyLeavesEarly ==
  \A t \in Threads : pc[t] = "left" => \A u \in Threads : pc[u] \in {"spin", "left"}

(* The barrier opens (lines 62 to 124): once the module is loaded every    *)
(* thread leaves it, though they spin at real-time priority, unless one is *)
(* stopped before it first runs.                                           *)
BarrierOpens ==
  loader = "in" ~> ((\A t \in Threads : pc[t] = "left")
                     \/ (\E t \in Threads : pc[t] = "skipped") \/ ~intact)
=============================================================================
