-------------------------- MODULE PeriodicThreads --------------------------
(***************************************************************************)
(* studio7/realtime_module.c: a timer wakes three threads of one core, the *)
(* second at every other shot and the third at every fourth, each of lower *)
(* priority than the one before.  studio13/interfering_module.c is the same*)
(* with one thread, which does not wait for the timer while its parameter  *)
(* period, writable at any time, is zero.                                  *)
(***************************************************************************)
EXTENDS Naturals

VARIABLES
  kind,        \* "realtime", "interfering", or "none" before one is loaded
  loader, at,  \* place in init and exit, thread it is at
  intact,      \* no undefined behaviour has shown; the model ends there
  timer,       \* whether it is armed
  rate,        \* modulo 4, which divides the width of the code's counter
  stop,        \* threads told to stop
  pc,          \* place in thread_fn
  lost         \* history: a thread was told to stop while it made itself
               \* ready to sleep

init == <<loader, at>>
vars == <<kind, init, intact, timer, rate, stop, pc, lost>>

Threads == 1 .. 3
Last    == IF kind = "realtime" THEN 3 ELSE 1

Init ==
  /\ kind = "none" /\ loader = "out" /\ at = 1 /\ intact = TRUE
  /\ timer = FALSE /\ rate = 0
  /\ stop = {} /\ pc = [t \in Threads |-> "none"] /\ lost = FALSE

-----------------------------------------------------------------------------

(* A wake-up is for one who sleeps, or was never woken; it is lost on one  *)
(* who has yet to set itself asleep.                                       *)
Wake(threads) ==
  pc' = [t \in Threads |->
           CASE t \in threads /\ pc[t] = "created" -> "first"
             [] t \in threads /\ pc[t] = "sleep"   -> "work"
             [] OTHER                              -> pc[t]]

(* realtime_module.c creates and wakes one thread after the other and lets *)
(* the timer start when they are.  It binds and schedules a thread before  *)
(* it looks whether there is one; interfering_module.c does not.           *)
Load ==
  /\ loader = "out"
  /\ kind' \in {"realtime", "interfering"}
  /\ \/ loader' = "create"
     \/ kind' = "interfering" /\ loader' = "failed"
  /\ UNCHANGED <<at, intact, timer, rate, stop, pc, lost>>

Create ==
  /\ loader = "create"
  /\ \/ pc' = [pc EXCEPT ![at] = "created"] /\ loader' = "wake" /\ UNCHANGED intact
     \/ /\ loader' = "failed" /\ intact' = (kind = "interfering")
        /\ UNCHANGED pc
  /\ UNCHANGED <<kind, at, timer, rate, stop, lost>>

WakeCreated ==
  /\ loader = "wake" /\ Wake({at})
  /\ IF at < Last THEN at' = at + 1 /\ loader' = "create"
     ELSE at' = 1 /\ loader' = "timer"
  /\ UNCHANGED <<kind, intact, timer, rate, stop, lost>>

StartTimer ==
  /\ loader = "timer" /\ loader' = "in" /\ timer' = TRUE
  /\ UNCHANGED <<kind, at, intact, rate, stop, pc, lost>>

TimerFunction ==
  /\ timer
  /\ IF kind = "interfering" THEN Wake({1}) /\ UNCHANGED rate
     ELSE /\ Wake({t \in Threads : rate % 2^(t - 1) = 0})
          /\ rate' = (rate + 1) % 4
  /\ UNCHANGED <<kind, init, intact, timer, stop, lost>>

-----------------------------------------------------------------------------
(* thread_fn *)

Awake(t) == pc[t] \in {"first", "test", "mark", "work"}
Runs(t)  == Awake(t) /\ \A u \in 1 .. t - 1 : ~Awake(u)

ShouldStop_Not(t) == FALSE
ShouldStop(t)     == t \in stop

Goes(t, from, to) == pc[t] = from /\ pc' = [pc EXCEPT ![t] = to]

FirstRun(t) == Goes(t, "first", IF t \in stop THEN "ended" ELSE "test")

Test(t) ==
  \/ ShouldStop(t) /\ Goes(t, "test", "ended")
  \/ ~ShouldStop(t) /\ Goes(t, "test", "mark")
  \/ kind = "interfering" /\ ~ShouldStop(t) /\ Goes(t, "test", "work")

Mark(t) == Goes(t, "mark", "sleep")
Work(t) == Goes(t, "work", "test")

ThreadStep(t) ==
  /\ intact /\ Runs(t)
  /\ FirstRun(t) \/ Test(t) \/ Mark(t) \/ Work(t)
  /\ UNCHANGED <<kind, init, intact, timer, rate, stop, lost>>

-----------------------------------------------------------------------------
(* exit *)

(* hrtimer_cancel waits for a timer function that runs.                    *)
CancelTimer ==
  /\ loader = "in" /\ loader' = "stop" /\ timer' = FALSE
  /\ UNCHANGED <<kind, at, intact, rate, stop, pc, lost>>

Stop ==
  /\ loader = "stop" /\ at \notin stop
  /\ stop' = stop \cup {at} /\ Wake({at})
  /\ lost' = (lost \/ pc[at] = "mark")
  /\ UNCHANGED <<kind, init, intact, timer, rate>>

Stopped ==
  /\ loader = "stop" /\ at \in stop /\ pc[at] = "ended"
  /\ IF at < Last THEN at' = at + 1 /\ UNCHANGED loader
     ELSE loader' = "gone" /\ UNCHANGED at
  /\ UNCHANGED <<kind, intact, timer, rate, stop, pc, lost>>

Exit == intact /\ (Stop \/ Stopped)

Next ==
  \/ intact /\ (Load \/ Create \/ WakeCreated \/ StartTimer \/ TimerFunction \/ CancelTimer)
  \/ Exit \/ \E t \in Threads : ThreadStep(t)

Fairness == WF_vars(Exit) /\ \A t \in Threads : WF_vars(ThreadStep(t))

Spec     == Init /\ [][Next]_vars
FairSpec == Spec /\ Fairness

-----------------------------------------------------------------------------
(* Properties. *)

PeriodicTypeOK ==
  /\ at \in Threads /\ rate \in 0 .. 3 /\ stop \subseteq Threads
  /\ \A t \in Threads : pc[t] \in {"none", "created", "first", "test", "mark",
                                   "sleep", "work", "ended"}

(* exit cancels the timer, then stops the threads one by one (lines 121 to *)
(* 129 and 126 to 132): it returns, though the threads that are still to be*)
(* stopped have nobody left to wake them and share a core by priority,     *)
(* unless it hit one between its test and its sleep.                       *)
PeriodicUnloads == loader = "stop" ~> (loader = "gone" \/ lost)
=============================================================================
