------------------------------- MODULE Timing -------------------------------
(***************************************************************************)
(* studio8/timing_module.c: a one-second timer wakes a thread, the thread  *)
(* makes a child and a second timer that wakes it again, and time stamps   *)
(* are taken before and after each step.  exit stops both threads and      *)
(* prints differences of the stamps.                                       *)
(***************************************************************************)
EXTENDS Integers

VARIABLES
  loader,          \* place in init and exit
  intact,          \* no undefined behaviour has shown; the model ends there
  thread, child,   \* places in thread_fn and child_thread_fn
  stop,            \* which of the two were told to stop
  armed,           \* which timers are: "ahrtimer", "childtimer"
  ts,              \* the order in which the stamps were taken, 0 for not yet
  clock            \* stamps taken

timers == <<armed, ts, clock>>
vars   == <<loader, intact, thread, child, stop, timers>>

Positions == 0 .. 7

Init ==
  /\ loader = "out" /\ intact = TRUE
  /\ thread = "none" /\ child = "none" /\ stop = {}
  /\ armed = {} /\ ts = [i \in Positions |-> 0] /\ clock = 0

Stamps(i) == ts' = [ts EXCEPT ![i] = clock + 1] /\ clock' = clock + 1

-----------------------------------------------------------------------------
(* init. *)

LoadsTo(from, to) == loader = from /\ loader' = to

Zeroed ==
  /\ LoadsTo("out", "create") /\ Stamps(0)
  /\ UNCHANGED <<intact, thread, child, stop, armed>>

(* The timer is armed whether or not there is a thread for it to wake.     *)
Create ==
  /\ Stamps(1) /\ armed' = {"ahrtimer"}
  /\ \/ LoadsTo("create", "schedule") /\ thread' = "created"
     \/ LoadsTo("create", "failed") /\ UNCHANGED thread
  /\ UNCHANGED <<intact, child, stop>>

SetScheduler ==
  /\ LoadsTo("schedule", "in") /\ Stamps(2)
  /\ UNCHANGED <<intact, thread, child, stop, armed>>

-----------------------------------------------------------------------------
(* The timers.  One that fires when its module is gone has no code. *)

Woken ==
  CASE thread = "created" -> "first"
    [] thread = "sleep1"  -> "stamp5"
    [] thread = "sleep2"  -> "stamp7"
    [] OTHER              -> thread

(* A timer may fire while exit goes on, also when the thread's task is     *)
(* gone.                                                                   *)
Fires(timer, i) ==
  /\ timer \in armed /\ armed' = armed \ {timer}
  /\ Stamps(i)
  /\ intact' = (loader \notin {"failed", "gone"} /\ thread # "ended")
  /\ thread' = Woken
  /\ UNCHANGED <<loader, child, stop>>

TimerFunction == Fires("ahrtimer", 3)

ChildTimerFunction_Copied == Fires("childtimer", 3)
ChildTimerFunction        == Fires("childtimer", 6)

-----------------------------------------------------------------------------
(* The threads. *)

FirstRun ==
  /\ thread = "first"
  /\ IF "thread" \in stop THEN thread' = "ended" /\ UNCHANGED <<ts, clock>>
     ELSE thread' = "mark1" /\ Stamps(4)
  /\ UNCHANGED <<loader, intact, child, stop, armed>>

(* TASK_INTERRUPTIBLE: from here on a wake-up finds it. *)
Mark ==
  /\ \/ thread = "mark1" /\ thread' = "sleep1"
     \/ thread = "mark2" /\ thread' = "sleep2"
  /\ UNCHANGED <<loader, intact, child, stop, timers>>

(* No error of kthread_create is looked at. *)
CreateChild ==
  /\ thread = "stamp5" /\ thread' = "arm" /\ Stamps(5)
  /\ \/ child' = "runs" /\ UNCHANGED intact
     \/ intact' = FALSE /\ UNCHANGED child
  /\ UNCHANGED <<loader, stop, armed>>

StartChildTimer ==
  /\ thread = "arm" /\ thread' = "mark2"
  /\ armed' = armed \cup {"childtimer"}
  /\ UNCHANGED <<loader, intact, child, stop, ts, clock>>

LastStamp ==
  /\ thread = "stamp7" /\ thread' = "ended" /\ Stamps(7)
  /\ UNCHANGED <<loader, intact, child, stop, armed>>

ChildEnds ==
  /\ child = "runs" /\ child' = "ended"
  /\ UNCHANGED <<loader, intact, thread, stop, timers>>

-----------------------------------------------------------------------------
(* exit. *)

Unload ==
  /\ LoadsTo("in", "stop_thread")
  /\ UNCHANGED <<intact, thread, child, stop, timers>>

(* The task of a thread that has ended is gone.                            *)
StopThread ==
  /\ loader = "stop_thread" /\ "thread" \notin stop
  /\ stop' = stop \cup {"thread"} /\ thread' = Woken
  /\ intact' = (thread # "ended")
  /\ UNCHANGED <<loader, child, timers>>

(* Without a child, NULL is stopped.                                       *)
StopChild ==
  /\ loader = "stop_thread" /\ "thread" \in stop /\ thread = "ended"
  /\ loader' = "stop_child" /\ stop' = stop \cup {"child"}
  /\ intact' = (child = "runs")
  /\ UNCHANGED <<thread, child, timers>>

Report ==
  /\ child = "ended" /\ LoadsTo("stop_child", "print")
  /\ UNCHANGED <<intact, thread, child, stop, timers>>

CancelAndFree ==
  /\ LoadsTo("print", "gone") /\ armed' = {}
  /\ UNCHANGED <<intact, thread, child, stop, ts, clock>>

Next ==
  /\ intact
  /\ \/ Zeroed \/ Create \/ SetScheduler \/ TimerFunction \/ ChildTimerFunction
     \/ FirstRun \/ Mark \/ CreateChild \/ StartChildTimer \/ LastStamp \/ ChildEnds
     \/ Unload \/ StopThread \/ StopChild \/ Report \/ CancelAndFree

Spec == Init /\ [][Next]_vars

-----------------------------------------------------------------------------
(* Properties. *)

TimingTypeOK ==
  /\ stop \subseteq {"thread", "child"} /\ armed \subseteq {"ahrtimer", "childtimer"}
  /\ clock \in Nat /\ \A i \in Positions : ts[i] \in 0 .. clock

Differences == {<<1, 0>>, <<2, 1>>, <<4, 0>>, <<5, 3>>, <<7, 6>>}

(* Each difference that exit prints (lines 168 to 172) is between two      *)
(* stamps that were taken, the second of them first, however the removal   *)
(* falls between the timers and the thread.                                *)
DifferencesAreReal ==
  loader = "print" => \A d \in Differences : ts[d[1]] > ts[d[2]] /\ ts[d[2]] > 0
=============================================================================
