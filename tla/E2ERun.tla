------------------------------- MODULE E2ERun -------------------------------
(***************************************************************************)
(* The run mode of lab2/E2E.c: every subtask of every end-to-end task is a *)
(* kernel thread that sleeps until it is released.  The first subtask of a *)
(* task (its head) re-arms its own hrtimer one period ahead; every other   *)
(* subtask is released by its predecessor, either at once or through its   *)
(* own hrtimer when less than a period has gone by since its last release. *)
(*                                                                         *)
(* Threads, timer callbacks and the module's init and exit handlers        *)
(* interleave freely: every placement of the threads on cores and every    *)
(* SCHED_FIFO priority is one of these interleavings, and an execution of  *)
(* subtask_func takes any amount of time.                                  *)
(*                                                                         *)
(* A definition with an underscored suffix is a slip the code could have   *)
(* had in place of the next one; it shows that a property would notice.    *)
(***************************************************************************)
EXTENDS Integers

CONSTANTS
  TaskTot,     \* task_tot
  SubtaskTot,  \* subtask_tot
  tasks,       \* the table of tasks of the generated header
  subtasks,    \* the table of subtasks of the generated header
  UintSize,    \* range of a uint32_t (2^32)
  CalDelay,    \* delay of cal_timer (100 ms in the code)
  BootTime,    \* the clock when the module is loaded
  MaxTime      \* bound on the clock

TaskIdx == 0 .. TaskTot - 1
SubIdx  == 0 .. SubtaskTot - 1
Uint    == 0 .. UintSize - 1

(***************************************************************************)
(* The shape of the two tables, as sched.h, unsched.h and missched.h have  *)
(* it: the subtasks of a task are contiguous and in order.  The clock is   *)
(* never 0, the value last_release_time has before the first release.      *)
(***************************************************************************)
ASSUME TablesAssumption ==
  /\ TaskTot \in Nat
  /\ SubtaskTot \in Nat
  /\ UintSize \in Nat \ {0}
  /\ tasks \in [TaskIdx -> [period : Uint \ {0}, subtask_count : Uint \ {0},
                            subtask_start_idx : SubIdx, exe_time : Uint \ {0}]]
  /\ subtasks \in [SubIdx -> [task_id : TaskIdx, subtask_id : Uint,
                              cumulative_exe_time : Uint]]
  /\ \A s \in SubIdx :
       LET parent == tasks[subtasks[s].task_id] IN
         /\ subtasks[s].subtask_id < parent.subtask_count
         /\ s = parent.subtask_start_idx + subtasks[s].subtask_id
  /\ \A i \in TaskIdx : \A j \in 0 .. tasks[i].subtask_count - 1 :
       LET s == tasks[i].subtask_start_idx + j IN
         s \in SubIdx /\ subtasks[s].task_id = i

ASSUME ClockAssumption ==
  /\ CalDelay \in Nat
  /\ BootTime \in Nat \ {0}
  /\ MaxTime \in Nat

(***************************************************************************)
(* What a thread reads from the tables.                                    *)
(***************************************************************************)
Parent(s)  == tasks[subtasks[s].task_id]
Period(s)  == Parent(s).period
Head(s)    == Parent(s).subtask_start_idx
IsHead(s)  == subtasks[s].subtask_id = 0
HasSucc_CountsToTheEnd(s) == subtasks[s].subtask_id < Parent(s).subtask_count
HasSucc(s) == subtasks[s].subtask_id < Parent(s).subtask_count - 1
Succ(s)    == Head(s) + subtasks[s].subtask_id + 1

\* The product of E2E.c:135, exact and as 32 bits hold it.
Product(s) == Period(s) * subtasks[s].cumulative_exe_time
RelDdl(s)  == (Product(s) % UintSize) \div Parent(s).exe_time

-----------------------------------------------------------------------------
VARIABLES
  now,                \* ktime_get()
  loader,             \* where E2E_init or E2E_exit is, and its loop index
  cal_timer,          \* the timer that starts the system
  pc,                 \* where each subtask's thread is
  woken,              \* threads in schedule() that are runnable again
  stop,               \* KTHREAD_SHOULD_STOP of each thread
  last_release_time,  \* last_release_time of each subtask
  timer,              \* timer of each subtask
  seen,               \* the successor's last_release_time, while a copy is
                      \* held (0 when none is)
  credit,             \* history: completed runs of the predecessor minus
                      \* releases of the subtask
  origin, done        \* history: the head release that the job in progress,
                      \* and the last finished job, belong to

progress == <<pc, woken, last_release_time, seen>>
history  == <<credit, origin, done>>
vars == <<now, loader, cal_timer, progress, stop, timer, history>>

Raw  == -2            \* an hrtimer hrtimer_init() has not seen
Idle == -1            \* an hrtimer that is not queued
Timers == Nat \cup {Raw, Idle}
IsArmed(t) == t >= 0  \* queued, with that expiry

Places == {"none", "new", "test", "mark", "sched", "body",
           "peek", "wake", "arm", "dead"}
HandingOver == {"peek", "wake", "arm"}
Steps  == {"create", "up", "stop", "join", "cancel",
           "gone", "oops", "panic"}

Init ==
  /\ now = BootTime
  /\ loader = [step |-> "create", at |-> 0]
  /\ cal_timer = Raw
  /\ pc = [s \in SubIdx |-> "none"]
  /\ woken = [s \in SubIdx |-> FALSE]
  /\ stop = [s \in SubIdx |-> FALSE]
  /\ last_release_time = [s \in SubIdx |-> 0]
  /\ timer = [s \in SubIdx |-> Raw]
  /\ seen = [s \in SubIdx |-> 0]
  /\ credit = [s \in SubIdx |-> 0]
  /\ origin = [s \in SubIdx |-> 0]
  /\ done = [s \in SubIdx |-> 0]

(***************************************************************************)
(* wake_up_process: makes a sleeping thread runnable and does nothing to   *)
(* one that is running.                                                    *)
(***************************************************************************)
WakeUp(S) ==
  woken' = [s \in SubIdx |-> woken[s] \/ (s \in S /\ pc[s] = "sched")]

Goto(s, place) == pc' = [pc EXCEPT ![s] = place]

HrtimerInit_Forgotten(s) == UNCHANGED timer
HrtimerInit(s) == timer' = [timer EXCEPT ![s] = Idle]

HrtimerCancel_Forgotten(s) == UNCHANGED timer
HrtimerCancel(s) == timer' = [timer EXCEPT ![s] = Idle]

-----------------------------------------------------------------------------
(***************************************************************************)
(* E2E_init, run branch: one thread per subtask, then cal_timer.           *)
(***************************************************************************)
CreateThread ==
  /\ loader.step = "create"
  /\ loader.at < SubtaskTot
  /\ Goto(loader.at, "new")
  /\ last_release_time' = [last_release_time EXCEPT ![loader.at] = 0]
  /\ loader' = [loader EXCEPT !.at = @ + 1]
  /\ UNCHANGED <<now, cal_timer, woken, stop, seen, timer, history>>

StartCal ==
  /\ loader.step = "create"
  /\ loader.at = SubtaskTot
  /\ cal_timer' = now + CalDelay
  /\ loader' = [loader EXCEPT !.step = "up"]
  /\ UNCHANGED <<now, progress, stop, timer, history>>

-----------------------------------------------------------------------------
(***************************************************************************)
(* The thread of subtask s: kthread() in the kernel, then run().           *)
(***************************************************************************)
ThreadEntry(s) ==
  /\ pc[s] = "new"
  /\ IF stop[s]
       THEN Goto(s, "dead") /\ UNCHANGED timer
       ELSE Goto(s, "test") /\ HrtimerInit(s)
  /\ UNCHANGED <<now, loader, cal_timer, woken, last_release_time, seen,
                 stop, history>>

KthreadShouldStop_HeadsOnly(s) == stop[s] /\ IsHead(s)
KthreadShouldStop(s) == stop[s]

TestStop(s) ==
  /\ pc[s] = "test"
  /\ Goto(s, IF KthreadShouldStop(s) THEN "dead" ELSE "mark")
  /\ UNCHANGED <<now, loader, cal_timer, woken, last_release_time, seen,
                 stop, timer, history>>

\* set_current_state(TASK_INTERRUPTIBLE): from here on a wake-up counts.
MarkAsleep(s) ==
  /\ pc[s] = "mark"
  /\ Goto(s, "sched")
  /\ UNCHANGED <<now, loader, cal_timer, woken, last_release_time, seen,
                 stop, timer, history>>

\* schedule() returns and the release time is recorded.
Release(s) ==
  /\ pc[s] = "sched"
  /\ woken[s]
  /\ Goto(s, "body")
  /\ woken' = [woken EXCEPT ![s] = FALSE]
  /\ last_release_time' = [last_release_time EXCEPT ![s] = now]
  /\ IF IsHead(s)
       THEN origin' = [origin EXCEPT ![s] = now] /\ UNCHANGED credit
       ELSE /\ origin' = [origin EXCEPT ![s] = done[s - 1]]
            /\ credit' = [credit EXCEPT ![s] = @ - 1]
  /\ UNCHANGED <<now, loader, cal_timer, seen, stop, timer, done>>

(***************************************************************************)
(* subtask_func has returned: the deadline check (a message and no state), *)
(* and the head arms its own timer one period after its release.           *)
(***************************************************************************)
ReportsMiss_DividesFirst(s) ==
  Period(s) * (subtasks[s].cumulative_exe_time \div Parent(s).exe_time)
    + last_release_time[Head(s)] < now
ReportsMiss(s) == RelDdl(s) + last_release_time[Head(s)] < now

OwnExpiry_Relative(s) == Period(s)
OwnExpiry(s) == last_release_time[s] + Period(s)

Finish(s) ==
  /\ pc[s] = "body"
  /\ Goto(s, IF HasSucc(s) THEN "peek" ELSE "test")
  /\ timer' = IF IsHead(s)
                THEN [timer EXCEPT ![s] = OwnExpiry(s)]
                ELSE timer
  /\ IF HasSucc(s)
       THEN /\ done' = [done EXCEPT ![s] = origin[s]]
            /\ credit' = [credit EXCEPT ![Succ(s)] = @ + 1]
       ELSE UNCHANGED <<done, credit>>
  /\ origin' = [origin EXCEPT ![s] = 0]
  /\ UNCHANGED <<now, loader, cal_timer, woken, last_release_time, seen,
                 stop>>

\* The test that chooses between the two ways to release the successor.
PeriodElapsed(s) ==
  LET last == last_release_time[Succ(s)] IN
    last = 0 \/ now >= Period(s) + last

Peek(s) ==
  /\ pc[s] = "peek"
  /\ IF PeriodElapsed(s)
       THEN Goto(s, "wake") /\ UNCHANGED seen
       ELSE /\ Goto(s, "arm")
            /\ seen' = [seen EXCEPT ![s] = last_release_time[Succ(s)]]
  /\ UNCHANGED <<now, loader, cal_timer, woken, last_release_time, stop,
                 timer, history>>

WakeSuccessor(s) ==
  /\ pc[s] = "wake"
  /\ Goto(s, "test")
  /\ WakeUp({Succ(s)})
  /\ UNCHANGED <<now, loader, cal_timer, last_release_time, seen, stop,
                 timer, history>>

(***************************************************************************)
(* The successor's last_release_time is read without synchronisation, in   *)
(* the test and again here: the build may keep the first value or load it  *)
(* again.                                                                  *)
(***************************************************************************)
ArmSuccessor(s) ==
  /\ pc[s] = "arm"
  /\ Goto(s, "test")
  /\ \E last \in {seen[s], last_release_time[Succ(s)]} :
       timer' = [timer EXCEPT ![Succ(s)] = Period(s) + last]
  /\ seen' = [seen EXCEPT ![s] = 0]
  /\ UNCHANGED <<now, loader, cal_timer, woken, last_release_time, stop,
                 history>>

Thread(s) ==
  /\ loader.step # "panic"
  /\ \/ ThreadEntry(s) \/ TestStop(s) \/ MarkAsleep(s) \/ Release(s)
     \/ Finish(s) \/ Peek(s) \/ WakeSuccessor(s) \/ ArmSuccessor(s)

-----------------------------------------------------------------------------
(***************************************************************************)
(* hrtimer callbacks, in interrupt context.  They wake a thread whatever   *)
(* has become of it.  The task of a thread whose kthread_stop has returned *)
(* is freed: using it may pass unnoticed or bring the kernel down, and     *)
(* then nothing runs any more.                                             *)
(***************************************************************************)
Reaped(s) ==
  \/ loader.step \in {"stop", "join"} /\ s < loader.at
  \/ loader.step \in {"cancel", "oops"} /\ s <= loader.at
  \/ loader.step = "gone"

UseTasks(S) ==
  \/ UNCHANGED loader
  \/ /\ \E s \in S : Reaped(s)
     /\ loader' = [loader EXCEPT !.step = "panic"]

RunTimerFunc(s) ==
  /\ loader.step # "panic"
  /\ IsArmed(timer[s])
  /\ timer[s] <= now
  /\ timer' = [timer EXCEPT ![s] = Idle]
  /\ WakeUp({s})
  /\ UseTasks({s})
  /\ UNCHANGED <<now, cal_timer, pc, last_release_time, seen, stop, history>>

Heads_EverySubtask == SubIdx
Heads == {tasks[i].subtask_start_idx : i \in TaskIdx}

CalTimerFunc ==
  /\ loader.step # "panic"
  /\ IsArmed(cal_timer)
  /\ cal_timer <= now
  /\ cal_timer' = Idle
  /\ WakeUp(Heads)
  /\ UseTasks(Heads)
  /\ UNCHANGED <<now, pc, last_release_time, seen, stop, timer, history>>

-----------------------------------------------------------------------------
(***************************************************************************)
(* E2E_exit, run branch: for each subtask kthread_stop, which sets the     *)
(* flag, wakes the thread and waits for it to end, and then hrtimer_cancel;*)
(* at last cal_timer is cancelled.  hrtimer_cancel on a timer that was     *)
(* never initialised dereferences its null base.                           *)
(***************************************************************************)
BeginExit ==
  /\ loader.step = "up"
  /\ loader' = [step |-> "stop", at |-> 0]
  /\ UNCHANGED <<now, cal_timer, progress, stop, timer, history>>

StopThread ==
  /\ loader.step = "stop"
  /\ loader.at < SubtaskTot
  /\ stop' = [stop EXCEPT ![loader.at] = TRUE]
  /\ WakeUp({loader.at})
  /\ loader' = [loader EXCEPT !.step = "join"]
  /\ UNCHANGED <<now, cal_timer, pc, last_release_time, seen, timer, history>>

JoinThread ==
  /\ loader.step = "join"
  /\ pc[loader.at] = "dead"
  /\ loader' = [loader EXCEPT !.step = "cancel"]
  /\ UNCHANGED <<now, cal_timer, progress, stop, timer, history>>

CancelTimer ==
  /\ loader.step = "cancel"
  /\ timer[loader.at] # Raw
  /\ HrtimerCancel(loader.at)
  /\ loader' = [step |-> "stop", at |-> loader.at + 1]
  /\ UNCHANGED <<now, cal_timer, progress, stop, history>>

CancelRawTimer ==
  /\ loader.step = "cancel"
  /\ timer[loader.at] = Raw
  /\ loader' = [loader EXCEPT !.step = "oops"]
  /\ UNCHANGED <<now, cal_timer, progress, stop, timer, history>>

CancelCal ==
  /\ loader.step = "stop"
  /\ loader.at = SubtaskTot
  /\ cal_timer' = Idle
  /\ loader' = [loader EXCEPT !.step = "gone"]
  /\ UNCHANGED <<now, progress, stop, timer, history>>

Exit == StopThread \/ JoinThread \/ CancelTimer \/ CancelRawTimer \/ CancelCal

-----------------------------------------------------------------------------
(***************************************************************************)
(* The clock.  Past MaxTime it only advances while E2E_exit waits for a    *)
(* thread that a timer yet to expire could wake.                           *)
(***************************************************************************)
RescuePending ==
  /\ loader.step = "join"
  /\ timer[loader.at] > now \/ cal_timer > now

Tick ==
  /\ loader.step # "panic"
  /\ now < MaxTime \/ RescuePending
  /\ now' = now + 1
  /\ UNCHANGED <<loader, cal_timer, progress, stop, timer, history>>

Next ==
  \/ CreateThread \/ StartCal
  \/ \E s \in SubIdx : Thread(s)
  \/ \E s \in SubIdx : RunTimerFunc(s)
  \/ CalTimerFunc
  \/ BeginExit \/ Exit
  \/ Tick

Spec == Init /\ [][Next]_vars

(***************************************************************************)
(* A runnable thread runs, an expired timer fires, time passes, and the    *)
(* init and exit handlers, once begun, keep going.  Nobody has to unload   *)
(* the module.                                                             *)
(***************************************************************************)
Fairness ==
  /\ WF_vars(CreateThread \/ StartCal)
  /\ \A s \in SubIdx : WF_vars(Thread(s)) /\ WF_vars(RunTimerFunc(s))
  /\ WF_vars(CalTimerFunc)
  /\ WF_vars(Exit)
  /\ WF_vars(Tick)

FairSpec == Spec /\ Fairness
-----------------------------------------------------------------------------
(***************************************************************************)
(* Properties.                                                             *)
(***************************************************************************)

\* Every variable keeps to its range: the state of E2E.c's run mode.
TypeOK ==
  /\ now \in Nat
  /\ loader \in [step : Steps, at : 0 .. SubtaskTot]
  /\ loader.step \in {"join", "cancel", "oops"} => loader.at \in SubIdx
  /\ cal_timer \in Timers
  /\ pc \in [SubIdx -> Places]
  /\ \A s \in SubIdx : pc[s] \in HandingOver => HasSucc(s) /\ Succ(s) \in SubIdx
  /\ woken \in [SubIdx -> BOOLEAN]
  /\ stop \in [SubIdx -> BOOLEAN]
  /\ last_release_time \in [SubIdx -> Nat]
  /\ timer \in [SubIdx -> Timers]
  /\ seen \in [SubIdx -> Nat]
  /\ credit \in [SubIdx -> Int]
  /\ origin \in [SubIdx -> Nat]
  /\ done \in [SubIdx -> Nat]

\* The end-to-end order (E2E.c:144-153): a subtask is released at most once
\* for each completed run of its predecessor, through the direct wake-up and
\* the timer together.  kthread_stop (E2E.c:262) adds one release at most.
Precedence ==
  \A s \in SubIdx : credit[s] >= (IF stop[s] THEN -1 ELSE 0)

\* Two releases of a task's first subtask are a period apart (E2E.c:142),
\* however late its thread and its timer run, until the module is unloaded.
HeadSeparation ==
  [][\A s \in SubIdx :
       IsHead(s) /\ ~stop[s] /\ last_release_time[s] # 0
         /\ last_release_time'[s] # last_release_time[s]
       => last_release_time'[s] >= last_release_time[s] + Period(s)]_vars

\* The job that ends is later than its relative deadline, counted from the
\* release of the first subtask of the same end-to-end instance.  This
\* deadline is the one that is meant, computed without wrapping.
Deadline(s) == Product(s) \div Parent(s).exe_time
IsLate(s) == now > origin[s] + Deadline(s)

\* MISSED DDL (E2E.c:134-139) is printed of no job that met its deadline,
\* although the check uses the newest release of the first subtask.  This
\* holds of the subtasks whose product on line 135 fits 32 bits: one that
\* wraps gives an earlier deadline, and jobs in time are reported.
NoFalseAlarm ==
  \A s \in SubIdx :
    Product(s) < UintSize =>
      (pc[s] = "body" /\ ReportsMiss(s) => IsLate(s))

\* A thread only arms a successor's timer (E2E.c:151) that the successor's
\* own thread has initialised (E2E.c:125), and nobody wakes or stops a
\* thread that was not created.
ArmsInitialisedTimer ==
  \A s \in SubIdx :
    /\ pc[s] \in {"wake", "arm"} => pc[Succ(s)] # "none"
    /\ pc[s] = "arm" => timer[Succ(s)] # Raw
    /\ pc[s] = "none" => /\ ~IsArmed(cal_timer)
                         /\ ~stop[s]
                         /\ \A h \in Heads : last_release_time[h] = 0

\* The order of E2E_exit (E2E.c:261-266), or which callbacks can still find
\* their thread ended.  A subtask's own timer can between lines 262 and 263,
\* where it is the next to be cancelled.  cal_timer, cancelled last, can
\* while the loop goes on, but only if unloading began before cal_timer had
\* fired: no first subtask has run that the loop has not stopped.  The
\* module is gone only when no thread and no timer is left.
UnloadOrder ==
  /\ \A s \in SubIdx :
       pc[s] = "dead" /\ IsArmed(timer[s]) /\ loader.step # "panic" =>
         loader.step \in {"join", "cancel"} /\ loader.at = s
  /\ \A h \in Heads :
       pc[h] = "dead" /\ IsArmed(cal_timer) /\ loader.step # "panic" =>
         /\ loader.step \in {"stop", "join", "cancel", "oops"}
         /\ \A g \in Heads : last_release_time[g] # 0 => stop[g]
  /\ loader.step = "gone" =>
       /\ ~IsArmed(cal_timer)
       /\ \A s \in SubIdx : pc[s] = "dead" /\ ~IsArmed(timer[s])

\* A stop request that does not land between the test of E2E.c:127 and the
\* set_current_state of line 128 ends the thread: it leaves schedule(), runs
\* once more at most and sees the flag, unless a callback that used an ended
\* thread brings the kernel down first.
StopTakesEffect ==
  \A s \in SubIdx :
    (stop[s] /\ pc[s] # "mark" /\ (pc[s] = "sched" => woken[s]))
      ~> pc[s] = "dead" \/ loader.step = "panic"

-----------------------------------------------------------------------------
(***************************************************************************)
(* Statements of lab2/readme.txt that the code does not keep.              *)
(***************************************************************************)

\* readme.txt:87: "If the subtask missing its relative deadline, we report
\* this case via printk."
MissesReported ==
  \A s \in SubIdx : pc[s] = "body" /\ IsLate(s) => ReportsMiss(s)

\* readme.txt:87: the successor is woken "if the time right now exceeds the
\* sum of the task period and it's successor's last release time", and
\* otherwise "one task period after its successors' last release time".
SuccessorSeparation ==
  [][\A s \in SubIdx :
       ~IsHead(s) /\ loader.step = "up" /\ last_release_time[s] # 0
         /\ last_release_time'[s] # last_release_time[s]
       => last_release_time'[s] >= last_release_time[s] + Period(s)]_vars

\* readme.txt:89: "When we hope the kernel module exit, we just simply stop
\* all of the subtasks' threads via the kthread_stop() function".
UnloadCompletes ==
  loader.step = "stop" ~> loader.step \in {"gone", "oops", "panic"}
=============================================================================
