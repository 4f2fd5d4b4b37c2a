---------------------------- MODULE E2ERun_proofs ----------------------------
(***************************************************************************)
(* Theorems about E2ERun, for tables of any size and any delays.           *)
(***************************************************************************)
EXTENDS E2ERun, TLAPS

(***************************************************************************)
(* What the threads read from the tables.                                  *)
(***************************************************************************)

\* A quotient of integers is an integer.
LEMMA DivInt == ASSUME NEW a \in Int, NEW b \in Nat \ {0} PROVE a \div b \in Int
OBVIOUS

\* The first subtask of a subtask's task exists, and a successor is the next
\* entry of the table, in the same task and not a head itself.
LEMMA TableFacts ==
  ASSUME NEW s \in SubIdx
  PROVE  /\ Head(s) \in SubIdx
         /\ Period(s) \in Nat \ {0}
         /\ RelDdl(s) \in Int
         /\ Product(s) < UintSize => RelDdl(s) = Deadline(s)
         /\ IsHead(s) <=> Head(s) = s
         /\ HasSucc(s) => /\ Succ(s) \in SubIdx
                          /\ Succ(s) = s + 1
                          /\ ~IsHead(Succ(s))
                          /\ Head(Succ(s)) = Head(s)
         /\ ~IsHead(s) => /\ s - 1 \in SubIdx
                          /\ HasSucc(s - 1)
                          /\ Head(s - 1) = Head(s)
<1> DEFINE p == Parent(s)
           b == p.subtask_start_idx
           k == subtasks[s].subtask_id
<1>0. Uint \subseteq Nat /\ UintSize \in Nat \ {0}
  BY TablesAssumption DEF Uint
<1>1. /\ subtasks[s] \in [task_id : TaskIdx, subtask_id : Uint,
                          cumulative_exe_time : Uint]
      /\ p \in [period : Uint \ {0}, subtask_count : Uint \ {0},
                subtask_start_idx : SubIdx, exe_time : Uint \ {0}]
      /\ k < p.subtask_count
      /\ s = b + k
  BY TablesAssumption DEF Parent, SubIdx
<1>2. /\ k \in Nat
      /\ subtasks[s].cumulative_exe_time \in Nat
      /\ subtasks[s].task_id \in TaskIdx
      /\ p.subtask_count \in Nat \ {0}
      /\ p.exe_time \in Nat \ {0}
      /\ b \in SubIdx
      /\ p.period \in Nat \ {0}
      /\ b \in Int
      /\ s \in Int
  <2>1. /\ k \in Uint
        /\ subtasks[s].cumulative_exe_time \in Uint
        /\ subtasks[s].task_id \in TaskIdx
        /\ p.subtask_count \in Uint \ {0}
        /\ p.exe_time \in Uint \ {0}
        /\ p.period \in Uint \ {0}
        /\ b \in SubIdx
    BY <1>1
  <2>2. \A x \in SubIdx : x \in Int
    BY DEF SubIdx
  <2>3. QED
    BY <1>0, <2>1, <2>2
<1>3. /\ RelDdl(s) \in Int
      /\ Product(s) < UintSize => RelDdl(s) = Deadline(s)
  <2>1. Product(s) \in Nat
    <3>1. \A x, y \in Nat : x * y \in Nat
      OBVIOUS
    <3>2. QED
      BY <1>2, <3>1 DEF Product, Period
  <2>2. /\ Product(s) % UintSize \in Int
        /\ Product(s) < UintSize => Product(s) % UintSize = Product(s)
    <3> HIDE DEF Product
    <3>1. QED
      BY <1>0, <2>1
  <2>3. QED
    BY <1>2, <2>2, DivInt DEF RelDdl, Deadline
<1>4. IsHead(s) <=> Head(s) = s
  <2>1. k = 0 <=> b = b + k
    BY <1>2
  <2>2. QED
    BY <1>1, <2>1 DEF IsHead, Head
<1>5. ASSUME NEW j \in 0 .. p.subtask_count - 1
      PROVE  /\ b + j \in SubIdx
             /\ subtasks[b + j].subtask_id = j
             /\ Parent(b + j) = p
  <2> DEFINE t == b + j
  <2>1. t \in SubIdx /\ subtasks[t].task_id = subtasks[s].task_id
    BY <1>2, TablesAssumption DEF Parent
  <2>2. Parent(t) = p
    BY <2>1 DEF Parent
  <2>3. t = b + subtasks[t].subtask_id /\ subtasks[t].subtask_id \in Nat
    BY <1>0, <2>1, <2>2, TablesAssumption DEF Parent
  <2> DEFINE kt == subtasks[t].subtask_id
  <2>4. \A x, y, z \in Int : z + x = z + y => x = y
    OBVIOUS
  <2>5. kt = j
    BY <1>2, <2>3, <2>4
  <2>6. QED
    BY <2>1, <2>2, <2>5
<1>6. ASSUME HasSucc(s)
      PROVE  /\ Succ(s) \in SubIdx
             /\ Succ(s) = s + 1
             /\ ~IsHead(Succ(s))
             /\ Head(Succ(s)) = Head(s)
  <2>1. k + 1 \in 0 .. p.subtask_count - 1 /\ k + 1 # 0
    BY <1>2, <1>6 DEF HasSucc
  <2>2. Succ(s) = b + (k + 1)
    <3>1. b + k + 1 = b + (k + 1)
      BY <1>2
    <3>2. QED
      BY <3>1 DEF Succ, Head
  <2>3. b + (k + 1) = b + k + 1
    BY <1>2
  <2>4. QED
    BY <1>1, <1>5, <2>1, <2>2, <2>3 DEF IsHead, Head
<1>7. ASSUME ~IsHead(s)
      PROVE  /\ s - 1 \in SubIdx
             /\ HasSucc(s - 1)
             /\ Head(s - 1) = Head(s)
  <2>1. k - 1 \in 0 .. p.subtask_count - 1 /\ k - 1 < p.subtask_count - 1
    BY <1>1, <1>2, <1>7 DEF IsHead
  <2>2. k \in Int
    BY <1>2
  <2>3. s - 1 = b + (k - 1)
    <3>1. \A x, y, z \in Int : x = y + z => x - 1 = y + (z - 1)
      OBVIOUS
    <3>2. QED
      BY <1>1, <1>2, <2>2, <3>1, Zenon
  <2>4. /\ b + (k - 1) \in SubIdx
        /\ subtasks[b + (k - 1)].subtask_id = k - 1
        /\ Parent(b + (k - 1)) = p
    BY <1>5, <2>1
  <2>5. QED
    BY <2>1, <2>3, <2>4 DEF HasSucc, Head
<1>8. QED
  BY <1>2, <1>3, <1>4, <1>6, <1>7 DEF Head, Period

\* Different subtasks have different successors.
LEMMA SuccInjective ==
  ASSUME NEW s \in SubIdx, NEW t \in SubIdx, HasSucc(s), HasSucc(t),
         Succ(s) = Succ(t)
  PROVE  s = t
BY TableFacts DEF SubIdx

\* The heads cal_timer_func wakes are first subtasks.
LEMMA HeadsAreHeads ==
  ASSUME NEW h \in Heads
  PROVE  h \in SubIdx /\ IsHead(h)
<1>1. PICK i \in TaskIdx : h = tasks[i].subtask_start_idx
  BY DEF Heads
<1>2. h \in SubIdx /\ tasks[i].subtask_count \in Nat \ {0}
  BY <1>1, TablesAssumption DEF Uint
<1>3. subtasks[h].task_id = i
  <2>1. 0 \in 0 .. tasks[i].subtask_count - 1
    BY <1>2
  <2>2. subtasks[tasks[i].subtask_start_idx + 0].task_id = i
    BY <2>1, TablesAssumption
  <2>3. QED
    BY <1>1, <1>2, <2>2 DEF SubIdx
<1>4. QED
  BY <1>1, <1>2, <1>3, TableFacts DEF Head, Parent
-----------------------------------------------------------------------------
(***************************************************************************)
(* Type correctness.                                                       *)
(***************************************************************************)

\* The state of E2E.c's run mode keeps to its ranges, whatever the tables.
THEOREM TypeCorrect == Spec => []TypeOK
<1>1. Init => TypeOK
  BY TablesAssumption, ClockAssumption
  DEF Init, TypeOK, Timers, Raw, Idle, Places, Steps, HandingOver
<1>2. TypeOK /\ [Next]_vars => TypeOK'
  <2> SUFFICES ASSUME TypeOK, [Next]_vars PROVE TypeOK'
    OBVIOUS
  <2>0. /\ SubtaskTot \in Nat
        /\ SubIdx \subseteq Nat
        /\ \A at \in 0 .. SubtaskTot :
             at < SubtaskTot => at \in SubIdx /\ at + 1 \in 0 .. SubtaskTot
        /\ \A at \in SubIdx : at + 1 \in 0 .. SubtaskTot
        /\ 0 \in 0 .. SubtaskTot
        /\ CalDelay \in Nat
    BY TablesAssumption, ClockAssumption DEF SubIdx
  <2> USE <2>0 DEF TypeOK, Timers, Places, HandingOver, Steps, progress, history
  <2>1. CASE CreateThread
    BY <2>1 DEF CreateThread, Goto
  <2>2. CASE StartCal
    BY <2>2 DEF StartCal
  <2>3. ASSUME NEW s \in SubIdx, ThreadEntry(s) PROVE TypeOK'
    BY <2>3 DEF ThreadEntry, HrtimerInit, Goto
  <2>4. ASSUME NEW s \in SubIdx, TestStop(s) PROVE TypeOK'
    BY <2>4 DEF TestStop, KthreadShouldStop, Goto
  <2>5. ASSUME NEW s \in SubIdx, MarkAsleep(s) PROVE TypeOK'
    BY <2>5 DEF MarkAsleep, Goto
  <2>6. ASSUME NEW s \in SubIdx, Release(s) PROVE TypeOK'
    BY <2>6, TableFacts DEF Release, Goto
  <2>7. ASSUME NEW s \in SubIdx, Finish(s) PROVE TypeOK'
    BY <2>7, TableFacts DEF Finish, OwnExpiry, Goto
  <2>8. ASSUME NEW s \in SubIdx, Peek(s) PROVE TypeOK'
    BY <2>8, TableFacts DEF Peek, Goto
  <2>9. ASSUME NEW s \in SubIdx, WakeSuccessor(s) PROVE TypeOK'
    BY <2>9 DEF WakeSuccessor, Goto, WakeUp
  <2>10. ASSUME NEW s \in SubIdx, ArmSuccessor(s) PROVE TypeOK'
    BY <2>10, TableFacts DEF ArmSuccessor, Goto
  <2>11. ASSUME NEW s \in SubIdx, RunTimerFunc(s) PROVE TypeOK'
    BY <2>11 DEF RunTimerFunc, WakeUp, UseTasks
  <2>12. CASE CalTimerFunc
    BY <2>12 DEF CalTimerFunc, WakeUp, UseTasks
  <2>13. CASE BeginExit
    BY <2>13 DEF BeginExit
  <2>14. CASE StopThread
    BY <2>14 DEF StopThread, WakeUp
  <2>15. CASE JoinThread
    BY <2>15 DEF JoinThread
  <2>16. CASE CancelTimer
    BY <2>16 DEF CancelTimer, HrtimerCancel
  <2>17. CASE CancelRawTimer
    BY <2>17 DEF CancelRawTimer
  <2>18. CASE CancelCal
    BY <2>18 DEF CancelCal
  <2>19. CASE Tick
    BY <2>19 DEF Tick
  <2>20. CASE UNCHANGED vars
    BY <2>20 DEF vars
  <2>21. QED
    BY <2>1, <2>2, <2>3, <2>4, <2>5, <2>6, <2>7, <2>8,
       <2>9, <2>10, <2>11, <2>12, <2>13, <2>14, <2>15, <2>16,
       <2>17, <2>18, <2>19, <2>20
    DEF Next, Thread, Exit
<1>3. QED
  BY <1>1, <1>2, PTL DEF Spec
-----------------------------------------------------------------------------
(***************************************************************************)
(* The end-to-end order.  A completed run of the predecessor is worth one  *)
(* release of the successor; until it is used it is in one of three places *)
(* at most: the predecessor is about to hand over, the successor's timer   *)
(* is queued, or the successor has been woken.  Only kthread_stop adds a   *)
(* wake-up of its own, once.                                               *)
(***************************************************************************)
Bit(b) == IF b THEN 1 ELSE 0

CreditInv ==
  \A s \in SubIdx :
    IF IsHead(s)
      THEN credit[s] = 0
      ELSE Bit(woken[s]) + Bit(IsArmed(timer[s]))
             + Bit(pc[s - 1] \in HandingOver)
           <= credit[s] + Bit(stop[s])

\* Which threads E2E_exit has stopped, by where it is.
StopInv ==
  loader.step # "panic" => \A s \in SubIdx :
    stop[s] <=> \/ loader.step = "stop" /\ s < loader.at
                \/ loader.step \in {"join", "cancel", "oops"} /\ s <= loader.at
                \/ loader.step = "gone"

\* E2E_exit stops every thread once, in the order of the table.
LEMMA StopOrder == Spec => []StopInv
<1>1. Init => StopInv
  BY DEF Init, StopInv, SubIdx
<1>2. TypeOK /\ StopInv /\ [Next]_vars => StopInv'
  <2> SUFFICES ASSUME TypeOK, StopInv, [Next]_vars PROVE StopInv'
    OBVIOUS
  <2>0. /\ SubtaskTot \in Nat
        /\ SubIdx = 0 .. SubtaskTot - 1
        /\ stop \in [SubIdx -> BOOLEAN]
        /\ loader.at \in 0 .. SubtaskTot
        /\ loader \in [step : Steps, at : 0 .. SubtaskTot]
    BY TablesAssumption DEF SubIdx, TypeOK
  <2> USE DEF StopInv, progress, history
  <2>1. ASSUME UNCHANGED <<loader, stop>> PROVE StopInv'
    BY <2>1
  <2>2. CASE CreateThread \/ StartCal
    BY <2>0, <2>2 DEF CreateThread, StartCal
  <2>3. CASE BeginExit
    BY <2>0, <2>3 DEF BeginExit
  <2>4. CASE StopThread
    BY <2>0, <2>4 DEF StopThread
  <2>5. CASE JoinThread
    BY <2>0, <2>5 DEF JoinThread
  <2>6. CASE CancelTimer
    BY <2>0, <2>6 DEF CancelTimer, HrtimerCancel
  <2>7. CASE CancelRawTimer
    BY <2>0, <2>7 DEF CancelRawTimer
  <2>8. CASE CancelCal
    BY <2>0, <2>8 DEF CancelCal
  <2>9. CASE \E s \in SubIdx : Thread(s)
    BY <2>1, <2>9 DEF Thread, ThreadEntry, TestStop, MarkAsleep, Release,
       Finish, Peek, WakeSuccessor, ArmSuccessor
  <2>10. CASE (\E s \in SubIdx : RunTimerFunc(s)) \/ CalTimerFunc \/ Tick
    <3>1. /\ UNCHANGED stop
          /\ UNCHANGED loader \/ loader'.step = "panic"
      BY <2>0, <2>10 DEF RunTimerFunc, CalTimerFunc, Tick, UseTasks
    <3>2. QED
      BY <2>1, <3>1
  <2>11. CASE UNCHANGED vars
    BY <2>1, <2>11 DEF vars
  <2>12. QED
    BY <2>2, <2>3, <2>4, <2>5, <2>6, <2>7, <2>8, <2>9, <2>10, <2>11
    DEF Next, Exit
<1>3. QED
  BY <1>1, <1>2, TypeCorrect, PTL DEF Spec

\* The invariant behind Precedence: E2E.c never turns one completed run of a
\* subtask into two pending releases of its successor.
LEMMA CreditInvariant == Spec => []CreditInv
<1>1. Init => CreditInv
  BY TableFacts DEF Init, CreditInv, Bit, IsArmed, Raw, HandingOver, SubIdx
<1>2. TypeOK /\ StopInv /\ CreditInv /\ [Next]_vars => CreditInv'
  <2> SUFFICES ASSUME TypeOK, StopInv, CreditInv, [Next]_vars,
                      NEW t \in SubIdx
               PROVE  (IF IsHead(t)
                         THEN credit[t] = 0
                         ELSE Bit(woken[t]) + Bit(IsArmed(timer[t]))
                                + Bit(pc[t - 1] \in HandingOver)
                              <= credit[t] + Bit(stop[t]))'
    BY DEF CreditInv
  <2>0. /\ pc \in [SubIdx -> Places]
        /\ woken \in [SubIdx -> BOOLEAN]
        /\ stop \in [SubIdx -> BOOLEAN]
        /\ credit \in [SubIdx -> Int]
        /\ last_release_time \in [SubIdx -> Nat]
        /\ seen \in [SubIdx -> Nat]
        /\ now \in Nat
        /\ timer \in [SubIdx -> Timers]
        /\ \A s \in SubIdx : pc[s] \in HandingOver => HasSucc(s)
        /\ SubIdx \subseteq Int
        /\ loader.step = "join" => loader.at \in SubIdx
    BY DEF TypeOK, SubIdx
  <2>1. CASE IsHead(t)
    <3>0. credit[t] = 0
      BY <2>1 DEF CreditInv
    <3>1. ASSUME NEW s \in SubIdx, Release(s) PROVE credit'[t] = credit[t]
      BY <2>0, <2>1, <3>1 DEF Release
    <3>2. ASSUME NEW s \in SubIdx, Finish(s) PROVE credit'[t] = credit[t]
      <4>1. HasSucc(s) => Succ(s) # t
        BY <2>1, TableFacts
      <4>2. QED
        BY <2>0, <3>2, <4>1, TableFacts DEF Finish
    <3>3. credit' = credit => credit'[t] = credit[t]
      OBVIOUS
    <3>4. credit'[t] = credit[t]
      BY <3>1, <3>2, <3>3
      DEF Next, vars, Thread, Exit, CreateThread, StartCal, ThreadEntry,
          TestStop, MarkAsleep, Peek, WakeSuccessor, ArmSuccessor,
          RunTimerFunc, CalTimerFunc, BeginExit, StopThread, JoinThread,
          CancelTimer, CancelRawTimer, CancelCal, Tick, history
    <3>5. QED
      BY <2>1, <3>0, <3>4 DEF IsHead
  <2>2. CASE ~IsHead(t)
    <3> DEFINE Balance == Bit(woken[t]) + Bit(IsArmed(timer[t]))
                            + Bit(pc[t - 1] \in HandingOver)
                          <= credit[t] + Bit(stop[t])
    <3> SUFFICES Balance'
      BY <2>2 DEF IsHead
    <3>0. /\ Balance
          /\ t - 1 \in SubIdx
          /\ t # t - 1
          /\ HasSucc(t - 1)
          /\ Succ(t - 1) = t
      BY <2>0, <2>2, TableFacts DEF CreditInv
    <3>1. \A s \in SubIdx : HasSucc(s) /\ Succ(s) = t => s = t - 1
      BY <3>0, SuccInjective
    <3> USE <2>0, <3>0 DEF Bit, HandingOver, progress, history
    <3>2. CASE CreateThread
      BY <3>2 DEF CreateThread, Goto
    <3>3. CASE StartCal
      BY <3>3 DEF StartCal
    <3>4. ASSUME NEW s \in SubIdx, ThreadEntry(s) PROVE Balance'
      BY <3>4 DEF ThreadEntry, HrtimerInit, Goto, IsArmed, Idle
    <3>5. ASSUME NEW s \in SubIdx, TestStop(s) PROVE Balance'
      BY <3>5 DEF TestStop, KthreadShouldStop, Goto
    <3>6. ASSUME NEW s \in SubIdx, MarkAsleep(s) PROVE Balance'
      BY <3>6 DEF MarkAsleep, Goto
    <3>7. ASSUME NEW s \in SubIdx, Release(s) PROVE Balance'
      BY <2>2, <3>7 DEF Release, Goto
    <3>8. ASSUME NEW s \in SubIdx, Finish(s) PROVE Balance'
      <4>1. timer'[t] = timer[t]
        BY <2>2, <3>8 DEF Finish
      <4>2. CASE s = t - 1
        BY <3>8, <4>1, <4>2 DEF Finish, OwnExpiry, Goto
      <4>3. CASE s # t - 1
        <5>1. credit'[t] = credit[t]
          BY <3>1, <3>8, <4>3, TableFacts DEF Finish
        <5>2. QED
          BY <3>8, <4>1, <4>3, <5>1 DEF Finish, OwnExpiry, Goto
      <4>4. QED
        BY <4>2, <4>3
    <3>9. ASSUME NEW s \in SubIdx, Peek(s) PROVE Balance'
      BY <3>9 DEF Peek, Goto
    <3>10. ASSUME NEW s \in SubIdx, WakeSuccessor(s) PROVE Balance'
      <4>1. CASE s = t - 1
        BY <3>10, <4>1 DEF WakeSuccessor, Goto, WakeUp
      <4>2. CASE s # t - 1
        <5>1. woken'[t] = woken[t]
          BY <3>1, <3>10, <4>2 DEF WakeSuccessor, WakeUp
        <5>2. QED
          BY <3>10, <4>2, <5>1 DEF WakeSuccessor, Goto
      <4>3. QED
        BY <4>1, <4>2
    <3>11. ASSUME NEW s \in SubIdx, ArmSuccessor(s) PROVE Balance'
      <4>1. CASE s = t - 1
        BY <3>11, <4>1 DEF ArmSuccessor, Goto
      <4>2. CASE s # t - 1
        <5>1. timer'[t] = timer[t]
          BY <3>1, <3>11, <4>2 DEF ArmSuccessor
        <5>2. QED
          BY <3>11, <4>2, <5>1 DEF ArmSuccessor, Goto
      <4>3. QED
        BY <4>1, <4>2
    <3>12. ASSUME NEW s \in SubIdx, RunTimerFunc(s) PROVE Balance'
      BY <3>12 DEF RunTimerFunc, WakeUp, IsArmed, Idle
    <3>13. CASE CalTimerFunc
      <4>1. t \notin Heads
        BY <2>2, HeadsAreHeads
      <4>2. QED
        BY <3>13, <4>1 DEF CalTimerFunc, WakeUp
    <3>14. CASE BeginExit
      BY <3>14 DEF BeginExit
    <3>15. CASE StopThread
      <4>1. loader.step = "stop" /\ loader.at \in SubIdx
        BY <3>15, TablesAssumption DEF StopThread, TypeOK, SubIdx
      <4>2. ~stop[loader.at]
        <5>1. \A x \in Int : ~(x < x)
          OBVIOUS
        <5>2. QED
          BY <4>1, <5>1 DEF StopInv
      <4>3. QED
        BY <3>15, <4>1, <4>2 DEF StopThread, WakeUp
    <3>16. CASE JoinThread
      BY <3>16 DEF JoinThread
    <3>17. CASE CancelTimer
      BY <3>17 DEF CancelTimer, HrtimerCancel, IsArmed, Idle
    <3>18. CASE CancelRawTimer
      BY <3>18 DEF CancelRawTimer
    <3>19. CASE CancelCal
      BY <3>19 DEF CancelCal
    <3>20. CASE Tick
      BY <3>20 DEF Tick
    <3>21. CASE UNCHANGED vars
      BY <3>21 DEF vars
    <3>22. QED
      BY <3>2, <3>3, <3>4, <3>5, <3>6, <3>7, <3>8, <3>9, <3>10, <3>11,
         <3>12, <3>13, <3>14, <3>15, <3>16, <3>17, <3>18, <3>19, <3>20, <3>21
      DEF Next, Thread, Exit
  <2>3. QED
    BY <2>1, <2>2
<1>3. QED
  BY <1>1, <1>2, TypeCorrect, StopOrder, PTL DEF Spec

\* A subtask is released at most once for each completed run of its
\* predecessor, and kthread_stop adds one release at most.
THEOREM PrecedenceHolds == Spec => []Precedence
<1>1. TypeOK /\ CreditInv => Precedence
  BY DEF TypeOK, CreditInv, Precedence, Bit
<1>2. QED
  BY <1>1, TypeCorrect, CreditInvariant, PTL

-----------------------------------------------------------------------------
(***************************************************************************)
(* E2E_init: until cal_timer is started nothing can be released, and a     *)
(* thread that does not exist yet is one the loop has not reached.         *)
(***************************************************************************)
QuietInv ==
  /\ loader.step = "create" =>
       /\ cal_timer = Raw
       /\ \A s \in SubIdx :
            /\ last_release_time[s] = 0
            /\ ~woken[s]
            /\ ~IsArmed(timer[s])
            /\ pc[s] \in {"none", "new", "test", "mark", "sched"}
            /\ ~stop[s]
            /\ s < loader.at => pc[s] # "none"
  /\ loader.step # "create" => \A s \in SubIdx : pc[s] # "none"

\* Nothing is released before E2E_init has created every thread.
LEMMA QuietInit == Spec => []QuietInv
<1>1. Init => QuietInv
  BY DEF Init, QuietInv, Raw, IsArmed, SubIdx
<1>2. TypeOK /\ QuietInv /\ [Next]_vars => QuietInv'
  <2> SUFFICES ASSUME TypeOK, QuietInv, [Next]_vars PROVE QuietInv'
    OBVIOUS
  <2>0. /\ pc \in [SubIdx -> Places]
        /\ woken \in [SubIdx -> BOOLEAN]
        /\ stop \in [SubIdx -> BOOLEAN]
        /\ last_release_time \in [SubIdx -> Nat]
        /\ timer \in [SubIdx -> Timers]
        /\ SubtaskTot \in Nat
        /\ SubIdx = 0 .. SubtaskTot - 1
        /\ loader \in [step : Steps, at : 0 .. SubtaskTot]
    BY TablesAssumption DEF TypeOK, SubIdx
  <2> USE <2>0 DEF QuietInv, progress, history, Raw, Idle, IsArmed
    <2>1. CASE CreateThread
      BY <2>1 DEF CreateThread, Goto
    <2>2. CASE StartCal
      BY <2>2 DEF StartCal
    <2>3. ASSUME NEW s \in SubIdx, ThreadEntry(s) PROVE QuietInv'
      BY <2>3 DEF ThreadEntry, HrtimerInit, Goto
    <2>4. ASSUME NEW s \in SubIdx, TestStop(s) PROVE QuietInv'
      BY <2>4 DEF TestStop, KthreadShouldStop, Goto
    <2>5. ASSUME NEW s \in SubIdx, MarkAsleep(s) PROVE QuietInv'
      BY <2>5 DEF MarkAsleep, Goto
    <2>6. ASSUME NEW s \in SubIdx, Release(s) PROVE QuietInv'
      BY <2>6 DEF Release, Goto
    <2>7. ASSUME NEW s \in SubIdx, Finish(s) PROVE QuietInv'
      BY <2>7 DEF Finish, OwnExpiry, Goto
    <2>8. ASSUME NEW s \in SubIdx, Peek(s) PROVE QuietInv'
      BY <2>8 DEF Peek, Goto
    <2>9. ASSUME NEW s \in SubIdx, WakeSuccessor(s) PROVE QuietInv'
      BY <2>9 DEF WakeSuccessor, Goto, WakeUp
    <2>10. ASSUME NEW s \in SubIdx, ArmSuccessor(s) PROVE QuietInv'
      BY <2>10 DEF ArmSuccessor, Goto
    <2>11. ASSUME NEW s \in SubIdx, RunTimerFunc(s) PROVE QuietInv'
      BY <2>11 DEF RunTimerFunc, WakeUp, UseTasks
    <2>12. CASE CalTimerFunc
      BY <2>12 DEF CalTimerFunc, WakeUp, UseTasks
    <2>13. CASE BeginExit
      BY <2>13 DEF BeginExit
    <2>14. CASE StopThread
      BY <2>14 DEF StopThread, WakeUp
    <2>15. CASE JoinThread
      BY <2>15 DEF JoinThread
    <2>16. CASE CancelTimer
      BY <2>16 DEF CancelTimer, HrtimerCancel
    <2>17. CASE CancelRawTimer
      BY <2>17 DEF CancelRawTimer
    <2>18. CASE CancelCal
      BY <2>18 DEF CancelCal
    <2>19. CASE Tick
      BY <2>19 DEF Tick
    <2>20. CASE UNCHANGED vars
      BY <2>20 DEF vars
    <2>21. QED
      BY <2>1, <2>2, <2>3, <2>4, <2>5, <2>6, <2>7, <2>8, <2>9,
         <2>10, <2>11, <2>12, <2>13, <2>14, <2>15, <2>16, <2>17, <2>18,
         <2>19, <2>20
      DEF Next, Thread, Exit
<1>3. QED
  BY <1>1, <1>2, TypeCorrect, PTL DEF Spec

-----------------------------------------------------------------------------
(***************************************************************************)
(* The period of a task.  Of a first subtask that is not being stopped:    *)
(* cal_timer finds it asleep and never released, its own timer is queued   *)
(* for one period after its last release and only while it sleeps, and it  *)
(* is only awake in schedule() when that period is over.                   *)
(***************************************************************************)
HeadOK(h) ==
  /\ IsArmed(cal_timer) =>
       /\ last_release_time[h] = 0
       /\ ~woken[h]
       /\ ~IsArmed(timer[h])
       /\ pc[h] # "body"
  /\ IsArmed(timer[h]) =>
       /\ timer[h] = last_release_time[h] + Period(h)
       /\ ~woken[h]
       /\ pc[h] # "body"
  /\ woken[h] => /\ pc[h] = "sched"
                 /\ \/ last_release_time[h] = 0
                    \/ now >= last_release_time[h] + Period(h)

HeadInv == \A h \in SubIdx : IsHead(h) /\ ~stop[h] => HeadOK(h)

\* The invariant behind HeadSeparation.
LEMMA HeadInvariant == Spec => []HeadInv
<1>1. Init => HeadInv
  BY DEF Init, HeadInv, HeadOK, IsArmed, Raw, SubIdx
<1>2. TypeOK /\ QuietInv /\ HeadInv /\ [Next]_vars => HeadInv'
  <2> SUFFICES ASSUME TypeOK, QuietInv, HeadInv, [Next]_vars,
                      NEW h \in SubIdx, IsHead(h), ~stop'[h]
               PROVE  HeadOK(h)'
    BY DEF HeadInv, IsHead
  <2>0. /\ pc \in [SubIdx -> Places]
        /\ woken \in [SubIdx -> BOOLEAN]
        /\ stop \in [SubIdx -> BOOLEAN]
        /\ last_release_time \in [SubIdx -> Nat]
        /\ timer \in [SubIdx -> Timers]
        /\ cal_timer \in Timers
        /\ now \in Nat
        /\ loader \in [step : Steps, at : 0 .. SubtaskTot]
        /\ loader.step \in {"join", "cancel", "oops"} => loader.at \in SubIdx
        /\ Period(h) \in Nat \ {0}
        /\ \A s \in SubIdx : pc[s] \in HandingOver => Succ(s) # h
    BY TableFacts DEF TypeOK
  <2>a. ~stop[h] => HeadOK(h)
    BY DEF HeadInv
  <2> USE <2>0, <2>a DEF HeadOK, progress, history, Raw, Idle, IsArmed, Timers,
          HandingOver
  <2> HIDE DEF Period
    <2>1. CASE CreateThread
      BY <2>1, ClockAssumption DEF CreateThread, Goto, QuietInv
    <2>2. CASE StartCal
      BY <2>2, ClockAssumption DEF StartCal, QuietInv
    <2>3. ASSUME NEW s \in SubIdx, ThreadEntry(s) PROVE HeadOK(h)'
      BY <2>3 DEF ThreadEntry, HrtimerInit, Goto
    <2>4. ASSUME NEW s \in SubIdx, TestStop(s) PROVE HeadOK(h)'
      BY <2>4 DEF TestStop, KthreadShouldStop, Goto
    <2>5. ASSUME NEW s \in SubIdx, MarkAsleep(s) PROVE HeadOK(h)'
      BY <2>5 DEF MarkAsleep, Goto
    <2>6. ASSUME NEW s \in SubIdx, Release(s) PROVE HeadOK(h)'
      BY <2>6 DEF Release, Goto
    <2>7. ASSUME NEW s \in SubIdx, Finish(s) PROVE HeadOK(h)'
      <3>1. CASE s = h
        BY <2>7, <3>1 DEF Finish, OwnExpiry, Goto
      <3>2. CASE s # h
        <4>1. timer'[h] = timer[h] /\ pc'[h] = pc[h]
          BY <2>7, <3>2 DEF Finish, OwnExpiry, Goto
        <4>2. QED
          BY <2>7, <4>1 DEF Finish
      <3>3. QED
        BY <3>1, <3>2
    <2>8. ASSUME NEW s \in SubIdx, Peek(s) PROVE HeadOK(h)'
      BY <2>8 DEF Peek, Goto
    <2>9. ASSUME NEW s \in SubIdx, WakeSuccessor(s) PROVE HeadOK(h)'
      BY <2>9 DEF WakeSuccessor, Goto, WakeUp
    <2>10. ASSUME NEW s \in SubIdx, ArmSuccessor(s) PROVE HeadOK(h)'
      BY <2>10 DEF ArmSuccessor, Goto
    <2>11. ASSUME NEW s \in SubIdx, RunTimerFunc(s) PROVE HeadOK(h)'
      BY <2>11 DEF RunTimerFunc, WakeUp, UseTasks
    <2>12. CASE CalTimerFunc
      BY <2>12 DEF CalTimerFunc, WakeUp, UseTasks
    <2>13. CASE BeginExit
      BY <2>13 DEF BeginExit
    <2>14. CASE StopThread
    <3>1. stop[h] => stop'[h]
      BY <2>14, TablesAssumption DEF StopThread, SubIdx
    <3>2. h # loader.at
      BY <2>14 DEF StopThread
    <3>3. QED
      BY <2>14, <3>1, <3>2 DEF StopThread, WakeUp
    <2>15. CASE JoinThread
      BY <2>15 DEF JoinThread
    <2>16. CASE CancelTimer
      BY <2>16 DEF CancelTimer, HrtimerCancel
    <2>17. CASE CancelRawTimer
      BY <2>17 DEF CancelRawTimer
    <2>18. CASE CancelCal
      BY <2>18 DEF CancelCal
    <2>19. CASE Tick
      BY <2>19 DEF Tick
    <2>20. CASE UNCHANGED vars
      BY <2>20 DEF vars
    <2>21. QED
      BY <2>1, <2>2, <2>3, <2>4, <2>5, <2>6, <2>7, <2>8, <2>9,
         <2>10, <2>11, <2>12, <2>13, <2>14, <2>15, <2>16, <2>17, <2>18,
         <2>19, <2>20
      DEF Next, Thread, Exit
<1>3. QED
  BY <1>1, <1>2, TypeCorrect, QuietInit, PTL DEF Spec

\* Two releases of a task's first subtask are a period apart.
THEOREM HeadSeparationHolds == Spec => HeadSeparation
<1>1. TypeOK /\ QuietInv /\ HeadInv /\ [Next]_vars
        => [\A s \in SubIdx :
              IsHead(s) /\ ~stop[s] /\ last_release_time[s] # 0
                /\ last_release_time'[s] # last_release_time[s]
              => last_release_time'[s] >= last_release_time[s] + Period(s)]_vars
  <2> SUFFICES ASSUME TypeOK, QuietInv, HeadInv, Next,
                      NEW h \in SubIdx, IsHead(h), ~stop[h],
                      last_release_time[h] # 0,
                      last_release_time'[h] # last_release_time[h]
               PROVE  last_release_time'[h] >= last_release_time[h] + Period(h)
    OBVIOUS
  <2>1. last_release_time \in [SubIdx -> Nat]
    BY DEF TypeOK
  <2>2. ~CreateThread
    <3>1. loader.step = "create" => last_release_time[h] = 0
      BY DEF QuietInv
    <3>2. QED
      BY <3>1 DEF CreateThread
  <2>3. PICK s \in SubIdx : Release(s)
    BY <2>2 DEF Next, vars, Thread, Exit, StartCal, ThreadEntry, TestStop,
       MarkAsleep, Finish, Peek, WakeSuccessor, ArmSuccessor, RunTimerFunc,
       CalTimerFunc, BeginExit, StopThread, JoinThread, CancelTimer,
       CancelRawTimer, CancelCal, Tick, progress
  <2>4. s = h
    BY <2>1, <2>3 DEF Release
  <2>5. woken[h] /\ last_release_time'[h] = now
    BY <2>1, <2>3, <2>4 DEF Release
  <2>6. QED
    BY <2>5 DEF HeadInv, HeadOK
<1>2. QED
  BY <1>1, TypeCorrect, QuietInit, HeadInvariant, PTL DEF Spec, HeadSeparation

-----------------------------------------------------------------------------
(***************************************************************************)
(* The deadline check.  It adds the relative deadline to the newest        *)
(* release of the task's first subtask, which is never older than the      *)
(* release the finishing job belongs to.                                   *)
(***************************************************************************)
OriginInv ==
  \A s \in SubIdx :
    /\ last_release_time[s] <= now
    /\ origin[s] <= last_release_time[Head(s)]
    /\ done[s] <= last_release_time[Head(s)]

\* A job never starts from an instance newer than the last head release.
LEMMA OriginInvariant == Spec => []OriginInv
<1>1. Init => OriginInv
  BY TableFacts, ClockAssumption DEF Init, OriginInv, SubIdx
<1>2. TypeOK /\ QuietInv /\ OriginInv /\ [Next]_vars => OriginInv'
  <2> SUFFICES ASSUME TypeOK, QuietInv, OriginInv, [Next]_vars,
                      NEW t \in SubIdx
               PROVE  /\ last_release_time'[t] <= now'
                      /\ origin'[t] <= last_release_time'[Head(t)]
                      /\ done'[t] <= last_release_time'[Head(t)]
    BY DEF OriginInv, Head, Parent
  <2>0. /\ last_release_time \in [SubIdx -> Nat]
        /\ origin \in [SubIdx -> Nat]
        /\ done \in [SubIdx -> Nat]
        /\ now \in Nat
        /\ Head(t) \in SubIdx
        /\ IsHead(t) => Head(t) = t
        /\ ~IsHead(t) => t - 1 \in SubIdx /\ Head(t - 1) = Head(t)
    BY TableFacts DEF TypeOK
  <2>1. /\ last_release_time[t] <= now
        /\ last_release_time[Head(t)] <= now
        /\ origin[t] <= last_release_time[Head(t)]
        /\ done[t] <= last_release_time[Head(t)]
        /\ ~IsHead(t) => done[t - 1] <= last_release_time[Head(t)]
    BY <2>0 DEF OriginInv
  <2> USE <2>0, <2>1 DEF history
  <2>2. CASE CreateThread
    <3>1. last_release_time' = last_release_time
      BY <2>2 DEF CreateThread, QuietInv
    <3>2. QED
      BY <2>2, <3>1 DEF CreateThread
  <2>3. ASSUME NEW s \in SubIdx, Release(s)
        PROVE  /\ last_release_time'[t] <= now'
               /\ origin'[t] <= last_release_time'[Head(t)]
               /\ done'[t] <= last_release_time'[Head(t)]
    <3>1. /\ now' = now /\ done' = done
          /\ last_release_time'[t] \in {now, last_release_time[t]}
          /\ last_release_time'[Head(t)] \in {now, last_release_time[Head(t)]}
          /\ s = t => last_release_time'[t] = now
      BY <2>3 DEF Release
    <3>2. origin'[t] = IF s # t THEN origin[t]
                       ELSE IF IsHead(t) THEN now ELSE done[t - 1]
      BY <2>3 DEF Release
    <3>3. QED
      BY <3>1, <3>2
  <2>4. ASSUME NEW s \in SubIdx, Finish(s)
        PROVE  /\ last_release_time'[t] <= now'
               /\ origin'[t] <= last_release_time'[Head(t)]
               /\ done'[t] <= last_release_time'[Head(t)]
    <3>1. /\ origin'[t] \in {0, origin[t]}
          /\ done'[t] \in {done[t], origin[t]}
          /\ UNCHANGED <<last_release_time, now>>
      BY <2>4 DEF Finish
    <3>2. QED
      BY <3>1
  <2>5. CASE Tick
    BY <2>5 DEF Tick, progress
  <2>6. ASSUME UNCHANGED <<now, last_release_time, origin, done>>
        PROVE  /\ last_release_time'[t] <= now'
               /\ origin'[t] <= last_release_time'[Head(t)]
               /\ done'[t] <= last_release_time'[Head(t)]
    BY <2>6
  <2>7. QED
    BY <2>2, <2>3, <2>4, <2>5, <2>6
    DEF Next, vars, Thread, Exit, StartCal, ThreadEntry, TestStop,
        MarkAsleep, Peek, WakeSuccessor, ArmSuccessor, RunTimerFunc,
        CalTimerFunc, BeginExit, StopThread, JoinThread, CancelTimer,
        CancelRawTimer, CancelCal, progress
<1>3. QED
  BY <1>1, <1>2, TypeCorrect, QuietInit, PTL DEF Spec

\* MISSED DDL is never printed of a job that met its deadline, where the
\* product of line 135 fits 32 bits.
THEOREM NoFalseAlarmHolds == Spec => []NoFalseAlarm
<1>1. TypeOK /\ OriginInv => NoFalseAlarm
  <2> SUFFICES ASSUME TypeOK, OriginInv, NEW s \in SubIdx,
                      Product(s) < UintSize, ReportsMiss(s)
               PROVE  IsLate(s)
    BY DEF NoFalseAlarm
  <2>1. /\ last_release_time[Head(s)] \in Int
        /\ origin[s] \in Int
        /\ now \in Int
        /\ RelDdl(s) \in Int
        /\ RelDdl(s) = Deadline(s)
        /\ origin[s] <= last_release_time[Head(s)]
    BY TableFacts DEF TypeOK, OriginInv
  <2> HIDE DEF RelDdl, Deadline
  <2>2. QED
    BY <2>1 DEF ReportsMiss, IsLate
<1>2. QED
  BY <1>1, TypeCorrect, OriginInvariant, PTL

-----------------------------------------------------------------------------
(***************************************************************************)
(* hrtimer_init comes first: a thread that has passed its entry has        *)
(* initialised its timer, and so has a subtask that was ever released.     *)
(***************************************************************************)
TimerOK(s) ==
  /\ pc[s] \in {"none", "new"} => last_release_time[s] = 0
  /\ timer[s] = Raw => pc[s] \in {"none", "new", "dead"}
  /\ pc[s] = "dead" /\ timer[s] = Raw => last_release_time[s] = 0
  /\ pc[s] = "arm" => last_release_time[Succ(s)] # 0

TimerInv == now > 0 /\ \A s \in SubIdx : TimerOK(s)

\* A subtask with a release time has an initialised timer.
LEMMA TimerInvariant == Spec => []TimerInv
<1>1. Init => TimerInv
  BY ClockAssumption DEF Init, TimerInv, TimerOK
<1>2. TypeOK /\ TimerInv /\ [Next]_vars => now' > 0
  <2> SUFFICES ASSUME now \in Nat, now > 0, [Next]_vars PROVE now' > 0
    BY DEF TypeOK, TimerInv
  <2>1. CASE Tick
    BY <2>1 DEF Tick
  <2>2. ASSUME now' = now PROVE now' > 0
    BY <2>2
  <2>3. QED
    BY <2>1, <2>2
    DEF Next, vars, Thread, Exit, CreateThread, StartCal, ThreadEntry,
        TestStop, MarkAsleep, Release, Finish, Peek, WakeSuccessor,
        ArmSuccessor, RunTimerFunc, CalTimerFunc, BeginExit, StopThread,
        JoinThread, CancelTimer, CancelRawTimer, CancelCal
<1>3. TypeOK /\ QuietInv /\ TimerInv /\ [Next]_vars => TimerInv'
  <2> SUFFICES ASSUME TypeOK, QuietInv, TimerInv, [Next]_vars,
                      NEW t \in SubIdx
               PROVE  TimerOK(t)'
    BY <1>2 DEF TimerInv
  <2>0. /\ pc \in [SubIdx -> Places]
        /\ last_release_time \in [SubIdx -> Nat]
        /\ seen \in [SubIdx -> Nat]
        /\ timer \in [SubIdx -> Timers]
        /\ now \in Nat
        /\ now > 0
        /\ TimerOK(t)
        /\ \A s \in SubIdx : Period(s) \in Nat \ {0}
        /\ \A s \in SubIdx : HasSucc(s) => Succ(s) \in SubIdx
        /\ \A s \in SubIdx : pc[s] \in HandingOver => HasSucc(s)
    BY TableFacts DEF TypeOK, TimerInv
  <2> USE <2>0 DEF TimerOK, progress, history, Raw, Idle, Timers, IsArmed, HandingOver
  <2> HIDE DEF Period, HasSucc, Succ
    <2>1. CASE CreateThread
      BY <2>1 DEF CreateThread, Goto, QuietInv
    <2>2. CASE StartCal
      BY <2>2 DEF StartCal
    <2>3. ASSUME NEW s \in SubIdx, ThreadEntry(s) PROVE TimerOK(t)'
      BY <2>3 DEF ThreadEntry, HrtimerInit, Goto
    <2>4. ASSUME NEW s \in SubIdx, TestStop(s) PROVE TimerOK(t)'
      BY <2>4 DEF TestStop, KthreadShouldStop, Goto
    <2>5. ASSUME NEW s \in SubIdx, MarkAsleep(s) PROVE TimerOK(t)'
      BY <2>5 DEF MarkAsleep, Goto
    <2>6. ASSUME NEW s \in SubIdx, Release(s) PROVE TimerOK(t)'
      BY <2>6 DEF Release, Goto
    <2>7. ASSUME NEW s \in SubIdx, Finish(s) PROVE TimerOK(t)'
      BY <2>7 DEF Finish, OwnExpiry, Goto
    <2>8. ASSUME NEW s \in SubIdx, Peek(s) PROVE TimerOK(t)'
      BY <2>8 DEF Peek, Goto, PeriodElapsed
    <2>9. ASSUME NEW s \in SubIdx, WakeSuccessor(s) PROVE TimerOK(t)'
      BY <2>9 DEF WakeSuccessor, Goto, WakeUp
    <2>10. ASSUME NEW s \in SubIdx, ArmSuccessor(s) PROVE TimerOK(t)'
      BY <2>10 DEF ArmSuccessor, Goto
    <2>11. ASSUME NEW s \in SubIdx, RunTimerFunc(s) PROVE TimerOK(t)'
      BY <2>11 DEF RunTimerFunc, WakeUp, UseTasks
    <2>12. CASE CalTimerFunc
      BY <2>12 DEF CalTimerFunc, WakeUp, UseTasks
    <2>13. CASE BeginExit
      BY <2>13 DEF BeginExit
    <2>14. CASE StopThread
      BY <2>14 DEF StopThread, WakeUp
    <2>15. CASE JoinThread
      BY <2>15 DEF JoinThread
    <2>16. CASE CancelTimer
      BY <2>16 DEF CancelTimer, HrtimerCancel
    <2>17. CASE CancelRawTimer
      BY <2>17 DEF CancelRawTimer
    <2>18. CASE CancelCal
      BY <2>18 DEF CancelCal
    <2>19. CASE Tick
      BY <2>19 DEF Tick
    <2>20. CASE UNCHANGED vars
      BY <2>20 DEF vars
    <2>21. QED
      BY <2>1, <2>2, <2>3, <2>4, <2>5, <2>6, <2>7, <2>8, <2>9,
         <2>10, <2>11, <2>12, <2>13, <2>14, <2>15, <2>16, <2>17, <2>18,
         <2>19, <2>20
      DEF Next, Thread, Exit
<1>4. QED
  BY <1>1, <1>3, TypeCorrect, QuietInit, PTL DEF Spec

\* A thread only arms a timer that was initialised, and only threads that
\* were created are woken or stopped.
THEOREM ArmsInitialisedTimerHolds == Spec => []ArmsInitialisedTimer
<1>1. TypeOK /\ QuietInv /\ TimerInv => ArmsInitialisedTimer
  <2> SUFFICES ASSUME TypeOK, QuietInv, TimerInv, NEW s \in SubIdx
               PROVE  /\ pc[s] \in {"wake", "arm"} => pc[Succ(s)] # "none"
                      /\ pc[s] = "arm" => timer[Succ(s)] # Raw
                      /\ pc[s] = "none" =>
                           /\ ~IsArmed(cal_timer)
                           /\ ~stop[s]
                           /\ \A h \in Heads : last_release_time[h] = 0
    BY DEF ArmsInitialisedTimer
  <2>1. pc[s] \in HandingOver => Succ(s) \in SubIdx
    BY TableFacts DEF TypeOK
  <2>2. loader.step = "create" => pc[s] \notin HandingOver
    BY DEF QuietInv, HandingOver
  <2>3. pc[s] \in {"wake", "arm"} => pc[Succ(s)] # "none"
    BY <2>1, <2>2 DEF QuietInv, HandingOver
  <2>4. pc[s] = "arm" => timer[Succ(s)] # Raw
    BY <2>1 DEF TimerInv, TimerOK, HandingOver
  <2>5. pc[s] = "none" => /\ ~IsArmed(cal_timer)
                          /\ ~stop[s]
                          /\ \A h \in Heads : last_release_time[h] = 0
    BY HeadsAreHeads DEF QuietInv, IsArmed, Raw
  <2>6. QED
    BY <2>3, <2>4, <2>5
<1>2. QED
  BY <1>1, TypeCorrect, QuietInit, TimerInvariant, PTL

-----------------------------------------------------------------------------
(***************************************************************************)
(* E2E_exit.  A subtask the loop is done with has no thread and no timer,  *)
(* and stays so because its predecessor, the only other one to queue its   *)
(* timer, comes earlier in the table.                                      *)
(***************************************************************************)
Settled(s) == \/ loader.step \in {"stop", "join", "cancel"} /\ s < loader.at
              \/ loader.step = "oops" /\ s <= loader.at
              \/ loader.step = "gone"

ExitOK(s) ==
  /\ Settled(s) => pc[s] = "dead" /\ ~IsArmed(timer[s])
  /\ loader.step = "cancel" /\ s = loader.at => pc[s] = "dead"
  /\ pc[s] = "dead" => stop[s]

ExitInv ==
  /\ loader.step = "gone" => ~IsArmed(cal_timer)
  /\ \A s \in SubIdx : ExitOK(s)

\* E2E_exit leaves nothing behind of the subtasks it has passed.
LEMMA ExitInvariant == Spec => []ExitInv
<1>1. Init => ExitInv
  BY DEF Init, ExitInv, ExitOK, Settled, IsArmed, Raw
<1>2. TypeOK /\ QuietInv /\ ExitInv /\ [Next]_vars => ExitInv'
  <2> SUFFICES ASSUME TypeOK, QuietInv, ExitInv, [Next]_vars
               PROVE  ExitInv'
    OBVIOUS
  <2>0. /\ cal_timer \in Timers
        /\ loader \in [step : Steps, at : 0 .. SubtaskTot]
    BY DEF TypeOK
  <2>1. (loader.step = "gone" => ~IsArmed(cal_timer))'
    <3> USE <2>0 DEF ExitInv, IsArmed, Idle, progress
    <3>1. CASE CancelCal \/ CalTimerFunc \/ StartCal
      BY <3>1 DEF CancelCal, CalTimerFunc, StartCal
    <3>2. CASE CreateThread \/ BeginExit \/ StopThread
      BY <3>2 DEF CreateThread, BeginExit, StopThread
    <3>3. CASE JoinThread \/ CancelTimer \/ CancelRawTimer
      BY <3>3 DEF JoinThread, CancelTimer, CancelRawTimer
    <3>6. ASSUME NEW s \in SubIdx, RunTimerFunc(s)
          PROVE  (loader.step = "gone" => ~IsArmed(cal_timer))'
      BY <3>6 DEF RunTimerFunc, UseTasks
    <3>4. CASE UNCHANGED <<loader, cal_timer>>
      BY <3>4
    <3>5. QED
      BY <3>1, <3>2, <3>3, <3>4, <3>6
      DEF Next, vars, Thread, Exit, ThreadEntry, TestStop, MarkAsleep,
          Release, Finish, Peek, WakeSuccessor, ArmSuccessor, Tick
  <2>2. ASSUME NEW t \in SubIdx PROVE ExitOK(t)'
    <3>0. /\ pc \in [SubIdx -> Places]
          /\ woken \in [SubIdx -> BOOLEAN]
          /\ stop \in [SubIdx -> BOOLEAN]
          /\ timer \in [SubIdx -> Timers]
          /\ SubtaskTot \in Nat
          /\ SubIdx = 0 .. SubtaskTot - 1
          /\ loader \in [step : Steps, at : 0 .. SubtaskTot]
          /\ loader.step \in {"join", "cancel", "oops"} => loader.at \in SubIdx
          /\ ExitOK(t)
      BY TablesAssumption DEF TypeOK, ExitInv, SubIdx
    <3>a. \A s \in SubIdx : HasSucc(s) /\ Succ(s) = t
                              => s < t /\ ExitOK(s)
      BY <3>0, TableFacts DEF ExitInv
    <3> USE <3>0 DEF ExitOK, Settled, progress, history, Raw, Idle, IsArmed
      <3>1. CASE CreateThread
        BY <3>1 DEF CreateThread, Goto, QuietInv
      <3>2. CASE StartCal
        BY <3>2 DEF StartCal
      <3>3. ASSUME NEW s \in SubIdx, ThreadEntry(s) PROVE ExitOK(t)'
        BY <3>3 DEF ThreadEntry, HrtimerInit, Goto
      <3>4. ASSUME NEW s \in SubIdx, TestStop(s) PROVE ExitOK(t)'
        BY <3>4 DEF TestStop, KthreadShouldStop, Goto
      <3>5. ASSUME NEW s \in SubIdx, MarkAsleep(s) PROVE ExitOK(t)'
        BY <3>5 DEF MarkAsleep, Goto
      <3>6. ASSUME NEW s \in SubIdx, Release(s) PROVE ExitOK(t)'
        BY <3>6 DEF Release, Goto
      <3>7. ASSUME NEW s \in SubIdx, Finish(s) PROVE ExitOK(t)'
      <4>1. pc[s] # "dead" /\ (t = s => ~Settled(t))
        BY <3>7 DEF Finish
      <4>2. pc'[t] = "dead" <=> pc[t] = "dead"
        BY <3>7 DEF Finish, OwnExpiry, Goto
      <4>3. timer'[t] = timer[t] \/ t = s
        BY <3>7 DEF Finish
      <4>4. UNCHANGED <<loader, stop>>
        BY <3>7 DEF Finish
      <4>5. QED
        BY <4>1, <4>2, <4>3, <4>4
      <3>8. ASSUME NEW s \in SubIdx, Peek(s) PROVE ExitOK(t)'
        BY <3>8 DEF Peek, Goto
      <3>9. ASSUME NEW s \in SubIdx, WakeSuccessor(s) PROVE ExitOK(t)'
        BY <3>9 DEF WakeSuccessor, Goto, WakeUp
      <3>10. ASSUME NEW s \in SubIdx, ArmSuccessor(s) PROVE ExitOK(t)'
      <4>1. /\ UNCHANGED <<loader, stop>>
            /\ pc'[t] = "dead" <=> pc[t] = "dead"
            /\ Succ(s) # t => timer'[t] = timer[t]
        BY <3>10 DEF ArmSuccessor, Goto
      <4>2. HasSucc(s) /\ pc[s] = "arm"
        BY <3>10 DEF ArmSuccessor, TypeOK, HandingOver
      <4>3. Succ(s) = t => ~Settled(t)
        BY <3>a, <4>2
      <4>4. QED
        BY <4>1, <4>3
      <3>11. ASSUME NEW s \in SubIdx, RunTimerFunc(s) PROVE ExitOK(t)'
        BY <3>11 DEF RunTimerFunc, WakeUp, UseTasks
      <3>12. CASE CalTimerFunc
        BY <3>12 DEF CalTimerFunc, WakeUp, UseTasks
      <3>13. CASE BeginExit
        BY <3>13 DEF BeginExit
      <3>14. CASE StopThread
        BY <3>14 DEF StopThread, WakeUp
      <3>15. CASE JoinThread
        BY <3>15 DEF JoinThread
      <3>16. CASE CancelTimer
        BY <3>16 DEF CancelTimer, HrtimerCancel
      <3>17. CASE CancelRawTimer
        BY <3>17 DEF CancelRawTimer
      <3>18. CASE CancelCal
        BY <3>18 DEF CancelCal
      <3>19. CASE Tick
        BY <3>19 DEF Tick
      <3>20. CASE UNCHANGED vars
        BY <3>20 DEF vars
      <3>21. QED
        BY <3>1, <3>2, <3>3, <3>4, <3>5, <3>6, <3>7, <3>8, <3>9,
           <3>10, <3>11, <3>12, <3>13, <3>14, <3>15, <3>16, <3>17, <3>18,
           <3>19, <3>20
        DEF Next, Thread, Exit
  <2>3. QED
    BY <2>1, <2>2 DEF ExitInv
<1>3. QED
  BY <1>1, <1>2, TypeCorrect, QuietInit, PTL DEF Spec

\* A queued timer of an ended thread is the one about to be cancelled, or
\* cal_timer when unloading began before it had fired; and when the module is
\* gone no thread and no timer is left.
THEOREM UnloadOrderHolds == Spec => []UnloadOrder
<1>1. TypeOK /\ QuietInv /\ StopInv /\ HeadInv /\ ExitInv => UnloadOrder
  <2> SUFFICES ASSUME TypeOK, QuietInv, StopInv, HeadInv, ExitInv
               PROVE  UnloadOrder
    OBVIOUS
  <2>1. ASSUME NEW s \in SubIdx, pc[s] = "dead", IsArmed(timer[s]),
               loader.step # "panic"
        PROVE  loader.step \in {"join", "cancel"} /\ loader.at = s
    <3>1. stop[s] /\ ~Settled(s)
      BY <2>1 DEF ExitInv, ExitOK
    <3>2. s \in Int /\ loader.at \in Int
      BY TablesAssumption DEF SubIdx, TypeOK
    <3>3. QED
      BY <2>1, <3>1, <3>2 DEF StopInv, Settled
  <2>2. ASSUME loader.step = "gone"
        PROVE  /\ ~IsArmed(cal_timer)
               /\ \A s \in SubIdx : pc[s] = "dead" /\ ~IsArmed(timer[s])
    BY <2>2 DEF ExitInv, ExitOK, Settled
  <2>3. ASSUME NEW h \in Heads, pc[h] = "dead", IsArmed(cal_timer),
               loader.step # "panic"
        PROVE  loader.step \in {"stop", "join", "cancel", "oops"}
    <3>1. h \in SubIdx
      BY HeadsAreHeads
    <3>2. stop[h]
      BY <2>3, <3>1 DEF ExitInv, ExitOK
    <3>3. QED
      BY <2>3, <3>1, <3>2 DEF StopInv, ExitInv
  <2>4. ASSUME IsArmed(cal_timer), NEW g \in Heads, last_release_time[g] # 0
        PROVE  stop[g]
    BY <2>4, HeadsAreHeads DEF HeadInv, HeadOK
  <2>5. QED
    BY <2>1, <2>2, <2>3, <2>4 DEF UnloadOrder
<1>2. QED
  BY <1>1, TypeCorrect, QuietInit, StopOrder, HeadInvariant, ExitInvariant, PTL
=============================================================================
