------------------------------- MODULE E2EPlan -------------------------------
(***************************************************************************)
(* The calibrate mode of lab2/E2E.c.  E2E_init places the subtasks on      *)
(* cores (first fit by decreasing utilisation), ranks them (deadline       *)
(* monotonic) and starts one thread per core, which searches by bisection  *)
(* the loop count that makes each of its subtasks last its execution time. *)
(* E2E_exit frees the table the threads walk without stopping them.        *)
(*                                                                         *)
(* A definition with an underscored suffix is a slip the code could have   *)
(* had in place of the next one; it shows that a property would notice.    *)
(***************************************************************************)
EXTENDS Integers, Functions

CONSTANTS
  TaskTot, SubtaskTot,   \* sizes of the two tables
  task_id,               \* the task of each subtask; subtasks are in order
  CoreNum,               \* CORE_NUM
  TopPriority,           \* priority of the first subtask of a core (50)
  MaxCnt,                \* upper end of the bisection (1e8)
  LoopCost,              \* nanoseconds one round of subtask_func takes
  Jitter,                \* how much longer a measurement may come out
  NsPerMs,               \* NSEC_PER_MSEC
  UintSize,              \* range of a uint32_t (2^32)
  WordSize,              \* range of an unsigned long (2^32 on the board)
  Periods, ExeTimes      \* values a header may give the tables, in ms

TaskIdx == 0 .. TaskTot - 1
SubIdx  == 0 .. SubtaskTot - 1
Cores   == 0 .. CoreNum - 1
Uint    == 0 .. UintSize - 1

(***************************************************************************)
(* The fields of the tables are 32 bits wide and the products of them are  *)
(* not: what fits is not assumed.  The execution times alone, added up,    *)
(* are taken to fit (2^32 ms are 49 days), and so are the 64-bit products  *)
(* of comp_util and comp_rel_ddl.                                          *)
(***************************************************************************)
ASSUME PlanAssumption ==
  /\ TaskTot \in Nat \ {0} /\ SubtaskTot \in Nat \ {0}
  /\ CoreNum \in Nat \ {0}
  /\ task_id \in [SubIdx -> TaskIdx]
  /\ \A s, t \in SubIdx : s <= t => task_id[s] <= task_id[t]
  /\ TopPriority \in Nat /\ MaxCnt \in Nat
  /\ LoopCost \in Nat /\ Jitter \in Nat
  /\ NsPerMs \in Nat \ {0}
  /\ WordSize \in Nat \ {0} /\ UintSize \in Nat \ {0}
  /\ Periods \subseteq Uint \ {0} /\ ExeTimes \subseteq Uint \ {0}
  /\ \A e \in ExeTimes : SubtaskTot * e \in Uint

-----------------------------------------------------------------------------
VARIABLES
  period, exe_time,      \* input: of each task, of each subtask
  cumulative_exe_time,   \* computed: of each subtask
  task_exe_time,         \* computed: exe_time of each task
  hyper_period,
  sub_ptr,               \* the table of pointers, sorted twice
  agg_time,              \* time given away on each core
  core, priority, loop_count,   \* fields of each subtask
  invalid,
  start_addr,            \* index in sub_ptr of each core's first subtask
  loader,                \* where E2E_init or E2E_exit is, and its loop index
  freed,                 \* sub_ptr has been freed
  cal_timer,
  pc, woken,             \* the calibration threads
  my_core, cur,          \* their locals core and cur (an index of sub_ptr)
  min_cnt, max_cnt,
  searched_by            \* history: threads that calibrated a subtask

inputs == <<period, exe_time>>
params == <<cumulative_exe_time, task_exe_time, hyper_period>>
plan   == <<sub_ptr, agg_time, core, priority, invalid, start_addr>>
thread == <<pc, woken, my_core, cur, min_cnt, max_cnt>>
result == <<loop_count, searched_by>>
vars   == <<inputs, params, plan, thread, result, loader, freed, cal_timer>>

NoAddr == -1            \* a start_addr that is still NULL

Init ==
  /\ period \in [TaskIdx -> Periods]
  /\ exe_time \in [SubIdx -> ExeTimes]
  /\ cumulative_exe_time = [s \in SubIdx |-> 0]
  /\ task_exe_time = [i \in TaskIdx |-> 0]
  /\ hyper_period = 0
  /\ sub_ptr = [s \in SubIdx |-> s]
  /\ agg_time = [c \in Cores |-> 0]
  /\ core = [s \in SubIdx |-> 0]
  /\ priority = [s \in SubIdx |-> 0]
  /\ loop_count = [s \in SubIdx |-> 0]
  /\ invalid = FALSE
  /\ start_addr = [c \in Cores |-> NoAddr]
  /\ loader = [step |-> "params", at |-> 0]
  /\ freed = FALSE
  /\ cal_timer = "raw"
  /\ pc = [c \in Cores |-> "none"]
  /\ woken = [c \in Cores |-> FALSE]
  /\ my_core = [c \in Cores |-> CoreNum]
  /\ cur = [c \in Cores |-> 0]
  /\ min_cnt = [c \in Cores |-> 0]
  /\ max_cnt = [c \in Cores |-> 0]
  /\ searched_by = [s \in SubIdx |-> {}]

PeriodOf(s) == period[task_id[s]]

-----------------------------------------------------------------------------
(***************************************************************************)
(* E2E_init, calibrate branch: the parameters.                             *)
(***************************************************************************)
UpTo(s) == {t \in SubIdx : task_id[t] = task_id[s] /\ t <= s}

SetParameters ==
  /\ loader.step = "params"
  /\ hyper_period' = CHOOSE p \in Range(period) : \A q \in Range(period) : p >= q
  /\ cumulative_exe_time' =
       [s \in SubIdx |-> SumFunctionOnSet(exe_time, UpTo(s))]
  /\ task_exe_time' =
       [i \in TaskIdx |->
          SumFunctionOnSet(exe_time, {s \in SubIdx : task_id[s] = i})]
  /\ loader' = [loader EXCEPT !.step = "sort"]
  /\ UNCHANGED <<inputs, plan, thread, result, freed, cal_timer>>

(***************************************************************************)
(* sort() is not stable: any order the comparison allows may come out.     *)
(***************************************************************************)
SortedBy(Before(_, _)) ==
  {order \in Bijection(SubIdx, SubIdx) :
     \A i, j \in SubIdx : i < j => ~Before(order[j], order[i])}

\* comp_util: the higher utilisation first.
MoreUtil(s, t) == exe_time[s] * PeriodOf(t) > exe_time[t] * PeriodOf(s)

SortByUtil ==
  /\ loader.step = "sort"
  /\ sub_ptr' \in SortedBy(MoreUtil)
  /\ loader' = [step |-> "assign", at |-> 0]
  /\ UNCHANGED <<inputs, params, agg_time, core, priority, invalid,
                 start_addr, thread, result, freed, cal_timer>>

\* Time a subtask takes in hyper_period, in integer division of a product
\* that is 32 bits wide, and the account of core c with it, as wide.
Demand(s) == ((exe_time[s] * hyper_period) % UintSize) \div PeriodOf(s)
Load(s, c) == (agg_time[c] + Demand(s)) % UintSize

Fits_ForgetsItself(s, c) == agg_time[c] <= hyper_period
Fits(s, c) == Load(s, c) <= hyper_period

\* One round of the first-fit loop.
Assign ==
  LET s == sub_ptr[loader.at] IN
  /\ loader.step = "assign"
  /\ loader.at < SubtaskTot
  /\ \/ \E c \in Cores :
          /\ Fits(s, c)
          /\ \A d \in Cores : d < c => ~Fits(s, d)
          /\ core' = [core EXCEPT ![s] = c]
          /\ agg_time' = [agg_time EXCEPT ![c] = Load(s, c)]
          /\ UNCHANGED invalid
     \/ /\ \A c \in Cores : ~Fits(s, c)
        /\ core' = [core EXCEPT ![s] = 0]
        /\ agg_time' = [agg_time EXCEPT ![0] = hyper_period]
        /\ invalid' = TRUE
  /\ loader' = [loader EXCEPT !.at = @ + 1]
  /\ UNCHANGED <<inputs, params, sub_ptr, priority, start_addr, thread,
                 result, freed, cal_timer>>

\* comp_rel_ddl: by core, then the earlier relative deadline first.
DeadlineKey(s, t) ==
  PeriodOf(s) * cumulative_exe_time[s] * task_exe_time[task_id[t]]

RanksBefore_Reversed(s, t) ==
  \/ core[s] < core[t]
  \/ core[s] = core[t] /\ DeadlineKey(s, t) > DeadlineKey(t, s)
RanksBefore(s, t) ==
  \/ core[s] < core[t]
  \/ core[s] = core[t] /\ DeadlineKey(s, t) < DeadlineKey(t, s)

SortByDeadline ==
  /\ loader.step = "assign"
  /\ loader.at = SubtaskTot
  /\ sub_ptr' \in SortedBy(RanksBefore)
  /\ loader' = [step |-> "rank", at |-> 0]
  /\ UNCHANGED <<inputs, params, agg_time, core, priority, invalid,
                 start_addr, thread, result, freed, cal_timer>>

\* A core's run of sub_ptr begins at index i.
BeginsCore_OnlyFirst(i) == i = 0
BeginsCore(i) == i = 0 \/ core[sub_ptr[i]] # core[sub_ptr[i - 1]]

Rank ==
  LET i == loader.at
      s == sub_ptr[i] IN
  /\ loader.step = "rank"
  /\ i < SubtaskTot
  /\ IF BeginsCore(i)
       THEN /\ priority' = [priority EXCEPT ![s] = TopPriority]
            /\ start_addr' = [start_addr EXCEPT ![core[s]] = i]
       ELSE /\ priority' =
                 [priority EXCEPT ![s] = priority[sub_ptr[i - 1]] - 1]
            /\ UNCHANGED start_addr
  /\ loader' = [loader EXCEPT !.at = @ + 1]
  /\ UNCHANGED <<inputs, params, sub_ptr, agg_time, core, invalid, thread,
                 result, freed, cal_timer>>

\* A core without subtasks starts at the sentinel after the table.
StartOf_Null(c) == start_addr[c]
StartOf(c) == IF start_addr[c] = NoAddr THEN SubtaskTot ELSE start_addr[c]

PointToSentinel ==
  /\ loader.step = "rank"
  /\ loader.at = SubtaskTot
  /\ start_addr' = [c \in Cores |-> StartOf(c)]
  /\ loader' = [step |-> "spawn", at |-> 0]
  /\ UNCHANGED <<inputs, params, sub_ptr, agg_time, core, priority, invalid,
                 thread, result, freed, cal_timer>>

Spawn ==
  /\ loader.step = "spawn"
  /\ loader.at < CoreNum
  /\ pc' = [pc EXCEPT ![loader.at] = "new"]
  /\ cur' = [cur EXCEPT ![loader.at] = start_addr[loader.at]]
  /\ loader' = [loader EXCEPT !.at = @ + 1]
  /\ UNCHANGED <<inputs, params, plan, woken, my_core, min_cnt, max_cnt,
                 result, freed, cal_timer>>

StartCal ==
  /\ loader.step = "spawn"
  /\ loader.at = CoreNum
  /\ cal_timer' = "armed"
  /\ loader' = [loader EXCEPT !.step = "up"]
  /\ UNCHANGED <<inputs, params, plan, thread, result, freed>>

-----------------------------------------------------------------------------
(***************************************************************************)
(* cal_timer_func, calibrate branch.  The timer's delay is in no relation  *)
(* to the speed of the threads.                                            *)
(***************************************************************************)
CalTimerFunc ==
  /\ cal_timer = "armed"
  /\ cal_timer' = "idle"
  /\ woken' = [c \in Cores |-> pc[c] = "sched"]
  /\ UNCHANGED <<inputs, params, plan, pc, my_core, cur, min_cnt, max_cnt,
                 result, loader, freed>>

(***************************************************************************)
(* calibrate(), on core c.  A step that reads sub_ptr needs it allocated.  *)
(***************************************************************************)
CoreAt(i) == IF i = SubtaskTot THEN CoreNum ELSE core[sub_ptr[i]]

Goto(c, place) == pc' = [pc EXCEPT ![c] = place]

ThreadEntry(c) ==
  /\ pc[c] = "new" /\ ~freed
  /\ Goto(c, "sched")
  /\ my_core' = [my_core EXCEPT ![c] = CoreAt(cur[c])]
  /\ UNCHANGED <<inputs, params, plan, woken, cur, min_cnt, max_cnt, result,
                 loader, freed, cal_timer>>

Resume(c) ==
  /\ pc[c] = "sched" /\ woken[c] /\ loader.step # "gone"
  /\ Goto(c, IF my_core[c] = CoreNum THEN "done" ELSE "scan")
  /\ woken' = [woken EXCEPT ![c] = FALSE]
  /\ UNCHANGED <<inputs, params, plan, my_core, cur, min_cnt, max_cnt,
                 result, loader, freed, cal_timer>>

\* The test of the outer loop, and the bounds of a new bisection.
NextSubtask(c) ==
  /\ pc[c] = "scan" /\ ~freed
  /\ IF CoreAt(cur[c]) = my_core[c]
       THEN /\ Goto(c, "probe")
            /\ min_cnt' = [min_cnt EXCEPT ![c] = 0]
            /\ max_cnt' = [max_cnt EXCEPT ![c] = MaxCnt]
       ELSE Goto(c, "done") /\ UNCHANGED <<min_cnt, max_cnt>>
  /\ UNCHANGED <<inputs, params, plan, woken, my_core, cur, result, loader,
                 freed, cal_timer>>

\* exe_time * NSEC_PER_MSEC, both 32 bits wide on the board.
Target(s) == (exe_time[s] * NsPerMs) % WordSize

\* What ktime_get() may show around n rounds of subtask_func.
Elapsed(n) == n * LoopCost .. n * LoopCost + Jitter

LongEnough_Strict(elapsed, s) == elapsed > Target(s)
LongEnough(elapsed, s) == elapsed >= Target(s)

Mid_RoundsUp(c) == (min_cnt[c] + max_cnt[c] + 1) \div 2
Mid(c) == (min_cnt[c] + max_cnt[c]) \div 2

Probe(c) ==
  LET s   == sub_ptr[cur[c]]
      mid == Mid(c) IN
  /\ pc[c] = "probe" /\ ~freed
  /\ min_cnt[c] < max_cnt[c]
  /\ loop_count' = [loop_count EXCEPT ![s] = mid]
  /\ \E elapsed \in Elapsed(mid) :
       IF LongEnough(elapsed, s)
         THEN max_cnt' = [max_cnt EXCEPT ![c] = mid] /\ UNCHANGED min_cnt
         ELSE min_cnt' = [min_cnt EXCEPT ![c] = mid + 1] /\ UNCHANGED max_cnt
  /\ UNCHANGED <<inputs, params, plan, pc, woken, my_core, cur, searched_by,
                 loader, freed, cal_timer>>

Settle(c) ==
  LET s == sub_ptr[cur[c]] IN
  /\ pc[c] = "probe" /\ ~freed
  /\ min_cnt[c] >= max_cnt[c]
  /\ loop_count' = [loop_count EXCEPT ![s] = max_cnt[c]]
  /\ searched_by' = [searched_by EXCEPT ![s] = @ \cup {c}]
  /\ cur' = [cur EXCEPT ![c] = @ + 1]
  /\ Goto(c, "scan")
  /\ UNCHANGED <<inputs, params, plan, woken, my_core, min_cnt, max_cnt,
                 loader, freed, cal_timer>>

\* The table or the module's code is gone under a thread that goes on.
RunWild(c) ==
  /\ \/ freed /\ pc[c] \in {"new", "scan", "probe"}
     \/ loader.step = "gone" /\ pc[c] = "sched" /\ woken[c]
  /\ Goto(c, "wild")
  /\ UNCHANGED <<inputs, params, plan, woken, my_core, cur, min_cnt, max_cnt,
                 result, loader, freed, cal_timer>>

Thread(c) == \/ ThreadEntry(c) \/ Resume(c) \/ NextSubtask(c)
             \/ Probe(c) \/ Settle(c) \/ RunWild(c)

-----------------------------------------------------------------------------
(***************************************************************************)
(* E2E_exit, calibrate branch: free sub_ptr, then cancel cal_timer.        *)
(***************************************************************************)
FreeTable ==
  /\ loader.step = "up"
  /\ freed' = TRUE
  /\ loader' = [loader EXCEPT !.step = "freed"]
  /\ UNCHANGED <<inputs, params, plan, thread, result, cal_timer>>

CancelCal ==
  /\ loader.step = "freed"
  /\ cal_timer' = "idle"
  /\ loader' = [loader EXCEPT !.step = "gone"]
  /\ UNCHANGED <<inputs, params, plan, thread, result, freed>>

InitStep == \/ SetParameters \/ SortByUtil \/ Assign \/ SortByDeadline
            \/ Rank \/ PointToSentinel \/ Spawn \/ StartCal

Next ==
  \/ InitStep
  \/ CalTimerFunc
  \/ \E c \in Cores : Thread(c)
  \/ FreeTable \/ CancelCal

Spec == Init /\ [][Next]_vars

\* Every runnable thread runs, the timer fires and the handlers go on.
Fairness ==
  /\ WF_vars(InitStep) /\ WF_vars(CalTimerFunc) /\ WF_vars(CancelCal)
  /\ \A c \in Cores : WF_vars(Thread(c))

FairSpec == Spec /\ Fairness

-----------------------------------------------------------------------------
(***************************************************************************)
(* Properties.                                                             *)
(***************************************************************************)
Steps  == {"params", "sort", "assign", "rank", "spawn", "up", "freed", "gone"}
Places == {"none", "new", "sched", "scan", "probe", "done", "wild"}

\* Every variable keeps to its range; in particular no thread walks past the
\* sentinel behind the table (E2E.c:75, 179-180, 207-209).
TypeOK ==
  /\ cumulative_exe_time \in [SubIdx -> Nat]
  /\ task_exe_time \in [TaskIdx -> Nat]
  /\ hyper_period \in Nat
  /\ sub_ptr \in [SubIdx -> SubIdx]
  /\ agg_time \in [Cores -> Nat]
  /\ core \in [SubIdx -> Cores]
  /\ priority \in [SubIdx -> Int]
  /\ loop_count \in [SubIdx -> 0 .. MaxCnt]
  /\ invalid \in BOOLEAN /\ freed \in BOOLEAN
  /\ start_addr \in [Cores -> 0 .. SubtaskTot \cup {NoAddr}]
  /\ loader \in [step : Steps, at : 0 .. SubtaskTot \cup 0 .. CoreNum]
  /\ cal_timer \in {"raw", "armed", "idle"}
  /\ pc \in [Cores -> Places]
  /\ woken \in [Cores -> BOOLEAN]
  /\ my_core \in [Cores -> 0 .. CoreNum]
  /\ cur \in [Cores -> 0 .. SubtaskTot]
  /\ min_cnt \in [Cores -> 0 .. MaxCnt]
  /\ max_cnt \in [Cores -> 0 .. MaxCnt]
  /\ searched_by \in [SubIdx -> SUBSET Cores]

\* The cores and priorities are final.
Planned == loader.step \in {"spawn", "up", "freed", "gone"}

On(c) == {s \in SubIdx : core[s] = c}

\* Work a core gets in a span that is a multiple of every period.
WorkIn(span, c) ==
  SumFunctionOnSet([s \in SubIdx |-> exe_time[s] * (span \div PeriodOf(s))],
                   On(c))

\* The admission test of s is made on numbers that 32 bits hold.
NoWrap(s) ==
  /\ exe_time[s] * hyper_period < UintSize
  /\ hyper_period + Demand(s) < UintSize

\* The admission test (E2E.c:187-196), where every period divides the
\* longest one and no product or sum of lines 187-188 wraps: unless the set
\* was reported unschedulable, no core has to work longer than a hyper
\* period in a hyper period.  A product that wraps looks small, and then a
\* core is overbooked without a report.
NotOverbooked ==
  Planned /\ ~invalid
    /\ (\A s \in SubIdx : NoWrap(s))
    /\ (\A i \in TaskIdx : hyper_period % period[i] = 0)
  => \A c \in Cores : WorkIn(hyper_period, c) <= hyper_period

\* The two sorts and the ranking (E2E.c:54-62, 199-206): on one core the
\* priorities differ, an earlier relative deadline has the higher one, and
\* so a subtask outranks the later subtasks of its task.
PriorityOrder ==
  Planned =>
    \A s, t \in SubIdx :
      s # t /\ core[s] = core[t] =>
        /\ priority[s] # priority[t]
        /\ DeadlineKey(s, t) < DeadlineKey(t, s) => priority[s] > priority[t]
        /\ task_id[s] = task_id[t] /\ s < t => priority[s] > priority[t]

\* n rounds are enough, up to the jitter; n - 1 rounds are too few.
InBand(n, s) ==
  /\ n < MaxCnt => n * LoopCost + Jitter >= Target(s)
  /\ n > 0 => (n - 1) * LoopCost < Target(s)

\* The bisection (E2E.c:78-88) under measurements that may come out too
\* long: its two ends stay on their sides of the target, and the count it
\* leaves misses the target by no more than the jitter.
SearchBand ==
  /\ \A c \in Cores :
       pc[c] = "probe" /\ ~freed =>
         LET s == sub_ptr[cur[c]] IN
           /\ min_cnt[c] <= max_cnt[c]
           /\ min_cnt[c] > 0 => (min_cnt[c] - 1) * LoopCost < Target(s)
           /\ max_cnt[c] < MaxCnt =>
                max_cnt[c] * LoopCost + Jitter >= Target(s)
  /\ \A s \in SubIdx : searched_by[s] # {} => InBand(loop_count[s], s)

\* The walk of the shared table (E2E.c:75, 91, 200-209): only the thread of
\* its core calibrates a subtask, and when all threads have returned every
\* subtask has been calibrated.
CalibratedOnce ==
  /\ \A s \in SubIdx : searched_by[s] \subseteq {core[s]}
  /\ (\A c \in Cores : pc[c] = "done") =>
       \A s \in SubIdx : searched_by[s] = {core[s]}

\* A thread cal_timer found asleep (E2E.c:71-72, 99) gets through its part
\* of the table, unless the table is freed under it.
CalibrationEnds ==
  \A c \in Cores : woken[c] ~> pc[c] \in {"done", "wild"}

-----------------------------------------------------------------------------
(***************************************************************************)
(* Statements of lab2/readme.txt that the code does not keep.              *)
(***************************************************************************)
CommonSpan == FoldFunction(LAMBDA p, q : p * q, 1, period)

\* readme.txt:74: agg_time is "the total execution time within a hyper
\* period", and a subtask goes to a core only if it does not exceed that.
CoreFits ==
  Planned /\ ~invalid => \A c \in Cores : WorkIn(CommonSpan, c) <= CommonSpan
=============================================================================
