------------------------------ MODULE E2ERunMC ------------------------------
(***************************************************************************)
(* Small tables for E2ERun.                                                *)
(***************************************************************************)
EXTENDS E2ERun

\* One task with a head, a middle and a last subtask.  Where UintSize is 5,
\* the product of the last one wraps and the others do not.
Chain3Tasks == [i \in {0} |->
  [period |-> 2, subtask_count |-> 3, subtask_start_idx |-> 0,
   exe_time |-> 3]]
Chain3Subtasks == [s \in 0 .. 2 |->
  [task_id |-> 0, subtask_id |-> s, cumulative_exe_time |-> s + 1]]

\* A task of two subtasks.
Chain2Tasks == [i \in {0} |->
  [period |-> 2, subtask_count |-> 2, subtask_start_idx |-> 0,
   exe_time |-> 2]]
Chain2Subtasks == [s \in 0 .. 1 |->
  [task_id |-> 0, subtask_id |-> s, cumulative_exe_time |-> s + 1]]

\* A task of one subtask and a task of two.
TwoTasksTasks == [i \in {0, 1} |->
  [period |-> IF i = 0 THEN 1 ELSE 2, subtask_count |-> i + 1,
   subtask_start_idx |-> i, exe_time |-> i + 1]]
TwoTasksSubtasks == [s \in 0 .. 2 |->
  [task_id |-> IF s = 0 THEN 0 ELSE 1,
   subtask_id |-> IF s = 2 THEN 1 ELSE 0,
   cumulative_exe_time |-> IF s = 2 THEN 2 ELSE 1]]
=============================================================================
