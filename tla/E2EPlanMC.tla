------------------------------ MODULE E2EPlanMC ------------------------------
(***************************************************************************)
(* Small tables for E2EPlan.                                               *)
(***************************************************************************)
EXTENDS E2EPlan

\* A task of two subtasks and a task of one.
TwoAndOne == [s \in 0 .. 2 |-> IF s = 2 THEN 1 ELSE 0]

\* Two tasks of one subtask each.
OneEach == [s \in 0 .. 1 |-> s]
=============================================================================
