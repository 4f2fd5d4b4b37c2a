------------------------------ MODULE PagingMC ------------------------------
(***************************************************************************)
(* A process with two threads and a process with one.                      *)
(***************************************************************************)
EXTENDS Paging, TLC

CONSTANTS p1, p2, t1, t2, t3, f1, f2, f3, d1, d2

TwoAndOne == [t \in {t1, t2, t3} |-> IF t = t3 THEN p2 ELSE p1]

Symmetry == Permutations({f1, f2, f3}) \cup Permutations({d1, d2})
             \cup Permutations({t1, t2})
=============================================================================
