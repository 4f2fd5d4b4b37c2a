------------------------------ MODULE Transfer ------------------------------
(***************************************************************************)
(* What the two programs of studio5 promise: an array handed over once     *)
(* through a region of shared memory.  The writer announces the whole      *)
(* array, a reader takes the whole array, and the writer destroys the      *)
(* region after that.  A writer that finds a region somebody else used, or *)
(* that is killed, leaves it to be abandoned.                              *)
(***************************************************************************)
CONSTANT Regions

VARIABLE phase   \* of each region

Init == phase = [r \in Regions |-> "empty"]

Goes(r, from, to) == phase[r] \in from /\ phase' = [phase EXCEPT ![r] = to]

Announce(r) == Goes(r, {"empty"}, "announced")
Take(r)     == Goes(r, {"announced"}, "taken")
Destroy(r)  == Goes(r, {"taken"}, "destroyed")
Abandon(r)  == Goes(r, {"empty", "announced", "taken"}, "abandoned")

Next == \E r \in Regions : Announce(r) \/ Take(r) \/ Destroy(r) \/ Abandon(r)

Spec == Init /\ [][Next]_phase
=============================================================================
