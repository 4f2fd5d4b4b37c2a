------------------------- MODULE SharedMemory_proofs -------------------------
(***************************************************************************)
(* The flags make a hand-over, for every array, any regions and any number *)
(* of runs and kills, on a processor that shows stores in order.           *)
(***************************************************************************)
EXTENDS SharedMemory, TLAPS

Programs == {"leader", "follower"}

Shape ==
  /\ name \in Regions \cup {NoRegion}
  /\ data \in [Regions -> SUBSET Elements]
  /\ unseen = [r \in Regions |-> {}]
  /\ unlinked \in [Regions -> {"no", "error", "done"}]
  /\ copied \in [Programs -> SUBSET Elements]

(* A flag says what it stands for: the array is there, and was taken.      *)
Flagged ==
  /\ \A r \in Regions : r \in read_guard => data[r] = Elements
  /\ delete_guard \subseteq read_guard \cap whole

Leading ==
  /\ name # NoRegion => unlinked[name] = "no"
  /\ leader # "off" => /\ leader_map = name /\ name # NoRegion
                       /\ copied.leader \subseteq data[leader_map]
  /\ leader \in {"clear", "wait_follower", "copy"} => leader_map \notin read_guard
  /\ leader = "unlink" => leader_map \in delete_guard

(* The follower copies only from a region that is announced, so all that   *)
(* it copied it found written.                                             *)
Following ==
  /\ follower # "off" => follower_map \in Regions /\ got = copied.follower
  /\ follower # "copy" => got = {}
  /\ follower = "copy" => follower_map \in read_guard

Good == Shape /\ Flagged /\ Leading /\ Following

(* The processor is what it is from the first run on. *)
Fixed == runs \in [Programs -> Nat] /\ (weak => runs.leader # 0)

IInv == Fixed /\ (weak \/ Good)

LEMMA InitIsGood == Init => IInv
  BY SharedMemoryAssumption
  DEF Init, IInv, Fixed, Good, Shape, Flagged, Leading, Following, Programs

LEMMA FixedKeeps ==
  ASSUME Fixed, [Next]_vars
  PROVE  Fixed' /\ (weak => weak')
<1>1. CASE LeaderOpen
  BY <1>1 DEF LeaderOpen, Fixed, Programs
<1>2. CASE FollowerOpen
  BY <1>2 DEF FollowerOpen, Fixed, Programs
<1>3. CASE UNCHANGED <<weak, runs>>
  BY <1>3 DEF Fixed
<1>4. LeaderOpen \/ FollowerOpen \/ UNCHANGED <<weak, runs>>
  BY DEF Next, vars, Leader, LeaderTruncate, LeaderCheck, LeaderClear,
         LeaderSees, LeaderCopy, BecomesVisible, LeaderAnnounce, LeaderUnlink,
         Follower, FollowerNotify, FollowerSees, FollowerCopy, FollowerDone,
         LeaderKilled, FollowerKilled
<1> QED BY <1>1, <1>2, <1>3, <1>4

-----------------------------------------------------------------------------
(* The steps of the leader. *)

LEMMA LeaderOpens ==
  ASSUME Good, LeaderOpen, UNCHANGED got
  PROVE  Good'
<1> USE SharedMemoryAssumption DEF LeaderOpen, LeaderGoes, guards, follow
<1>1. name' \in Regions /\ unlinked[name'] = "no"
  BY DEF Good, Shape, Leading, Fresh
<1>2. Shape'
  BY <1>1 DEF Good, Shape, Programs
<1>3. Flagged'
  BY DEF Good, Flagged
<1>4. Leading'
  BY <1>1 DEF Good, Leading
<1>5. copied'.follower = copied.follower
  BY DEF Good, Shape, Programs
<1>6. Following'
  BY <1>5 DEF Good, Following
<1> QED BY <1>2, <1>3, <1>4, <1>6 DEF Good

(* A check that finds a flag unlinks the region; else no flag is set.      *)
LEMMA LeaderChecks ==
  ASSUME Good, LeaderCheck, UNCHANGED got
  PROVE  Good'
<1> USE SharedMemoryAssumption DEF LeaderCheck, LeaderGoes, Unlink, InUse,
                               guards, follow
<1>1. Shape'
  BY DEF Good, Shape, Programs
<1>2. Flagged'
  BY DEF Good, Flagged
<1>3. Leading'
  BY DEF Good, Leading
<1>4. Following'
  BY DEF Good, Following
<1> QED BY <1>1, <1>2, <1>3, <1>4 DEF Good

LEMMA LeaderClears ==
  ASSUME Good, LeaderClear, UNCHANGED got
  PROVE  Good'
<1> USE DEF LeaderClear, LeaderGoes, follow
<1>1. read_guard' = read_guard /\ delete_guard' = delete_guard
  BY DEF Good, Leading, Flagged
<1>2. Shape'
  BY DEF Good, Shape
<1>3. Flagged'
  BY <1>1 DEF Good, Flagged
<1>4. Leading'
  BY <1>1 DEF Good, Leading
<1>5. Following'
  BY <1>1 DEF Good, Following
<1> QED BY <1>2, <1>3, <1>4, <1>5 DEF Good

LEMMA LeaderMoves ==
  ASSUME Good, LeaderTruncate \/ LeaderSees, UNCHANGED got
  PROVE  Good'
<1> USE DEF LeaderTruncate, LeaderSees, LeaderGoes, memory, guards, follow
<1>1. Shape'
  BY DEF Good, Shape
<1>2. Flagged'
  BY DEF Good, Flagged
<1>3. Leading'
  <2>1. CASE LeaderTruncate
    BY <2>1 DEF Good, Leading
  <2>2. CASE LeaderSees
    BY <2>2 DEF Good, Leading
  <2> QED BY <2>1, <2>2
<1>4. Following'
  BY DEF Good, Following
<1> QED BY <1>1, <1>2, <1>3, <1>4 DEF Good

LEMMA LeaderCopies ==
  ASSUME Good, NEW e \in Elements, LeaderCopy(e), UNCHANGED got, ~weak
  PROVE  Good'
<1> USE SharedMemoryAssumption DEF LeaderCopy, guards, lead, follow
<1>1. /\ data' = [data EXCEPT ![leader_map] = @ \cup {e}]
      /\ unseen' = unseen /\ leader_map \in Regions /\ leader_map \notin read_guard
  BY DEF Good, Shape, Leading
<1>2. Shape'
  BY <1>1 DEF Good, Shape, Programs
<1>3. Flagged'
  BY <1>1 DEF Good, Shape, Flagged
<1>4. Leading'
  BY <1>1 DEF Good, Shape, Leading, Programs
<1>5. copied'.follower = copied.follower
  BY DEF Good, Shape, Programs
<1>6. Following'
  BY <1>5 DEF Good, Following
<1> QED BY <1>2, <1>3, <1>4, <1>6 DEF Good

(* When the leader has copied the array it is there. *)
LEMMA LeaderAnnounces ==
  ASSUME Good, LeaderAnnounce, UNCHANGED got
  PROVE  Good' /\ leader_map \in Regions /\ data[leader_map] = Elements
<1> USE SharedMemoryAssumption DEF LeaderAnnounce, LeaderGoes, CopyDone,
                               Raised, follow
<1>1. leader_map \in Regions /\ data[leader_map] = Elements
  BY DEF Good, Shape, Leading
<1>2. Shape'
  BY DEF Good, Shape
<1>3. Flagged'
  BY <1>1 DEF Good, Flagged
<1>4. Leading'
  BY DEF Good, Leading
<1>5. Following'
  BY DEF Good, Following
<1> QED BY <1>1, <1>2, <1>3, <1>4, <1>5 DEF Good

LEMMA LeaderEnds ==
  ASSUME Good, \/ LeaderUnlink /\ UNCHANGED got
               \/ LeaderKilled
  PROVE  Good'
<1> USE SharedMemoryAssumption DEF LeaderUnlink, LeaderKilled, LeaderGoes,
                               Unlink, memory, guards, follow
<1>1. Shape'
  BY DEF Good, Shape
<1>2. Flagged'
  BY DEF Good, Flagged
<1>3. Leading'
  BY DEF Good, Leading
<1>4. Following'
  BY DEF Good, Following
<1> QED BY <1>1, <1>2, <1>3, <1>4 DEF Good

-----------------------------------------------------------------------------
(* The steps of the follower. *)

LEMMA FollowerMoves ==
  ASSUME Good, \/ (FollowerOpen \/ FollowerNotify \/ FollowerSees) /\ UNCHANGED got
               \/ FollowerKilled
  PROVE  Good'
<1> USE SharedMemoryAssumption DEF FollowerOpen, FollowerNotify, FollowerSees,
                FollowerKilled, FollowerGoes, MayRead, memory, guards, lead
<1>1. Shape'
  BY DEF Good, Shape, Programs
<1>2. Flagged'
  BY DEF Good, Flagged
<1>3. copied'.leader = copied.leader
  BY DEF Good, Shape, Programs
<1>4. Leading'
  BY <1>3 DEF Good, Leading
<1>5. Following'
  <2>1. CASE FollowerOpen /\ UNCHANGED got
    BY <2>1 DEF Good, Shape, Following, Programs
  <2>2. CASE (FollowerNotify \/ FollowerSees) /\ UNCHANGED got
    BY <2>2 DEF Good, Following
  <2>3. CASE FollowerKilled
    BY <2>3 DEF Good, Following
  <2> QED BY <2>1, <2>2, <2>3
<1> QED BY <1>1, <1>2, <1>4, <1>5 DEF Good

(* What it copies is written. *)
LEMMA FollowerCopies ==
  ASSUME Good, NEW e \in Elements, FollowerCopy(e)
  PROVE  Good'
<1> USE DEF FollowerCopy, memory, guards, lead, follow
<1>1. e \in data[follower_map]
  BY DEF Good, Flagged, Following
<1>2. /\ copied'.follower = copied.follower \cup {e}
      /\ copied'.leader = copied.leader
  BY DEF Good, Shape, Programs
<1>3. Shape'
  BY DEF Good, Shape, Programs
<1>4. Flagged'
  BY DEF Good, Flagged
<1>5. Leading'
  BY <1>2 DEF Good, Leading
<1>6. Following'
  BY <1>1, <1>2 DEF Good, Following
<1> QED BY <1>3, <1>4, <1>5, <1>6 DEF Good

(* It found the whole array written. *)
LEMMA FollowerFinishes ==
  ASSUME Good, FollowerDone
  PROVE  /\ Good'
         /\ follower_map \in Regions \cap read_guard
         /\ whole' = whole \cup {follower_map}
<1> USE DEF FollowerDone, FollowerGoes, lead, Raised
<1>1. /\ follower_map \in Regions \cap read_guard
      /\ whole' = whole \cup {follower_map}
  BY DEF Good, Following
<1>2. Shape'
  BY DEF Good, Shape
<1>3. Flagged'
  BY <1>1 DEF Good, Flagged
<1>4. Leading'
  BY DEF Good, Leading
<1>5. Following'
  BY DEF Good, Following
<1> QED BY <1>1, <1>2, <1>3, <1>4, <1>5 DEF Good

LEMMA StutterKeeps == Good /\ UNCHANGED vars => Good'
  BY DEF Good, Shape, Flagged, Leading, Following, vars, memory, guards, lead,
         follow

-----------------------------------------------------------------------------
(* What the steps are of the hand-over. *)

Handed == [r \in Regions |-> Phase(r)]

(* When the flags say what they stand for, no phase is torn.               *)
Plain(r) ==
  IF unlinked[r] = "done" THEN "destroyed"
  ELSE IF unlinked[r] = "error" THEN "abandoned"
  ELSE IF r \in delete_guard THEN "taken"
  ELSE IF r \in read_guard THEN "announced" ELSE "empty"

LEMMA PhaseIsPlain ==
  ASSUME Good, NEW r \in Regions
  PROVE  Phase(r) = Plain(r)
<1>1. unlinked[r] \in {"no", "error", "done"}
  BY DEF Good, Shape
<1>2. /\ r \in delete_guard => r \in whole /\ r \in read_guard
      /\ r \in read_guard => data[r] = Elements
  BY DEF Good, Flagged
<1> QED BY <1>1, <1>2 DEF Phase, Plain

LEMMA PhaseIsPlainNext ==
  ASSUME Good', NEW r \in Regions
  PROVE  Phase(r)' = Plain(r)'
<1>1. unlinked'[r] \in {"no", "error", "done"}
  BY DEF Good, Shape
<1>2. /\ r \in delete_guard' => r \in whole' /\ r \in read_guard'
      /\ r \in read_guard' => data'[r] = Elements
  BY DEF Good, Flagged
<1> QED BY <1>1, <1>2 DEF Phase, Plain

(* A step that changes the flags and the name of one region is its step.   *)
LEMMA OneGoes ==
  ASSUME Good, Good', NEW r \in Regions,
         \A q \in Regions \ {r} : Plain(q)' = Plain(q)
  PROVE  /\ Plain(r)' = Plain(r) => UNCHANGED Handed
         /\ Handed[r] = Plain(r)
         /\ Handed' = [Handed EXCEPT ![r] = Plain(r)']
<1>1. \A q \in Regions : Phase(q) = Plain(q) /\ Phase(q)' = Plain(q)'
  BY PhaseIsPlain, PhaseIsPlainNext
<1>2. Handed' = [q \in Regions |-> Plain(q)'] /\ Handed = [q \in Regions |-> Plain(q)]
  BY <1>1 DEF Handed
<1> QED BY <1>2

LEMMA Same ==
  ASSUME Good, Good', UNCHANGED <<unlinked, read_guard, delete_guard>>
  PROVE  UNCHANGED Handed
<1>1. \A q \in Regions : Phase(q) = Plain(q) /\ Phase(q)' = Plain(q)'
  BY PhaseIsPlain, PhaseIsPlainNext
<1>2. Handed' = [q \in Regions |-> Plain(q)'] /\ Handed = [q \in Regions |-> Plain(q)]
  BY <1>1 DEF Handed
<1>3. \A q \in Regions : Plain(q)' = Plain(q)
  BY DEF Plain
<1> QED BY <1>2, <1>3

Step == T!Next \/ UNCHANGED Handed

LEMMA CheckIsStep ==
  ASSUME Good, Good', LeaderCheck
  PROVE  Step
<1> USE DEF LeaderCheck, LeaderGoes, Unlink, guards
<1>1. CASE ~InUse
  BY <1>1, Same DEF Step
<1>2. CASE InUse
  <2>1. PICK r \in Regions : r = name /\ unlinked[r] = "no"
    BY SharedMemoryAssumption DEF Good, Shape, Leading
  <2>2. unlinked' = [unlinked EXCEPT ![r] = "error"]
    BY <1>2, <2>1
  <2>3. \A q \in Regions \ {r} : Plain(q)' = Plain(q)
    BY <2>2 DEF Plain, Good, Shape
  <2>4. Plain(r)' = "abandoned"
    BY <2>1, <2>2 DEF Plain, Good, Shape
  <2>5. Plain(r) \in {"empty", "announced", "taken"}
    BY <2>1 DEF Plain
  <2>6. Handed[r] = Plain(r) /\ Handed' = [Handed EXCEPT ![r] = Plain(r)']
    BY <2>3, OneGoes
  <2>7. T!Abandon(r)
    BY <2>4, <2>5, <2>6 DEF T!Abandon, T!Goes, Handed
  <2> QED BY <2>1, <2>7 DEF Step, T!Next
<1> QED BY <1>1, <1>2

LEMMA AnnounceIsStep ==
  ASSUME Good, Good', LeaderAnnounce, leader_map \in Regions
  PROVE  Step
<1> USE DEF LeaderAnnounce, LeaderGoes, Raised
<1>1. PICK r \in Regions : r = leader_map
  OBVIOUS
<1>2. unlinked[r] = "no" /\ r \notin read_guard /\ r \notin delete_guard
  BY <1>1 DEF Good, Flagged, Leading
<1>3. read_guard' = read_guard \cup {r}
  BY <1>1
<1>4. \A q \in Regions \ {r} : Plain(q)' = Plain(q)
  BY <1>3 DEF Plain
<1>5. Plain(r) = "empty" /\ Plain(r)' = "announced"
  BY <1>2, <1>3 DEF Plain
<1>6. Handed[r] = Plain(r) /\ Handed' = [Handed EXCEPT ![r] = Plain(r)']
  BY <1>4, OneGoes
<1>7. T!Announce(r)
  BY <1>5, <1>6 DEF T!Announce, T!Goes, Handed
<1> QED BY <1>7 DEF Step, T!Next

LEMMA UnlinkIsStep ==
  ASSUME Good, Good', LeaderUnlink
  PROVE  Step
<1> USE DEF LeaderUnlink, LeaderGoes, Unlink, guards
<1>1. PICK r \in Regions : r = name /\ unlinked[r] = "no" /\ r \in delete_guard
  BY SharedMemoryAssumption DEF Good, Shape, Leading
<1>2. unlinked' = [unlinked EXCEPT ![r] = "done"]
  BY <1>1
<1>3. \A q \in Regions \ {r} : Plain(q)' = Plain(q)
  BY <1>2 DEF Plain, Good, Shape
<1>4. Plain(r) = "taken" /\ Plain(r)' = "destroyed"
  BY <1>1, <1>2 DEF Plain, Good, Shape
<1>5. Handed[r] = Plain(r) /\ Handed' = [Handed EXCEPT ![r] = Plain(r)']
  BY <1>3, OneGoes
<1>6. T!Destroy(r)
  BY <1>4, <1>5 DEF T!Destroy, T!Goes, Handed
<1> QED BY <1>6 DEF Step, T!Next

(* A second follower takes what was taken, or what is no longer named.     *)
LEMMA DoneIsStep ==
  ASSUME Good, Good', FollowerDone, follower_map \in Regions \cap read_guard
  PROVE  Step
<1> USE DEF FollowerDone, FollowerGoes, Raised
<1>1. PICK r \in Regions : r = follower_map /\ r \in read_guard
  OBVIOUS
<1>2. /\ delete_guard' = delete_guard \cup {r}
      /\ read_guard' = read_guard /\ unlinked' = unlinked
  BY <1>1
<1>3. \A q \in Regions \ {r} : Plain(q)' = Plain(q)
  BY <1>2 DEF Plain
<1>4. \/ Plain(r) = "announced" /\ Plain(r)' = "taken"
      \/ Plain(r)' = Plain(r)
  BY <1>1, <1>2 DEF Plain
<1>5. /\ Plain(r)' = Plain(r) => UNCHANGED Handed
      /\ Handed[r] = Plain(r) /\ Handed' = [Handed EXCEPT ![r] = Plain(r)']
  BY <1>3, OneGoes
<1>6. CASE Plain(r)' = Plain(r)
  BY <1>5, <1>6 DEF Step
<1>7. CASE Plain(r) = "announced" /\ Plain(r)' = "taken"
  <2>1. T!Take(r)
    BY <1>5, <1>7 DEF T!Take, T!Goes, Handed
  <2> QED BY <2>1 DEF Step, T!Next
<1> QED BY <1>4, <1>6, <1>7

-----------------------------------------------------------------------------

LEMMA GoodStep ==
  ASSUME Good, [Next]_vars, ~weak
  PROVE  Good' /\ Step
<1>1. CASE LeaderOpen /\ UNCHANGED got
  <2>1. Good' BY <1>1, LeaderOpens
  <2>2. UNCHANGED <<unlinked, read_guard, delete_guard>>
    BY <1>1 DEF LeaderOpen, guards
  <2> QED BY <2>1, <2>2, Same DEF Step
<1>2. CASE (LeaderTruncate \/ LeaderSees) /\ UNCHANGED got
  <2>1. Good' BY <1>2, LeaderMoves
  <2>2. UNCHANGED <<unlinked, read_guard, delete_guard>>
    BY <1>2 DEF LeaderTruncate, LeaderSees, memory, guards
  <2> QED BY <2>1, <2>2, Same DEF Step
<1>3. CASE LeaderCheck /\ UNCHANGED got
  BY <1>3, LeaderChecks, CheckIsStep
<1>4. CASE LeaderClear /\ UNCHANGED got
  <2>1. Good' BY <1>4, LeaderClears
  <2>2. UNCHANGED <<unlinked, read_guard, delete_guard>>
    BY <1>4 DEF LeaderClear, LeaderGoes, Good, Leading, Flagged
  <2> QED BY <2>1, <2>2, Same DEF Step
<1>5. CASE (\E e \in Elements : LeaderCopy(e)) /\ UNCHANGED got
  <2>1. Good' BY <1>5, LeaderCopies
  <2>2. UNCHANGED <<unlinked, read_guard, delete_guard>>
    BY <1>5 DEF LeaderCopy, guards
  <2> QED BY <2>1, <2>2, Same DEF Step
<1>6. CASE LeaderAnnounce /\ UNCHANGED got
  BY <1>6, LeaderAnnounces, AnnounceIsStep
<1>7. CASE LeaderUnlink /\ UNCHANGED got
  BY <1>7, LeaderEnds, UnlinkIsStep
<1>8. CASE LeaderKilled
  <2>1. Good' BY <1>8, LeaderEnds
  <2>2. UNCHANGED <<unlinked, read_guard, delete_guard>>
    BY <1>8 DEF LeaderKilled, memory, guards
  <2> QED BY <2>1, <2>2, Same DEF Step
<1>9. CASE \/ (FollowerOpen \/ FollowerNotify \/ FollowerSees) /\ UNCHANGED got
           \/ FollowerKilled
  <2>1. Good' BY <1>9, FollowerMoves
  <2>2. UNCHANGED <<unlinked, read_guard, delete_guard>>
    BY <1>9 DEF FollowerOpen, FollowerNotify, FollowerSees, FollowerKilled,
                memory, guards
  <2> QED BY <2>1, <2>2, Same DEF Step
<1>10. CASE \E e \in Elements : FollowerCopy(e)
  <2>1. Good' BY <1>10, FollowerCopies
  <2>2. UNCHANGED <<unlinked, read_guard, delete_guard>>
    BY <1>10 DEF FollowerCopy, memory, guards
  <2> QED BY <2>1, <2>2, Same DEF Step
<1>11. CASE FollowerDone
  BY <1>11, FollowerFinishes, DoneIsStep
<1>12. CASE UNCHANGED vars
  <2>1. Good' BY <1>12, StutterKeeps
  <2>2. UNCHANGED <<unlinked, read_guard, delete_guard>>
    BY <1>12 DEF vars, memory, guards
  <2> QED BY <2>1, <2>2, Same DEF Step
<1>13. ~ \E r \in Regions, e \in Elements : BecomesVisible(r, e)
  BY DEF BecomesVisible, Good, Shape
<1> QED
  BY <1>1, <1>2, <1>3, <1>4, <1>5, <1>6, <1>7, <1>8, <1>9, <1>10, <1>11,
     <1>12, <1>13 DEF Next, Leader, Follower

LEMMA StepKeeps ==
  ASSUME IInv, [Next]_vars
  PROVE  IInv' /\ (weak' \/ Step)
<1>1. Fixed' /\ (weak => weak')
  BY FixedKeeps DEF IInv
<1> QED BY <1>1, GoodStep DEF IInv

(* The programs implement the hand-over, whatever the array, the number of *)
(* regions, runs and kills, where stores are seen in order (leader.c 65 to *)
(* 123, follewer.c 31 to 66).                                              *)
THEOREM HandsOver == Spec => ImplementsTransfer
<1>1. Init => T!Init
  <2> SUFFICES ASSUME Init PROVE \A r \in Regions : Phase(r) = "empty"
    BY DEF T!Init
  <2> QED BY DEF Init, Phase
<1>2. IInv /\ [Next]_vars => [weak' \/ T!Next]_[r \in Regions |-> Phase(r)]
  BY StepKeeps DEF Step, Handed
<1>3. IInv /\ [Next]_vars => IInv'
  BY StepKeeps
<1> QED BY <1>1, <1>2, <1>3, InitIsGood, PTL DEF Spec, ImplementsTransfer
=============================================================================
