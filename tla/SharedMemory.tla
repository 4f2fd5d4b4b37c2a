---------------------------- MODULE SharedMemory ----------------------------
(***************************************************************************)
(* The programs of studio5: leader.c makes a region of shared memory and   *)
(* writes an array into it, follewer.c copies the array out; three flags   *)
(* in the region tell them when.  Either may be killed and started again,  *)
(* one leader and one follower at a time.                                  *)
(*                                                                         *)
(* The array is copied by memcpy, which is not volatile: on the board a    *)
(* store of it may become visible after a later store to a flag.           *)
(***************************************************************************)
EXTENDS Naturals

CONSTANTS
  Elements,    \* of the array
  Regions,     \* regions that get the name /shared_memory_region
  NoRegion,
  MaxRuns      \* bound on the runs of each program

ASSUME SharedMemoryAssumption == NoRegion \notin Regions /\ MaxRuns \in Nat

VARIABLES
  weak,                        \* stores may become visible out of order
  name,                        \* the region that has the name
  sized,                       \* regions that ftruncate gave their size
  write_guard, read_guard, delete_guard,   \* regions where they are set
  data, unseen,                \* elements written; those not visible yet
  leader, leader_map,          \* place in main, region mapped
  follower, follower_map,
  copied,                      \* elements each of them has copied
  got,                         \* those the follower found written
  runs,                        \* how often each was started
  unlinked,                    \* history: how each region lost its name
  whole,                       \* history: regions copied out as a whole
  killed                       \* history: somebody was

guards == <<write_guard, read_guard, delete_guard>>
memory == <<name, sized, guards, data, unseen>>
lead   == <<leader, leader_map>>
follow == <<follower, follower_map>>
vars   == <<weak, memory, lead, follow, copied, got, runs, unlinked, whole,
            killed>>

Init ==
  /\ weak = FALSE
  /\ name = NoRegion /\ sized = {}
  /\ write_guard = {} /\ read_guard = {} /\ delete_guard = {}
  /\ data = [r \in Regions |-> {}] /\ unseen = [r \in Regions |-> {}]
  /\ leader = "off" /\ leader_map = NoRegion
  /\ follower = "off" /\ follower_map = NoRegion
  /\ copied = [leader |-> {}, follower |-> {}] /\ got = {}
  /\ runs = [leader |-> 0, follower |-> 0]
  /\ unlinked = [r \in Regions |-> "no"]
  /\ whole = {} /\ killed = FALSE

Raised_Not(flag, r) == flag
Raised(flag, r)     == flag \cup {r}

Fresh == {r \in Regions : unlinked[r] = "no" /\ name # r}

-----------------------------------------------------------------------------
(* The leader. *)

LeaderGoes(from, to) == leader = from /\ leader' = to

LeaderOpen ==
  /\ LeaderGoes("off", "truncate")
  /\ runs.leader < MaxRuns /\ runs' = [runs EXCEPT !.leader = @ + 1]
  /\ weak' \in IF runs.leader = 0 THEN BOOLEAN ELSE {weak}
  /\ name' \in IF name = NoRegion THEN Fresh ELSE {name}
  /\ leader_map' = name'
  /\ copied' = [copied EXCEPT !.leader = {}]
  /\ UNCHANGED <<sized, guards, data, unseen, follow, unlinked, whole, killed>>

LeaderTruncate ==
  /\ LeaderGoes("truncate", "check")
  /\ sized' = sized \cup {leader_map}
  /\ UNCHANGED <<weak, name, guards, data, unseen, leader_map, follow, copied,
                 runs, unlinked, whole, killed>>

InUse == leader_map \in read_guard \cup write_guard \cup delete_guard

Unlink(how) ==
  /\ unlinked' = [unlinked EXCEPT ![name] = how]
  /\ name' = NoRegion
  /\ leader_map' = NoRegion

(* The region is taken for one an earlier run did not destroy.             *)
LeaderCheck ==
  /\ \/ InUse /\ LeaderGoes("check", "off") /\ Unlink("error")
     \/ ~InUse /\ LeaderGoes("check", "clear")
        /\ UNCHANGED <<unlinked, name, leader_map>>
  /\ UNCHANGED <<weak, sized, guards, data, unseen, follow, copied, runs,
                 whole, killed>>

LeaderClear ==
  /\ LeaderGoes("clear", "wait_follower")
  /\ write_guard' = write_guard \ {leader_map}
  /\ read_guard' = read_guard \ {leader_map}
  /\ delete_guard' = delete_guard \ {leader_map}
  /\ UNCHANGED <<weak, name, sized, data, unseen, leader_map, follow, copied,
                 runs, unlinked, whole, killed>>

LeaderSees ==
  /\ \/ leader_map \in write_guard /\ LeaderGoes("wait_follower", "copy")
     \/ leader_map \in delete_guard /\ LeaderGoes("wait_read", "unlink")
  /\ UNCHANGED <<weak, memory, leader_map, follow, copied, runs, unlinked,
                 whole, killed>>

LeaderCopy(e) ==
  /\ leader = "copy" /\ e \notin copied.leader
  /\ copied' = [copied EXCEPT !.leader = @ \cup {e}]
  /\ \/ data' = [data EXCEPT ![leader_map] = @ \cup {e}] /\ UNCHANGED unseen
     \/ /\ weak /\ e \notin data[leader_map]
        /\ unseen' = [unseen EXCEPT ![leader_map] = @ \cup {e}]
        /\ UNCHANGED data
  /\ UNCHANGED <<weak, name, sized, guards, lead, follow, runs, unlinked,
                 whole, killed>>

BecomesVisible(r, e) ==
  /\ e \in unseen[r]
  /\ unseen' = [unseen EXCEPT ![r] = @ \ {e}]
  /\ data' = [data EXCEPT ![r] = @ \cup {e}]
  /\ UNCHANGED <<weak, name, sized, guards, lead, follow, copied, runs,
                 unlinked, whole, killed>>

CopyDone_Early == copied.leader # {}
CopyDone       == copied.leader = Elements

LeaderAnnounce ==
  /\ CopyDone
  /\ LeaderGoes("copy", "wait_read")
  /\ read_guard' = Raised(read_guard, leader_map)
  /\ UNCHANGED <<weak, name, sized, write_guard, delete_guard, data, unseen,
                 leader_map, follow, copied, runs, unlinked, whole, killed>>

LeaderUnlink ==
  /\ LeaderGoes("unlink", "off")
  /\ Unlink("done")
  /\ UNCHANGED <<weak, sized, guards, data, unseen, follow, copied, runs,
                 whole, killed>>

Leader ==
  \/ LeaderTruncate \/ LeaderCheck \/ LeaderClear \/ LeaderSees
  \/ (\E e \in Elements : LeaderCopy(e)) \/ LeaderAnnounce \/ LeaderUnlink

-----------------------------------------------------------------------------
(* The follower. *)

FollowerGoes(from, to) == follower = from /\ follower' = to

(* Without the region it ends at once. *)
FollowerOpen ==
  /\ name # NoRegion
  /\ FollowerGoes("off", "notify")
  /\ runs.follower < MaxRuns /\ runs' = [runs EXCEPT !.follower = @ + 1]
  /\ follower_map' = name
  /\ copied' = [copied EXCEPT !.follower = {}]
  /\ UNCHANGED <<weak, memory, lead, unlinked, whole, killed>>

(* A store to a region without size kills it.                              *)
FollowerNotify ==
  /\ \/ /\ follower_map \in sized /\ FollowerGoes("notify", "wait")
        /\ write_guard' = Raised(write_guard, follower_map)
        /\ UNCHANGED <<follower_map, killed>>
     \/ /\ follower_map \notin sized /\ FollowerGoes("notify", "off")
        /\ follower_map' = NoRegion /\ killed' = TRUE
        /\ UNCHANGED write_guard
  /\ UNCHANGED <<weak, name, sized, read_guard, delete_guard, data, unseen,
                 lead, copied, runs, unlinked, whole>>

MayRead == follower_map \in read_guard

FollowerSees ==
  /\ MayRead /\ FollowerGoes("wait", "copy")
  /\ UNCHANGED <<weak, memory, lead, follower_map, copied, runs, unlinked,
                 whole, killed>>

FollowerCopy(e) ==
  /\ follower = "copy" /\ e \notin copied.follower
  /\ copied' = [copied EXCEPT !.follower = @ \cup {e}]
  /\ got' = IF e \in data[follower_map] THEN got \cup {e} ELSE got
  /\ UNCHANGED <<weak, memory, lead, follow, runs, unlinked, whole, killed>>

(* It tells the leader and unmaps the region. *)
FollowerDone ==
  /\ copied.follower = Elements
  /\ FollowerGoes("copy", "off")
  /\ delete_guard' = Raised(delete_guard, follower_map)
  /\ whole' = IF got = Elements THEN whole \cup {follower_map} ELSE whole
  /\ follower_map' = NoRegion /\ got' = {}
  /\ UNCHANGED <<weak, name, sized, write_guard, read_guard, data, unseen,
                 lead, copied, runs, unlinked, killed>>

Follower ==
  \/ (FollowerNotify \/ FollowerSees) /\ UNCHANGED got
  \/ (\E e \in Elements : FollowerCopy(e)) \/ FollowerDone

-----------------------------------------------------------------------------
(* A program is killed, or ends on the error of a call: the region stays.  *)

LeaderKilled ==
  /\ leader # "off"
  /\ leader' = "off" /\ leader_map' = NoRegion /\ killed' = TRUE
  /\ UNCHANGED <<weak, memory, follow, copied, got, runs, unlinked, whole>>

FollowerKilled ==
  /\ follower # "off"
  /\ follower' = "off" /\ follower_map' = NoRegion /\ killed' = TRUE
  /\ got' = {}
  /\ UNCHANGED <<weak, memory, lead, copied, runs, unlinked, whole>>

Next ==
  \/ (LeaderOpen \/ Leader \/ FollowerOpen) /\ UNCHANGED got
  \/ (\E r \in Regions, e \in Elements : BecomesVisible(r, e)) /\ UNCHANGED got
  \/ Follower \/ LeaderKilled \/ FollowerKilled

Fairness == WF_vars(Leader /\ UNCHANGED got) /\ WF_vars(Follower)

Spec     == Init /\ [][Next]_vars
FairSpec == Spec /\ Fairness

-----------------------------------------------------------------------------
(* Properties. *)

Phase(r) ==
  CASE unlinked[r] = "done"  -> "destroyed"
    [] unlinked[r] = "error" -> "abandoned"
    [] unlinked[r] = "no" /\ r \in delete_guard ->
         IF r \in whole THEN "taken" ELSE "torn"
    [] unlinked[r] = "no" /\ r \in read_guard \ delete_guard ->
         IF data[r] = Elements THEN "announced" ELSE "torn"
    [] OTHER -> "empty"

T == INSTANCE Transfer WITH phase <- [r \in Regions |-> Phase(r)]

(* The flags make a hand-over of the copies, whoever is killed and started *)
(* again (leader.c, follewer.c): the follower takes an array that is whole,*)
(* and the leader destroys the region after that.  It takes a processor    *)
(* that shows stores in order.                                             *)
ImplementsTransfer ==
  T!Init /\ [][weak' \/ T!Next]_[r \in Regions |-> Phase(r)]

(* A follower that comes when the leader has cleared the flags gets the    *)
(* array, and the leader destroys the region.                              *)
HandoverEnds ==
  \A r \in Regions :
    (leader = "wait_follower" /\ follower = "notify"
       /\ leader_map = r /\ follower_map = r)
      ~> (Phase(r) = "destroyed" \/ killed)
=============================================================================
