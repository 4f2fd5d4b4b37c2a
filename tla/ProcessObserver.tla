--------------------------- MODULE ProcessObserver ---------------------------
(***************************************************************************)
(* studio12: process_observer.c lists /proc over and over and reports what *)
(* came and went, while processes of anomalous_process.c fork and end.     *)
(* readdir gives the processes in the order of their pids, each if it      *)
(* lives when its turn comes.                                              *)
(***************************************************************************)
EXTENDS Integers, Sequences, FiniteSets, FiniteSetsExt, SequencesExt

CONSTANTS
  Pids,        \* a finite set of positive numbers
  Shell,       \* the process that starts the others and adopts orphans
  ListLen,     \* LIST_LEN
  MaxBirths    \* bound on the processes started

ObserverAssumption ==
  /\ Pids \subseteq Nat \ {0} /\ IsFiniteSet(Pids) /\ Shell \in Pids
  /\ ListLen \in Nat /\ MaxBirths \in Nat

VARIABLES
  parent,        \* of each process that lives, a function
  random,        \* which kind anomalous_process is
  births,        \* processes started so far
  pc, pos,       \* place in main of the observer, "corrupt" once a write
                 \* past a list did harm, and the last pid it read
  old_list, new_list,           \* pids, ascending
  original_pid,  \* 0 until the first creation was seen
  chain,         \* the pid printChain is at
  to_report,     \* created processes of this round that are not reported yet
  fresh,         \* history: started since, under a pid the lists do not
                 \* have, and not reported yet
  deleted        \* history: what the last round reported as deleted

tree  == <<parent, random, births>>
lists == <<old_list, new_list>>
vars  == <<tree, pc, pos, lists, original_pid, chain, to_report, fresh, deleted>>

Alive  == DOMAIN parent
Kernel == 0    \* the parent of the first process, which /proc does not show

Init ==
  /\ parent = (Shell :> Kernel) /\ random = FALSE /\ births = 0
  /\ pc = "off" /\ pos = 0
  /\ old_list = <<>> /\ new_list = <<>>
  /\ original_pid = 0 /\ chain = 0 /\ to_report = {}
  /\ fresh = {} /\ deleted = {}

-----------------------------------------------------------------------------
(* anomalous_process.c.  Every period a process of the random kind may fork*)
(* and may end; one of the slow kind forks.                                *)

Born(pid, of) ==
  /\ births < MaxBirths /\ births' = births + 1
  /\ pid \notin Alive
  /\ parent' = (pid :> of) @@ parent
  /\ fresh' = IF pc = "off" \/ pid \in ToSet(old_list \o new_list)
              THEN fresh ELSE fresh \cup {pid}

Launch(pid) ==
  /\ Born(pid, Shell)
  /\ IF births = 0 THEN random' \in BOOLEAN ELSE UNCHANGED random
  /\ UNCHANGED <<pc, pos, lists, original_pid, chain, to_report, deleted>>

Fork(p, pid) ==
  /\ p \in Alive \ {Shell} /\ Born(pid, p)
  /\ UNCHANGED <<random, pc, pos, lists, original_pid, chain, to_report, deleted>>

Terminate(p) ==
  /\ random /\ p \in Alive \ {Shell}
  /\ parent' = [q \in Alive \ {p} |-> IF parent[q] = p THEN Shell ELSE parent[q]]
  /\ fresh' = fresh \ {p}
  /\ UNCHANGED <<random, births, pc, pos, lists, original_pid, chain, to_report,
                 deleted>>

-----------------------------------------------------------------------------
(* process_observer.c *)

Start ==
  /\ pc = "off" /\ pc' = "first_scan"
  /\ UNCHANGED <<tree, pos, lists, original_pid, chain, to_report, fresh, deleted>>

Ahead == {p \in Alive : p > pos}

(* One entry of /proc.  More of them than a list holds are written behind  *)
(* it, where malloc may have left room or something else is.               *)
ReadEntry ==
  /\ pc \in {"first_scan", "scan"} /\ Ahead # {}
  /\ pos' = Min(Ahead)
  /\ new_list' = Append(new_list, pos')
  /\ fresh' = IF pc = "first_scan" THEN fresh \ {pos'} ELSE fresh
  /\ \/ UNCHANGED pc
     \/ Len(new_list) >= ListLen /\ pc' = "corrupt"
  /\ UNCHANGED <<tree, old_list, original_pid, chain, to_report, deleted>>

FirstScanned ==
  /\ pc = "first_scan" /\ Ahead = {}
  /\ pc' = "scan" /\ pos' = 0
  /\ old_list' = new_list /\ new_list' = <<>>
  /\ UNCHANGED <<tree, original_pid, chain, to_report, fresh, deleted>>

NotIn(here, there) == ToSet(here) \ ToSet(there)

Missing_Swapped(new, old) == NotIn(old, new)
Missing(new, old)         == NotIn(new, old)

Scanned ==
  /\ pc = "scan" /\ Ahead = {}
  /\ pc' = "report" /\ pos' = 0
  /\ to_report' = Missing(new_list, old_list)
  /\ UNCHANGED <<tree, lists, original_pid, chain, fresh, deleted>>

(* The created processes are reported in the order of the list, the first  *)
(* ever seen is the one chains lead to.                                    *)
ReportCreated ==
  /\ pc = "report" /\ to_report # {}
  /\ LET pid == Min(to_report) IN
       /\ to_report' = to_report \ {pid}
       /\ original_pid' = IF original_pid = 0 THEN pid ELSE original_pid
       /\ chain' = pid /\ pc' = "chain"
       /\ fresh' = fresh \ {pid}
  /\ UNCHANGED <<tree, pos, lists, deleted>>

(* printChain opens the file of a process and reads its parent; when the   *)
(* process ends in between, the parent is whatever the stack held.         *)
OpenStatus ==
  /\ pc = "chain"
  /\ IF chain = original_pid \/ chain \notin Alive
     THEN pc' = "report" /\ chain' = 0
     ELSE pc' = "status" /\ UNCHANGED chain
  /\ UNCHANGED <<tree, pos, lists, original_pid, to_report, fresh, deleted>>

ReadStatus ==
  /\ pc = "status" /\ pc' = "chain"
  /\ chain' \in IF chain \in Alive THEN {parent[chain]} ELSE Pids
  /\ UNCHANGED <<tree, pos, lists, original_pid, to_report, fresh, deleted>>

(* The loop of lines 119 to 126 compares new_list[j] with the first        *)
(* entries of old_list, and prints old_list[j].  Past the ends of the      *)
(* lists it reads what malloc left there.                                  *)
Found(j) ==
  IF j > Len(new_list) THEN BOOLEAN
  ELSE LET k == {i \in 1 .. Len(new_list) : i <= Len(old_list)} IN
       IF \E i \in k : old_list[i] = new_list[j] THEN {TRUE}
       ELSE IF Len(new_list) > Len(old_list) THEN BOOLEAN ELSE {FALSE}

ReportDeleted ==
  /\ pc = "report" /\ to_report = {}
  /\ \E gone \in SUBSET DOMAIN old_list :
       /\ \A j \in DOMAIN old_list : (j \notin gone) \in Found(j)
       /\ deleted' = {old_list[j] : j \in gone}
  /\ old_list' = new_list /\ new_list' = <<>>
  /\ pc' = "scan"
  /\ UNCHANGED <<tree, pos, original_pid, chain, to_report, fresh>>

Observer == ReadEntry \/ FirstScanned \/ Scanned \/ ReportCreated
            \/ OpenStatus \/ ReadStatus \/ ReportDeleted

Next ==
  \/ \E pid \in Pids : Launch(pid) \/ Terminate(pid) \/ \E p \in Pids : Fork(p, pid)
  \/ Start \/ Observer

Fairness == WF_vars(Observer)

Spec     == Init /\ [][Next]_vars
FairSpec == Spec /\ Fairness

-----------------------------------------------------------------------------
(* Properties. *)

(* A process started after the first scan is reported as created or ends   *)
(* (lines 94 to 117): no round misses it, and each round ends, unless more *)
(* processes than a list holds do harm (lines 75 and 96).                  *)
CreationSeen == \A p \in Pids : p \in fresh ~> (p \notin fresh \/ pc = "corrupt")

(* Line 126 says of a process that it was deleted: it is not in the new    *)
(* list, which has become the old one.                                     *)
DeletedAreGone == \A p \in deleted : pc = "scan" => p \notin ToSet(old_list)
=============================================================================
