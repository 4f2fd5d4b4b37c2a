------------------------------- MODULE Paging -------------------------------
(***************************************************************************)
(* The device of lab-1/mod/paging.c.  A process that maps it gets physical *)
(* pages one by one as it faults on them (demand paging) or all at once    *)
(* (prepaging).  The parts of a mapping that munmap or mprotect split share*)
(* one private_data, which counts them and lists the pages; the close of   *)
(* the last part frees both.                                               *)
(*                                                                         *)
(* The kernel runs mmap, open and close of a process one at a time and     *)
(* apart from its faults (mmap_sem), and clears the page table entries of  *)
(* an area before it closes it.  The faults of several threads of a        *)
(* process run at once, and so does everything of different processes.     *)
(*                                                                         *)
(* A definition with an underscored suffix is a slip the code could have   *)
(* had in place of the next one; it shows that a property would notice.    *)
(***************************************************************************)
EXTENDS Integers, FiniteSetsExt

CONSTANTS
  Procs, Threads,  \* processes and their threads
  proc,            \* the process of a thread
  Va,              \* page-sized pieces of an address space, an interval
  Frames,          \* physical pages
  Data,            \* memory for struct private_data
  NoFrame,         \* an empty page table entry
  MaxFaults,       \* bound on the pages alloc_number counts
  MaxToggles       \* bound on the writes to the parameter

ASSUME PagingAssumption ==
  /\ IsFiniteSet(Threads) /\ proc \in [Threads -> Procs]
  /\ Va \subseteq Int /\ IsFiniteSet(Va)
  /\ IsFiniteSet(Frames) /\ NoFrame \notin Frames
  /\ MaxFaults \in Nat /\ MaxToggles \in Nat

VARIABLES
  loaded,          \* the module's code is in memory
  intact,          \* no undefined behaviour has shown; the model ends
                   \* where it does
  demand_paging,   \* the module parameter
  toggles,         \* how often it was written
  vmas,            \* the areas that map the device
  page_table,      \* of each process
  taken,           \* frames from the page allocator; for whom and how are
                   \* history
  alloc_number, free_number,
  live,            \* private_data that is allocated
  reference,       \* reference of each private_data
  ptr_to_pagelist, \* the frames its list leads to
  ready,           \* private_data whose list was initialised
  fault,           \* what each thread does in paging_vma_fault
  closing          \* what each process does in paging_vma_close

module == <<loaded, intact, demand_paging, toggles>>
counts == <<alloc_number, free_number>>
memory == <<live, reference, ptr_to_pagelist, ready>>
vars   == <<module, vmas, page_table, taken, counts, memory, fault, closing>>

Areas == [proc : Procs, pages : SUBSET Va, data : Data]
AreasOf(p) == {v \in vmas : v.proc = p}
Covered(p) == UNION {v.pages : v \in AreasOf(p)}

Uses == [frame : Frames, for : Procs, how : {"fault", "block"}]
Allocated == {u.frame : u \in taken}
FreeFrames == Frames \ Allocated

AtUser     == [step |-> "user"]
NotClosing == [step |-> "no"]

Init ==
  /\ loaded = TRUE /\ intact = TRUE
  /\ demand_paging \in BOOLEAN
  /\ toggles = 0
  /\ vmas = {}
  /\ page_table = [p \in Procs |-> [a \in Va |-> NoFrame]]
  /\ taken = {} /\ alloc_number = 0 /\ free_number = 0
  /\ live = {}
  /\ reference = [d \in Data |-> 0]
  /\ ptr_to_pagelist = [d \in Data |-> {}]
  /\ ready = {}
  /\ fault = [t \in Threads |-> AtUser]
  /\ closing = [p \in Procs |-> NotClosing]

\* What a handler of the module needs to run at all.
Up == loaded /\ intact

\* mmap_sem of p can be taken for reading, and for writing.
ReadLockable(p)  == closing[p] = NotClosing
WriteLockable(p) ==
  ReadLockable(p) /\ \A t \in Threads : proc[t] = p => fault[t] = AtUser

-----------------------------------------------------------------------------
(***************************************************************************)
(* paging_mmap.  When it returns an error the kernel drops the area and    *)
(* its page table entries and does not close it.                           *)
(***************************************************************************)
Interval(S) == \E a, b \in Va : S = {x \in Va : a <= x /\ x <= b}
Unused(p) == {S \in SUBSET (Va \ Covered(p)) : S # {} /\ Interval(S)}

NewData(d) ==
  /\ live' = live \cup {d}
  /\ reference' = [reference EXCEPT ![d] = 1]
  /\ ptr_to_pagelist' = [ptr_to_pagelist EXCEPT ![d] = {}]

MmapOnDemand(p) ==
  /\ Up /\ WriteLockable(p) /\ demand_paging
  /\ \E S \in Unused(p), d \in Data \ live :
       /\ NewData(d)
       /\ ready' = ready \cup {d}
       /\ vmas' = vmas \cup {[proc |-> p, pages |-> S, data |-> d]}
  /\ UNCHANGED <<module, page_table, taken, counts, fault, closing>>

\* The loops that find the order: the least power of two that is enough.
BlockSize(n) == Min({b \in {2 ^ order : order \in 0 .. n} : b >= n})
Blocks(S) == {B \in SUBSET FreeFrames :
                Cardinality(B) = BlockSize(Cardinality(S))}

MmapPrepaged(p) ==
  /\ Up /\ WriteLockable(p) /\ ~demand_paging
  /\ \E S \in Unused(p), d \in Data \ live :
       /\ NewData(d)
       /\ \/ UNCHANGED <<vmas, page_table, taken>>  \* alloc_pages fails
          \/ \E B \in Blocks(S) :
               /\ taken' = taken \cup
                             [frame : B, for : {p}, how : {"block"}]
               /\ \/ UNCHANGED <<vmas, page_table>>  \* remap_pfn_range fails
                  \/ \E pte \in [S -> B] :
                       /\ \A a, b \in S : a # b => pte[a] # pte[b]
                       /\ page_table' = [page_table EXCEPT ![p] =
                            [a \in Va |-> IF a \in S THEN pte[a] ELSE @[a]]]
                       /\ vmas' = vmas \cup
                            {[proc |-> p, pages |-> S, data |-> d]}
  /\ ready' = ready
  /\ UNCHANGED <<module, counts, fault, closing>>

-----------------------------------------------------------------------------
(***************************************************************************)
(* paging_vma_fault and do_fault, by thread t.                             *)
(***************************************************************************)
DataAt(t) ==
  (CHOOSE v \in AreasOf(proc[t]) : fault[t].page \in v.pages).data

Fault(t) ==
  /\ Up /\ ReadLockable(proc[t]) /\ fault[t] = AtUser
  /\ alloc_number < MaxFaults
  /\ \E a \in Covered(proc[t]) :
       /\ page_table[proc[t]][a] = NoFrame
       /\ fault' = [fault EXCEPT ![t] = [step |-> "alloc", page |-> a]]
  /\ UNCHANGED <<module, vmas, page_table, taken, counts, memory, closing>>

AllocPage(t) ==
  /\ Up /\ fault[t].step = "alloc"
  /\ \/ \E f \in FreeFrames :
          /\ taken' = taken \cup
                {[frame |-> f, for |-> proc[t], how |-> "fault"]}
          /\ fault' = [fault EXCEPT ![t] =
               [step |-> "remap", page |-> @.page, frame |-> f]]
     \/ fault' = [fault EXCEPT ![t] = AtUser] /\ UNCHANGED taken
  /\ UNCHANGED <<module, vmas, page_table, counts, memory, closing>>

(***************************************************************************)
(* remap_pfn_range returns 0 or a negative error other than -1, so the     *)
(* test that follows never holds and a failure passes for success.  It     *)
(* stops the kernel when the entry is already in use.                      *)
(***************************************************************************)
Remap(t) ==
  LET p == proc[t]
      a == fault[t].page IN
  /\ Up /\ fault[t].step = "remap"
  /\ \/ /\ page_table[p][a] = NoFrame
        /\ page_table' \in
             {page_table, [page_table EXCEPT ![p][a] = fault[t].frame]}
        /\ UNCHANGED intact
     \/ page_table[p][a] # NoFrame /\ intact' = FALSE /\ UNCHANGED page_table
  /\ fault' = [fault EXCEPT ![t].step = "cell"]
  /\ UNCHANGED <<loaded, demand_paging, toggles, vmas, taken, counts, memory,
                 closing>>

\* The first half of list_add: the new cell is linked to the first cell.
NewCell(t) ==
  /\ Up /\ fault[t].step = "cell"
  /\ alloc_number' = alloc_number + 1
  /\ fault' = [fault EXCEPT ![t] =
       [step |-> "link", page |-> @.page, frame |-> @.frame,
        rest |-> ptr_to_pagelist[DataAt(t)]]]
  /\ UNCHANGED <<module, vmas, page_table, taken, free_number, memory,
                 closing>>

\* The second half: the list begins with the new cell.
ListAdd_Replaces(t) == {fault[t].frame}
ListAdd(t) == {fault[t].frame} \cup fault[t].rest

LinkCell(t) ==
  /\ Up /\ fault[t].step = "link"
  /\ ptr_to_pagelist' = [ptr_to_pagelist EXCEPT ![DataAt(t)] = ListAdd(t)]
  /\ fault' = [fault EXCEPT ![t] = AtUser]
  /\ UNCHANGED <<module, vmas, page_table, taken, counts, live, reference,
                 ready, closing>>

FaultStep(t) ==
  Fault(t) \/ AllocPage(t) \/ Remap(t) \/ NewCell(t) \/ LinkCell(t)

-----------------------------------------------------------------------------
(***************************************************************************)
(* An area is split in two and the new one opened: paging_vma_open.        *)
(***************************************************************************)
OpenCount_Kept(n) == n
OpenCount(n) == n + 1

Split(p) ==
  /\ Up /\ WriteLockable(p)
  /\ \E v \in AreasOf(p), a \in Va :
       LET low  == {x \in v.pages : x <= a}
           high == v.pages \ low IN
       /\ low # {} /\ high # {}
       /\ vmas' = (vmas \ {v}) \cup
                   {[v EXCEPT !.pages = low], [v EXCEPT !.pages = high]}
       /\ reference' = [reference EXCEPT ![v.data] = OpenCount(@)]
  /\ UNCHANGED <<module, page_table, taken, counts, live, ptr_to_pagelist,
                 ready, fault, closing>>

(***************************************************************************)
(* An area goes (munmap or exit) and is closed: paging_vma_close.          *)
(***************************************************************************)
Unmap(p) ==
  /\ Up /\ WriteLockable(p)
  /\ \E v \in AreasOf(p) :
       /\ vmas' = vmas \ {v}
       /\ page_table' = [page_table EXCEPT ![p] =
            [a \in Va |-> IF a \in v.pages THEN NoFrame ELSE @[a]]]
       /\ closing' = [closing EXCEPT ![p] = [step |-> "put", data |-> v.data]]
  /\ UNCHANGED <<module, taken, counts, memory, fault>>

EndsAtZero_Ignored(n) == TRUE
EndsAtZero(n) == n = 0

\* The list of a prepaged area was not initialised.
Put(p) ==
  LET d == closing[p].data IN
  /\ Up /\ closing[p].step = "put"
  /\ reference' = [reference EXCEPT ![d] = @ - 1]
  /\ IF EndsAtZero(reference[d] - 1)
       THEN /\ closing' = [closing EXCEPT ![p].step =
                             IF demand_paging THEN "free" ELSE "block"]
            /\ intact' = (demand_paging => d \in ready)
       ELSE closing' = [closing EXCEPT ![p] = NotClosing] /\ UNCHANGED intact
  /\ UNCHANGED <<loaded, demand_paging, toggles, vmas, page_table, taken,
                 counts, live, ptr_to_pagelist, ready, fault>>

\* One round of the loop over the list.
CountFreed_Missing(n) == n
CountFreed(n) == n + 1

FreeCell(p) ==
  LET d == closing[p].data IN
  /\ Up /\ closing[p].step \in {"free", "again"}
  /\ \E f \in ptr_to_pagelist[d] :
       /\ taken' = {u \in taken : u.frame # f}
       /\ ptr_to_pagelist' = [ptr_to_pagelist EXCEPT ![d] = @ \ {f}]
  /\ free_number' = CountFreed(free_number)
  /\ closing' = [closing EXCEPT ![p].step = "again"]
  /\ UNCHANGED <<module, vmas, page_table, alloc_number, live, reference,
                 ready, fault>>

(***************************************************************************)
(* The loop reads the next cell from the one it has just freed, and        *)
(* list_del writes to two freed cells: another allocation may have taken   *)
(* them.                                                                   *)
(***************************************************************************)
FreedCellReused(p) ==
  /\ Up /\ closing[p].step = "again"
  /\ intact' = FALSE
  /\ UNCHANGED <<loaded, demand_paging, toggles, vmas, page_table, taken,
                 counts, memory, fault, closing>>

(***************************************************************************)
(* free_pages is given an address of the process, to which no page of the  *)
(* allocator belongs: nothing is freed, or memory is corrupted.            *)
(***************************************************************************)
FreeBlock(p) ==
  /\ Up /\ closing[p].step = "block"
  /\ intact' \in BOOLEAN
  /\ closing' = [closing EXCEPT ![p].step = "done"]
  /\ UNCHANGED <<loaded, demand_paging, toggles, vmas, page_table, taken,
                 counts, memory, fault>>

KfreeData(p) ==
  LET d == closing[p].data IN
  /\ Up
  /\ \/ closing[p].step = "done"
     \/ closing[p].step \in {"free", "again"} /\ ptr_to_pagelist[d] = {}
  /\ live' = live \ {d}
  /\ ready' = ready \ {d}
  /\ ptr_to_pagelist' = [ptr_to_pagelist EXCEPT ![d] = {}]
  /\ closing' = [closing EXCEPT ![p] = NotClosing]
  /\ UNCHANGED <<module, vmas, page_table, taken, counts, reference, fault>>

CloseStep(p) == Put(p) \/ FreeCell(p) \/ FreedCellReused(p) \/ FreeBlock(p)
                \/ KfreeData(p)

-----------------------------------------------------------------------------
(***************************************************************************)
(* The parameter is writable, and the module can be removed at any time:   *)
(* dev_ops names no owner.  A handler that then runs has no code.          *)
(***************************************************************************)
SetParameter ==
  /\ Up /\ toggles < MaxToggles
  /\ demand_paging' = ~demand_paging
  /\ toggles' = toggles + 1
  /\ UNCHANGED <<loaded, intact, vmas, page_table, taken, counts, memory,
                 fault, closing>>

RemoveModule ==
  /\ Up
  /\ loaded' = FALSE
  /\ UNCHANGED <<intact, demand_paging, toggles, vmas, page_table, taken,
                 counts, memory, fault, closing>>

InUse == \/ vmas # {}
         \/ \E p \in Procs : closing[p] # NotClosing

RunRemovedCode ==
  /\ ~loaded /\ intact /\ InUse
  /\ intact' = FALSE
  /\ UNCHANGED <<loaded, demand_paging, toggles, vmas, page_table, taken,
                 counts, memory, fault, closing>>

Next ==
  \/ \E p \in Procs : \/ MmapOnDemand(p) \/ MmapPrepaged(p)
                      \/ Split(p) \/ Unmap(p) \/ CloseStep(p)
  \/ \E t \in Threads : FaultStep(t)
  \/ SetParameter \/ RemoveModule \/ RunRemovedCode

Spec == Init /\ [][Next]_vars
-----------------------------------------------------------------------------
(***************************************************************************)
(* Properties.  Once memory is not intact nothing can be said.             *)
(***************************************************************************)
InHand(f) == \E t \in Threads :
  fault[t].step \in {"remap", "cell", "link"} /\ fault[t].frame = f

FaultStates ==
  {AtUser} \cup [step : {"alloc"}, page : Va]
    \cup [step : {"remap", "cell"}, page : Va, frame : Frames]
    \cup [step : {"link"}, page : Va, frame : Frames, rest : SUBSET Frames]

ClosingStates ==
  {NotClosing}
    \cup [step : {"put", "free", "again", "block", "done"}, data : Data]

\* Every variable keeps to its range.
TypeOK ==
  /\ loaded \in BOOLEAN /\ intact \in BOOLEAN /\ demand_paging \in BOOLEAN
  /\ toggles \in 0 .. MaxToggles
  /\ vmas \subseteq Areas
  /\ page_table \in [Procs -> [Va -> Frames \cup {NoFrame}]]
  /\ taken \subseteq Uses
  /\ alloc_number \in Nat /\ free_number \in Nat
  /\ live \subseteq Data /\ ready \subseteq live
  /\ reference \in [Data -> Nat]
  /\ ptr_to_pagelist \in [Data -> SUBSET Frames]
  /\ fault \in [Threads -> FaultStates]
  /\ closing \in [Procs -> ClosingStates]

\* A page a process can reach is allocated, and nobody else can reach it:
\* the last close (paging.c:95-104) is the only one that gives pages back,
\* and no fault hands out (41-48) what is still mapped.
MappedPagesAreOwn ==
  intact =>
    \A p, q \in Procs, a, b \in Va :
      page_table[p][a] # NoFrame =>
        /\ page_table[p][a] \in Allocated
        /\ page_table[p][a] = page_table[q][b] => p = q /\ a = b

\* The count of paging.c:85 and 95 is the number of areas that share the
\* data, one that is being closed included, and the data outlives them.
Sharing(d) == {v \in vmas : v.data = d}
ReferenceIsExact ==
  intact =>
    \A v \in vmas :
      /\ v.data \in live
      /\ reference[v.data] = Cardinality(Sharing(v.data))
           + Cardinality({p \in Procs :
               closing[p] # NotClosing /\ closing[p].data = v.data})

\* Demand paging (paging.c:53-58, 97-105) loses no page of a process with
\* one thread, splits and partial unmaps included, while nobody writes the
\* parameter: a page is in the hands of a fault or on a list that the
\* last close will go through.
Alone(p) == Cardinality({t \in Threads : proc[t] = p}) = 1
WillBeFreed(f) ==
  \E d \in live :
    /\ f \in ptr_to_pagelist[d]
    /\ Sharing(d) # {} \/ \E p \in Procs :
                           closing[p] # NotClosing /\ closing[p].data = d
NoPageLost ==
  intact /\ toggles = 0 =>
    \A u \in taken : u.how = "fault" /\ Alone(u.for) =>
      InHand(u.frame) \/ WillBeFreed(u.frame)

\* The numbers printed on removal (paging.c:238-239) differ by the pages
\* that demand paging has lost, when the device is not in use.
Idle == ~InUse /\ \A t \in Threads : fault[t] = AtUser
RemovalTellsLoss ==
  intact /\ Idle =>
    alloc_number - free_number = Cardinality({u \in taken : u.how = "fault"})
=============================================================================
