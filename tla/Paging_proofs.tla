---------------------------- MODULE Paging_proofs ----------------------------
(***************************************************************************)
(* The paging device, for any processes, threads, areas, pages and bounds: *)
(* who owns a page, how the references are counted, and what is lost.      *)
(***************************************************************************)
EXTENDS Paging, FiniteSetTheorems, TLAPS

-----------------------------------------------------------------------------
(* The inductive invariant. *)

Busy(t)       == fault[t] # AtUser
Holding(t)    == fault[t].step \in {"remap", "cell", "link"}
Holds(t, f)   == Holding(t) /\ fault[t].frame = f
Closing(p, d) == closing[p] # NotClosing /\ closing[p].data = d

(* The area of process p at page a has the data d. *)
Has(p, a, d) == \E v \in vmas : v.proc = p /\ a \in v.pages /\ v.data = d

(* Page f is on the list of d, or will be back on it when the thread that  *)
(* read the list writes it.                                                *)
Linked(d, f) ==
  \/ f \in ptr_to_pagelist[d]
  \/ \E t \in Threads : /\ fault[t].step = "link" /\ f \in fault[t].rest
                        /\ Has(proc[t], fault[t].page, d)

(* The areas of a process do not overlap, and data is of one process.      *)
AreasOK ==
  /\ \A v \in vmas : v.pages # {} /\ v.data \in live
  /\ \A v, w \in vmas : v.proc = w.proc /\ v # w => v.pages \cap w.pages = {}
  /\ \A v, w \in vmas : v.data = w.data => v.proc = w.proc
  /\ \A d \in Data : IsFiniteSet(Sharing(d))

(* A fault holds the lock of its process, a close excludes faults.         *)
LockOK ==
  \A t \in Threads : Busy(t) => /\ closing[proc[t]] = NotClosing
                                /\ fault[t].page \in Covered(proc[t])

(* Data is closed by its process, and beyond the count by the last area.   *)
ClosingOK ==
  \A p \in Procs, d \in Data : Closing(p, d) =>
    /\ d \in live
    /\ \A v \in Sharing(d) : v.proc = p
    /\ \A q \in Procs : Closing(q, d) => q = p
    /\ closing[p].step # "put" => Sharing(d) = {}

CountOK ==
  \A d \in Data :
    Sharing(d) # {} \/ (\E p \in Procs : Closing(p, d) /\ closing[p].step = "put") =>
      reference[d] = Cardinality(Sharing(d))
                       + IF \E p \in Procs : Closing(p, d) THEN 1 ELSE 0

(* A frame is allocated once. *)
Faulted == {u \in taken : u.how = "fault"}
TakenOK ==
  /\ \A u, w \in taken : u.frame = w.frame => u = w
  /\ IsFiniteSet(Faulted)

(* A page that a process can reach belongs to an area.                     *)
MappedOK ==
  \A p \in Procs, a \in Va, f \in Frames : page_table[p][a] = f =>
    /\ a \in Covered(p) /\ f \in Allocated
    /\ \A q \in Procs, b \in Va : page_table[q][b] = f => p = q /\ a = b

(* A page on a list is from a fault, is on no other list and can only be   *)
(* reached in the areas that share the list.                               *)
ListsOK ==
  \A d \in Data, f \in Frames : Linked(d, f) =>
    /\ d \in live
    /\ \A e \in Data : Linked(e, f) => e = d
    /\ \A p \in Procs, a \in Va : page_table[p][a] = f => Has(p, a, d)
    /\ \E u \in taken : /\ u.frame = f /\ u.how = "fault"
                        /\ \A v \in Sharing(d) : v.proc = u.for

(* So is a page in the hands of a fault, to which nobody else has access.  *)
HandsOK ==
  \A t \in Threads, f \in Frames : Holds(t, f) =>
    /\ [frame |-> f, for |-> proc[t], how |-> "fault"] \in taken
    /\ \A d \in Data : ~Linked(d, f)
    /\ \A s \in Threads : Holds(s, f) => s = t
    /\ \A p \in Procs, a \in Va : page_table[p][a] = f =>
         fault[t].step # "remap" /\ p = proc[t] /\ a = fault[t].page

(* The pages counted are those given back and those still taken, but for   *)
(* the faults on their way to count theirs.                                *)
Uncounted == {t \in Threads : fault[t].step \in {"remap", "cell"}}
LossOK ==
  alloc_number + Cardinality(Uncounted) = free_number + Cardinality(Faulted)

(* While nobody writes the parameter: without demand paging nobody faults, *)
(* and with it the last close goes through the list.                       *)
ModeOK ==
  toggles = 0 =>
    IF demand_paging
      THEN \A p \in Procs : closing[p].step \notin {"block", "done"}
      ELSE /\ \A t \in Threads : ~Busy(t)
           /\ Faulted = {}
           /\ \A p \in Procs : \A a \in Covered(p) : page_table[p][a] # NoFrame

(* The only thread of a process writes back the list it read. *)
AloneOK ==
  \A t \in Threads, d \in Data :
    Alone(proc[t]) /\ fault[t].step = "link" /\ Has(proc[t], fault[t].page, d) =>
      fault[t].rest = ptr_to_pagelist[d]

Good == /\ AreasOK /\ LockOK /\ ClosingOK /\ CountOK
        /\ TakenOK /\ MappedOK /\ ListsOK /\ HandsOK
        /\ LossOK /\ ModeOK /\ AloneOK /\ NoPageLost

IInv == TypeOK /\ (intact => Good)

-----------------------------------------------------------------------------
(* Views of the records, for the proofs below. *)

LEMMA FaultShape ==
  ASSUME TypeOK, NEW t \in Threads
  PROVE  /\ fault[t].step \in {"user", "alloc", "remap", "cell", "link"}
         /\ Busy(t) <=> fault[t].step # "user"
         /\ fault[t] = AtUser <=> fault[t].step = "user"
         /\ Busy(t) => fault[t].page \in Va
         /\ Holding(t) => Busy(t) /\ fault[t].frame \in Frames
         /\ fault[t].step = "link" => fault[t].rest \subseteq Frames
         /\ proc[t] \in Procs
<1>1. fault[t] \in FaultStates
  BY DEF TypeOK
<1>2. proc[t] \in Procs
  BY PagingAssumption
<1> QED BY <1>1, <1>2 DEF FaultStates, AtUser, Busy, Holding

LEMMA ClosingShape ==
  ASSUME TypeOK, NEW p \in Procs
  PROVE  /\ closing[p].step \in {"no", "put", "free", "again", "block", "done"}
         /\ closing[p] # NotClosing <=> closing[p].step # "no"
         /\ closing[p] # NotClosing =>
              closing[p].data \in Data /\ Closing(p, closing[p].data)
<1>1. closing[p] \in ClosingStates
  BY DEF TypeOK
<1> QED BY <1>1 DEF ClosingStates, NotClosing, Closing

LEMMA AreaShape ==
  ASSUME TypeOK, NEW v \in vmas
  PROVE  v.proc \in Procs /\ v.pages \subseteq Va /\ v.data \in Data
  BY DEF TypeOK, Areas

(* The data of a faulting thread is that of the only area at its page.     *)
LEMMA DataAtIs ==
  ASSUME TypeOK, AreasOK, LockOK, NEW t \in Threads, Busy(t)
  PROVE  /\ DataAt(t) \in Data
         /\ \A d \in Data : Has(proc[t], fault[t].page, d) <=> d = DataAt(t)
<1>1. PICK v \in AreasOf(proc[t]) : fault[t].page \in v.pages
  BY DEF LockOK, Covered
<1>2. v \in vmas /\ v.proc = proc[t] /\ v.data \in Data
  BY <1>1, AreaShape DEF AreasOf
<1>3. \A w \in AreasOf(proc[t]) : fault[t].page \in w.pages => w = v
  BY <1>1, <1>2 DEF AreasOf, AreasOK
<1>4. DataAt(t) = v.data
  BY <1>1, <1>3 DEF DataAt
<1> QED BY <1>1, <1>2, <1>3, <1>4 DEF Has, AreasOf

LEMMA InitIsGood == Init => IInv
<1> SUFFICES ASSUME Init PROVE IInv
  OBVIOUS
<1> USE PagingAssumption DEF Init
<1>1. TypeOK
  BY DEF TypeOK, Areas, Uses, FaultStates, ClosingStates
<1>2. AreasOK /\ LockOK /\ ClosingOK /\ TakenOK
  BY FS_EmptySet DEF AreasOK, LockOK, ClosingOK, TakenOK, Faulted, Sharing, Busy, Closing
<1>3. CountOK /\ ModeOK /\ AloneOK /\ NoPageLost
  BY DEF CountOK, ModeOK, AloneOK, NoPageLost, Sharing, Closing, Busy,
         NotClosing, AtUser, Faulted, Covered, AreasOf
<1>4. MappedOK /\ ListsOK /\ HandsOK
  BY DEF MappedOK, ListsOK, HandsOK, Linked, Holding, Holds, AtUser
<1>5. LossOK
  <2>1. Uncounted = {} /\ Faulted = {}
    BY DEF Uncounted, Faulted, AtUser
  <2> QED BY <2>1, FS_EmptySet DEF LossOK
<1> QED BY <1>1, <1>2, <1>3, <1>4, <1>5 DEF IInv, Good

-----------------------------------------------------------------------------
(* Types. *)

LEMMA MmapKeepsType ==
  ASSUME TypeOK, NEW p \in Procs, MmapOnDemand(p) \/ MmapPrepaged(p)
  PROVE  TypeOK'
<1>1. CASE MmapOnDemand(p)
  <2>1. PICK S \in Unused(p), d \in Data \ live :
          /\ NewData(d) /\ ready' = ready \cup {d}
          /\ vmas' = vmas \cup {[proc |-> p, pages |-> S, data |-> d]}
    BY <1>1 DEF MmapOnDemand
  <2>2. S \subseteq Va
    BY DEF Unused
  <2>3. [proc |-> p, pages |-> S, data |-> d] \in Areas
    BY <2>2 DEF Areas
  <2> QED BY <1>1, <2>1, <2>3 DEF MmapOnDemand, TypeOK, NewData, module, counts
<1>2. CASE MmapPrepaged(p)
  <2>1. PICK S \in Unused(p), d \in Data \ live :
          /\ NewData(d)
          /\ \/ UNCHANGED <<vmas, page_table, taken>>
             \/ \E B \in Blocks(S) :
                  /\ taken' = taken \cup [frame : B, for : {p}, how : {"block"}]
                  /\ \/ UNCHANGED <<vmas, page_table>>
                     \/ \E pte \in [S -> B] :
                          /\ page_table' = [page_table EXCEPT ![p] =
                               [a \in Va |-> IF a \in S THEN pte[a] ELSE @[a]]]
                          /\ vmas' = vmas \cup {[proc |-> p, pages |-> S, data |-> d]}
    BY <1>2 DEF MmapPrepaged
  <2>2. [proc |-> p, pages |-> S, data |-> d] \in Areas
    BY DEF Areas, Unused
  <2>3. vmas' \subseteq Areas
    BY <2>1, <2>2 DEF TypeOK
  <2>4. \A B \in Blocks(S) : B \subseteq Frames
    BY DEF Blocks, FreeFrames
  <2>5. taken' \subseteq Uses
    BY <2>1, <2>4 DEF TypeOK, Uses
  <2>6. page_table' \in [Procs -> [Va -> Frames \cup {NoFrame}]]
    BY <2>1, <2>4, SMTT(30) DEF TypeOK
  <2> QED BY <1>2, <2>1, <2>3, <2>5, <2>6
          DEF MmapPrepaged, TypeOK, NewData, module, counts
<1> QED BY <1>1, <1>2

LEMMA FaultKeepsType ==
  ASSUME TypeOK, AreasOK, LockOK, NEW t \in Threads, FaultStep(t)
  PROVE  TypeOK'
<1> USE DEF module, counts, memory
<1>1. CASE Fault(t)
  <2>1. PICK a \in Covered(proc[t]) :
          fault' = [fault EXCEPT ![t] = [step |-> "alloc", page |-> a]]
    BY <1>1 DEF Fault
  <2>2. a \in Va
    BY AreaShape DEF Covered, AreasOf
  <2>3. fault' \in [Threads -> FaultStates]
    BY <2>1, <2>2 DEF TypeOK, FaultStates
  <2> QED BY <1>1, <2>3 DEF Fault, TypeOK
<1>2. CASE AllocPage(t)
  <2>1. fault[t].page \in Va /\ proc[t] \in Procs
    BY <1>2, FaultShape DEF AllocPage
  <2>2. fault' \in [Threads -> FaultStates]
    BY <1>2, <2>1 DEF AllocPage, TypeOK, FaultStates, FreeFrames
  <2>3. taken' \subseteq Uses
    BY <1>2, <2>1 DEF AllocPage, TypeOK, Uses, FreeFrames
  <2> QED BY <1>2, <2>2, <2>3 DEF AllocPage, TypeOK
<1>3. CASE Remap(t)
  <2>1. fault[t] \in [step : {"remap", "cell"}, page : Va, frame : Frames]
    BY <1>3 DEF Remap, TypeOK, FaultStates, AtUser
  <2>2. [fault[t] EXCEPT !.step = "cell"] \in
          [step : {"remap", "cell"}, page : Va, frame : Frames]
    BY <2>1
  <2>3. fault' \in [Threads -> FaultStates]
    BY <1>3, <2>2 DEF Remap, TypeOK, FaultStates
  <2>4. page_table' \in [Procs -> [Va -> Frames \cup {NoFrame}]]
    <3>1. fault[t].page \in Va /\ fault[t].frame \in Frames /\ proc[t] \in Procs
      BY <2>1, FaultShape
    <3> DEFINE row == [page_table[proc[t]] EXCEPT ![fault[t].page] = fault[t].frame]
    <3>2. row \in [Va -> Frames \cup {NoFrame}]
      BY <3>1 DEF TypeOK
    <3>3. page_table' \in {page_table, [page_table EXCEPT ![proc[t]] = row]}
      BY <1>3 DEF Remap
    <3> QED BY <3>1, <3>2, <3>3 DEF TypeOK
  <2>5. intact' \in BOOLEAN
    BY <1>3 DEF Remap, TypeOK
  <2> QED BY <1>3, <2>3, <2>4, <2>5 DEF Remap, TypeOK
<1>4. CASE NewCell(t)
  <2>1. fault[t].page \in Va /\ fault[t].frame \in Frames /\ DataAt(t) \in Data
    BY <1>4, FaultShape, DataAtIs DEF NewCell, Holding
  <2>2. ptr_to_pagelist[DataAt(t)] \subseteq Frames
    BY <2>1 DEF TypeOK
  <2>3. [step |-> "link", page |-> fault[t].page, frame |-> fault[t].frame,
         rest |-> ptr_to_pagelist[DataAt(t)]] \in FaultStates
    BY <2>1, <2>2 DEF FaultStates
  <2>4. fault' \in [Threads -> FaultStates]
    BY <1>4, <2>3 DEF NewCell, TypeOK
  <2> QED BY <1>4, <2>4 DEF NewCell, TypeOK
<1>5. CASE LinkCell(t)
  <2>1. ListAdd(t) \subseteq Frames
    BY <1>5, FaultShape DEF LinkCell, ListAdd, Holding
  <2>2. fault' \in [Threads -> FaultStates]
    BY <1>5 DEF LinkCell, TypeOK, FaultStates
  <2> QED BY <1>5, <2>1, <2>2 DEF LinkCell, TypeOK
<1> QED BY <1>1, <1>2, <1>3, <1>4, <1>5 DEF FaultStep

LEMMA CloseKeepsType ==
  ASSUME TypeOK, CountOK, AreasOK, NEW p \in Procs, CloseStep(p)
  PROVE  TypeOK'
<1> USE DEF module, counts, memory
<1>0. /\ closing[p] # NotClosing /\ closing[p].data \in Data
      /\ \A s \in {"put", "free", "again", "block", "done"} :
           [closing[p] EXCEPT !.step = s] \in ClosingStates
  BY ClosingShape DEF CloseStep, Put, FreeCell, FreedCellReused, FreeBlock,
     KfreeData, TypeOK, ClosingStates, NotClosing
<1>1. CASE Put(p)
  <2>1. reference[closing[p].data] - 1 \in Nat
    <3>1. Closing(p, closing[p].data) /\ closing[p].step = "put"
      BY <1>0, <1>1 DEF Put, Closing
    <3>2. reference[closing[p].data] = Cardinality(Sharing(closing[p].data)) + 1
      BY <1>0, <3>1 DEF CountOK
    <3> QED BY <1>0, <3>2, FS_CardinalityType DEF AreasOK
  <2>2. closing' \in [Procs -> ClosingStates]
    BY <1>0, <1>1, SMTT(30) DEF Put, TypeOK, ClosingStates
  <2>3. intact' \in BOOLEAN
    BY <1>1 DEF Put, TypeOK
  <2>4. reference' \in [Data -> Nat]
    BY <1>0, <1>1, <2>1 DEF Put, TypeOK
  <2> QED BY <1>1, <2>2, <2>3, <2>4 DEF Put, TypeOK
<1>2. CASE FreeCell(p)
  <2>1. closing' \in [Procs -> ClosingStates]
    BY <1>0, <1>2 DEF FreeCell, TypeOK
  <2>2. free_number' \in Nat
    BY <1>2 DEF FreeCell, TypeOK, CountFreed
  <2>3. taken' \subseteq Uses /\ ptr_to_pagelist' \in [Data -> SUBSET Frames]
    BY <1>0, <1>2 DEF FreeCell, TypeOK
  <2> QED BY <1>2, <2>1, <2>2, <2>3 DEF FreeCell, TypeOK
<1>3. CASE FreedCellReused(p)
  BY <1>3 DEF FreedCellReused, TypeOK
<1>4. CASE FreeBlock(p)
  <2>1. closing' \in [Procs -> ClosingStates]
    BY <1>0, <1>4 DEF FreeBlock, TypeOK
  <2> QED BY <1>4, <2>1 DEF FreeBlock, TypeOK
<1>5. CASE KfreeData(p)
  <2>1. closing' \in [Procs -> ClosingStates]
    BY <1>5 DEF KfreeData, TypeOK, ClosingStates
  <2> QED BY <1>0, <1>5, <2>1 DEF KfreeData, TypeOK
<1> QED BY <1>1, <1>2, <1>3, <1>4, <1>5 DEF CloseStep

LEMMA AreasKeepType ==
  ASSUME TypeOK, NEW p \in Procs, Split(p) \/ Unmap(p)
  PROVE  TypeOK'
<1> USE DEF module, counts, memory
<1>1. CASE Split(p)
  <2> DEFINE Low(v, a)  == {x \in v.pages : x <= a}
             High(v, a) == v.pages \ Low(v, a)
  <2>1. PICK v \in AreasOf(p), a \in Va :
          /\ vmas' = (vmas \ {v}) \cup
               {[v EXCEPT !.pages = Low(v, a)], [v EXCEPT !.pages = High(v, a)]}
          /\ reference' = [reference EXCEPT ![v.data] = OpenCount(@)]
    BY <1>1 DEF Split
  <2>2. v \in Areas /\ v \in vmas
    BY DEF AreasOf, TypeOK
  <2>3. /\ [v EXCEPT !.pages = Low(v, a)] \in Areas
        /\ [v EXCEPT !.pages = High(v, a)] \in Areas
    BY <2>2 DEF Areas
  <2>4. reference' \in [Data -> Nat]
    BY <2>1, <2>2 DEF TypeOK, OpenCount, Areas
  <2>5. vmas' \subseteq Areas
    BY <2>1, <2>3 DEF TypeOK
  <2> QED BY <1>1, <2>4, <2>5 DEF Split, TypeOK
<1>2. CASE Unmap(p)
  <2>1. PICK v \in AreasOf(p) :
          /\ vmas' = vmas \ {v}
          /\ page_table' = [page_table EXCEPT ![p] =
               [a \in Va |-> IF a \in v.pages THEN NoFrame ELSE @[a]]]
          /\ closing' = [closing EXCEPT ![p] = [step |-> "put", data |-> v.data]]
    BY <1>2 DEF Unmap
  <2>2. v.data \in Data
    BY AreaShape DEF AreasOf
  <2>3. closing' \in [Procs -> ClosingStates]
    BY <2>1, <2>2 DEF TypeOK, ClosingStates
  <2>4. page_table' \in [Procs -> [Va -> Frames \cup {NoFrame}]]
    BY <2>1 DEF TypeOK
  <2> QED BY <1>2, <2>1, <2>3, <2>4 DEF Unmap, TypeOK
<1> QED BY <1>1, <1>2

LEMMA TypeKeeps ==
  ASSUME IInv, [Next]_vars
  PROVE  TypeOK'
<1> USE DEF module, counts, memory
<1>1. CASE UNCHANGED vars
  BY <1>1 DEF IInv, vars, TypeOK
<1>2. CASE Next
  <2>1. TypeOK /\ Good
    BY <1>2, PagingAssumption DEF IInv, Next, MmapOnDemand, MmapPrepaged, Split, Unmap, CloseStep,
       Put, FreeCell, FreedCellReused, FreeBlock, KfreeData, FaultStep, Fault,
       AllocPage, Remap, NewCell, LinkCell, SetParameter, RemoveModule,
       RunRemovedCode, Up
  <2>2. CASE SetParameter \/ RemoveModule \/ RunRemovedCode
    <3>1. /\ UNCHANGED <<vmas, page_table, taken, counts, memory, fault, closing>>
          /\ loaded' \in BOOLEAN /\ intact' \in BOOLEAN /\ demand_paging' \in BOOLEAN
      BY <2>1, <2>2, Zenon DEF SetParameter, RemoveModule, RunRemovedCode, TypeOK
    <3>2. toggles' \in 0 .. MaxToggles
      BY <2>1, <2>2, PagingAssumption, SMT
         DEF SetParameter, RemoveModule, RunRemovedCode, TypeOK
    <3> QED BY <2>1, <3>1, <3>2 DEF TypeOK
  <2> QED BY <1>2, <2>1, <2>2, MmapKeepsType, FaultKeepsType, CloseKeepsType,
             AreasKeepType DEF Next, Good
<1> QED BY <1>1, <1>2

-----------------------------------------------------------------------------
(* Areas, locks and references. *)

Shares == AreasOK /\ LockOK /\ ClosingOK /\ CountOK

(* Steps that leave the areas, the references and the closes alone.        *)
LEMMA SharesStay ==
  ASSUME Shares, UNCHANGED <<vmas, live, reference, closing>>,
         \A t \in Threads : Busy(t)' => \/ Busy(t) /\ fault'[t].page = fault[t].page
                                        \/ /\ closing[proc[t]] = NotClosing
                                           /\ fault'[t].page \in Covered(proc[t])
  PROVE  Shares'
<1>1. AreasOK'
  BY DEF Shares, AreasOK, Sharing
<1>2. LockOK'
  BY DEF Shares, LockOK, Covered, AreasOf
<1>3. ClosingOK'
  BY DEF Shares, ClosingOK, Sharing, Closing
<1>4. CountOK'
  BY DEF Shares, CountOK, Sharing, Closing
<1> QED BY <1>1, <1>2, <1>3, <1>4 DEF Shares

LEMMA FaultKeepsShares ==
  ASSUME TypeOK, Shares, NEW t \in Threads, FaultStep(t)
  PROVE  Shares'
<1>1. UNCHANGED <<vmas, live, reference, closing>>
  BY DEF FaultStep, Fault, AllocPage, Remap, NewCell, LinkCell, memory
<1>2. \A s \in Threads \ {t} : fault'[s] = fault[s]
  BY DEF FaultStep, Fault, AllocPage, Remap, NewCell, LinkCell, TypeOK
<1>3. Busy(t)' => \/ Busy(t) /\ fault'[t].page = fault[t].page
                  \/ /\ closing[proc[t]] = NotClosing
                     /\ fault'[t].page \in Covered(proc[t])
  <2>1. CASE Fault(t)
    <3>1. PICK a \in Covered(proc[t]) : fault'[t] = [step |-> "alloc", page |-> a]
      BY <2>1 DEF Fault, TypeOK
    <3> QED BY <2>1, <3>1 DEF Fault, ReadLockable
  <2>2. CASE AllocPage(t)
    BY <2>2, FaultShape DEF AllocPage, TypeOK, Busy
  <2>3. CASE Remap(t)
    <3>1. fault'[t] = [fault[t] EXCEPT !.step = "cell"]
      BY <2>3 DEF Remap, TypeOK
    <3>2. fault[t] \in [step : {"remap", "cell"}, page : Va, frame : Frames]
      BY <2>3 DEF Remap, TypeOK, FaultStates, AtUser
    <3>3. Busy(t)
      BY <2>3, FaultShape DEF Remap
    <3> QED BY <3>1, <3>2, <3>3
  <2>4. CASE NewCell(t)
    BY <2>4, FaultShape DEF NewCell, TypeOK, Busy
  <2>5. CASE LinkCell(t)
    BY <2>5 DEF LinkCell, TypeOK, Busy
  <2> QED BY <2>1, <2>2, <2>3, <2>4, <2>5 DEF FaultStep
<1>4. \A s \in Threads \ {t} : Busy(s)' => Busy(s) /\ fault'[s].page = fault[s].page
  BY <1>2 DEF Busy
<1> QED BY <1>1, <1>3, <1>4, SharesStay

(* The new area has data and pages that no other has. *)
LEMMA MmapKeepsShares ==
  ASSUME TypeOK, Shares, NEW p \in Procs, MmapOnDemand(p) \/ MmapPrepaged(p)
  PROVE  Shares'
<1>1. PICK S \in Unused(p), d \in Data \ live :
        /\ NewData(d)
        /\ vmas' \in {vmas, vmas \cup {[proc |-> p, pages |-> S, data |-> d]}}
  BY DEF MmapOnDemand, MmapPrepaged
<1> DEFINE new == [proc |-> p, pages |-> S, data |-> d]
<1>2. UNCHANGED <<fault, closing>> /\ live' = live \cup {d}
  BY <1>1 DEF MmapOnDemand, MmapPrepaged, NewData
<1>3. S # {} /\ S \cap Covered(p) = {} /\ new.proc = p /\ new.pages = S /\ new.data = d
  BY DEF Unused
<1>4. /\ \A v \in vmas : v.data # d
      /\ \A q \in Procs : ~Closing(q, d)
  BY DEF Shares, AreasOK, ClosingOK
<1>5. \A v \in vmas : v.proc = p => v.pages \cap S = {}
  BY <1>3 DEF Covered, AreasOf
<1>6. /\ \A e \in Data \ {d} : Sharing(e)' = Sharing(e)
      /\ Sharing(d) = {} /\ Sharing(d)' \in {{}, {new}}
  BY <1>1, <1>3, <1>4 DEF Sharing
<1>7. AreasOK'
  <2>1. \A e \in Data : IsFiniteSet(Sharing(e)')
    <3>0. IsFiniteSet({}) /\ IsFiniteSet({new})
      BY FS_EmptySet, FS_Singleton
    <3>1. IsFiniteSet(Sharing(d)')
      BY <1>6, <3>0
    <3>2. \A e \in Data \ {d} : IsFiniteSet(Sharing(e)')
      BY <1>6 DEF Shares, AreasOK
    <3> QED BY <3>1, <3>2
  <2>2. \A v \in vmas' : v \in vmas \/ v = new
    BY <1>1
  <2>3. \A v \in vmas' : v.pages # {} /\ v.data \in live'
    BY <2>2, <1>2, <1>3 DEF Shares, AreasOK
  <2>4. \A v, w \in vmas' : v.proc = w.proc /\ v # w => v.pages \cap w.pages = {}
    BY <2>2, <1>3, <1>5 DEF Shares, AreasOK
  <2>5. \A v, w \in vmas' : v.data = w.data => v.proc = w.proc
    BY <2>2, <1>3, <1>4 DEF Shares, AreasOK
  <2> QED BY <2>1, <2>3, <2>4, <2>5 DEF AreasOK
<1>8. LockOK'
  <2>1. \A q \in Procs : Covered(q) \subseteq Covered(q)'
    BY <1>1 DEF Covered, AreasOf
  <2> QED BY <1>2, <2>1, PagingAssumption DEF Shares, LockOK, Busy
<1>9. ClosingOK'
  BY <1>2, <1>4, <1>6 DEF Shares, ClosingOK, Closing
<1>10. CountOK'
  <2>1. \A e \in Data \ {d} : reference'[e] = reference[e]
    BY <1>1 DEF NewData, TypeOK
  <2>2. reference'[d] = 1
    BY <1>1 DEF NewData, TypeOK
  <2>3. \A q \in Procs, e \in Data : Closing(q, e)' = Closing(q, e)
    BY <1>2 DEF Closing
  <2>4. ASSUME NEW e \in Data \ {d},
               \/ Sharing(e)' # {}
               \/ \E q \in Procs : Closing(q, e)' /\ closing'[q].step = "put"
        PROVE  reference'[e] = Cardinality(Sharing(e)')
                                 + IF \E q \in Procs : Closing(q, e)' THEN 1 ELSE 0
    BY <2>1, <2>3, <2>4, <1>2, <1>6 DEF Shares, CountOK
  <2>5. Sharing(d)' # {} => reference'[d] = Cardinality(Sharing(d)')
    BY <2>2, <1>6, FS_Singleton
  <2>6. \A q \in Procs : ~Closing(q, d)'
    BY <2>3, <1>4
  <2>7. Sharing(d)' # {} => Cardinality(Sharing(d)') = 1
    BY <1>6, FS_Singleton
  <2> QED BY <2>2, <2>4, <2>6, <2>7 DEF CountOK
<1> QED BY <1>7, <1>8, <1>9, <1>10 DEF Shares

(* Both parts have the data of the area, which is shared once more.        *)
LEMMA SplitKeepsShares ==
  ASSUME TypeOK, Shares, NEW p \in Procs, Split(p)
  PROVE  Shares'
<1> DEFINE Low(v, a)  == {x \in v.pages : x <= a}
           High(v, a) == v.pages \ Low(v, a)
<1>1. PICK v \in AreasOf(p), a \in Va :
        /\ Low(v, a) # {} /\ High(v, a) # {}
        /\ vmas' = (vmas \ {v}) \cup
             {[v EXCEPT !.pages = Low(v, a)], [v EXCEPT !.pages = High(v, a)]}
        /\ reference' = [reference EXCEPT ![v.data] = OpenCount(@)]
  BY DEF Split
<1>2. v \in vmas /\ v.proc = p /\ v \in Areas
  BY DEF AreasOf, TypeOK
<1>3. PICK low, high :
        /\ vmas' = (vmas \ {v}) \cup {low, high}
        /\ low.proc = p /\ high.proc = p /\ low.data = v.data /\ high.data = v.data
        /\ low.pages # {} /\ high.pages # {}
        /\ low.pages \cup high.pages = v.pages /\ low.pages \cap high.pages = {}
  <2>1. /\ [v EXCEPT !.pages = Low(v, a)].proc = p
        /\ [v EXCEPT !.pages = Low(v, a)].data = v.data
        /\ [v EXCEPT !.pages = Low(v, a)].pages = Low(v, a)
        /\ [v EXCEPT !.pages = High(v, a)].proc = p
        /\ [v EXCEPT !.pages = High(v, a)].data = v.data
        /\ [v EXCEPT !.pages = High(v, a)].pages = High(v, a)
    BY <1>2 DEF Areas
  <2> DEFINE low  == [v EXCEPT !.pages = Low(v, a)]
             high == [v EXCEPT !.pages = High(v, a)]
  <2>2. /\ low.pages # {} /\ high.pages # {}
        /\ low.pages \cup high.pages = v.pages /\ low.pages \cap high.pages = {}
    BY <1>1, <2>1
  <2>3. vmas' = (vmas \ {v}) \cup {low, high}
    BY <1>1
  <2>4. low.proc = p /\ high.proc = p /\ low.data = v.data /\ high.data = v.data
    BY <2>1
  <2> HIDE DEF low, high
  <2> QED BY <2>2, <2>3, <2>4
<1> HIDE DEF Low, High
<1>4. PICK d \in Data : v.data = d
  BY <1>2, AreaShape
<1>5. /\ UNCHANGED <<live, fault, closing>> /\ ReadLockable(p)
      /\ reference' = [reference EXCEPT ![d] = reference[d] + 1]
  BY <1>1, <1>4 DEF Split, memory, OpenCount, WriteLockable
<1>6. low \notin vmas /\ high \notin vmas /\ low # high
  <2>1. \A w \in vmas : w.proc = p /\ w # v => w.pages \cap v.pages = {}
    BY <1>2 DEF Shares, AreasOK
  <2>2. low # v /\ high # v /\ low # high
    BY <1>3
  <2> QED BY <1>3, <2>1, <2>2
<1>7. /\ \A e \in Data \ {d} : Sharing(e)' = Sharing(e)
      /\ Sharing(d)' = ((Sharing(d) \ {v}) \cup {low}) \cup {high}
      /\ v \in Sharing(d) /\ low \notin Sharing(d) /\ high \notin Sharing(d)
  BY <1>2, <1>3, <1>4, <1>6 DEF Sharing
<1>8. /\ IsFiniteSet(Sharing(d)) /\ IsFiniteSet(Sharing(d)')
      /\ Cardinality(Sharing(d)') = Cardinality(Sharing(d)) + 1
  <2>1. IsFiniteSet(Sharing(d))
    BY <1>4 DEF Shares, AreasOK
  <2>2. /\ IsFiniteSet(Sharing(d) \ {v})
        /\ Cardinality(Sharing(d) \ {v}) = Cardinality(Sharing(d)) - 1
    BY <1>7, <2>1, FS_RemoveElement
  <2>3. /\ IsFiniteSet((Sharing(d) \ {v}) \cup {low})
        /\ Cardinality((Sharing(d) \ {v}) \cup {low}) = Cardinality(Sharing(d) \ {v}) + 1
    BY <1>7, <2>2, FS_AddElement
  <2> DEFINE S == (Sharing(d) \ {v}) \cup {low}
  <2>4. high \notin S
    BY <1>6, <1>7
  <2>5. /\ IsFiniteSet(S \cup {high})
        /\ Cardinality(S \cup {high}) = Cardinality(S) + 1
    BY <2>3, <2>4, FS_AddElement
  <2> QED BY <1>7, <2>1, <2>2, <2>3, <2>5, FS_CardinalityType
<1>9. AreasOK'
  <2>1. \A e \in Data : IsFiniteSet(Sharing(e)')
    BY <1>7, <1>8 DEF Shares, AreasOK
  <2>2. \A w \in vmas' : (w \in vmas /\ w # v) \/ w = low \/ w = high
    BY <1>3
  <2>3. \A w \in vmas' : w.pages # {} /\ w.data \in live'
    BY <2>2, <1>2, <1>3, <1>5 DEF Shares, AreasOK
  <2>4. \A w \in vmas : w.proc = p /\ w # v => w.pages \cap v.pages = {}
    BY <1>2 DEF Shares, AreasOK
  <2>5. \A w, x \in vmas' : w.proc = x.proc /\ w # x => w.pages \cap x.pages = {}
    BY <2>2, <2>4, <1>3 DEF Shares, AreasOK
  <2>6. \A w, x \in vmas' : w.data = x.data => w.proc = x.proc
    BY <2>2, <1>2, <1>3 DEF Shares, AreasOK
  <2> QED BY <2>1, <2>3, <2>5, <2>6 DEF AreasOK
<1>10. LockOK'
  <2>1. \A q \in Procs : Covered(q) \subseteq Covered(q)'
    BY <1>2, <1>3 DEF Covered, AreasOf
  <2> QED BY <1>5, <2>1, PagingAssumption DEF Shares, LockOK, Busy
<1>11. \A q \in Procs, e \in Data : Closing(q, e)' = Closing(q, e)
  BY <1>5 DEF Closing
<1>12. \A q \in Procs : ~Closing(q, d)
  <2>1. ASSUME NEW q \in Procs, Closing(q, d) PROVE FALSE
    <3>1. q = p
      BY <2>1, <1>2, <1>4, <1>7 DEF Shares, ClosingOK
    <3> QED BY <2>1, <3>1, <1>5 DEF Closing, ReadLockable
  <2> QED BY <2>1
<1>13. ClosingOK'
  <2>1. ASSUME NEW q \in Procs, NEW e \in Data, Closing(q, e)'
        PROVE  /\ e \in live' /\ \A w \in Sharing(e)' : w.proc = q
               /\ \A r \in Procs : Closing(r, e)' => r = q
               /\ closing'[q].step # "put" => Sharing(e)' = {}
    <3>1. e # d /\ Closing(q, e)
      BY <2>1, <1>11, <1>12
    <3>2. Sharing(e)' = Sharing(e)
      BY <3>1, <1>7
    <3> QED BY <3>1, <3>2, <1>5, <1>11 DEF Shares, ClosingOK
  <2> QED BY <2>1 DEF ClosingOK
<1>14. CountOK'
  <2>1. ASSUME NEW e \in Data \ {d},
               \/ Sharing(e)' # {}
               \/ \E q \in Procs : Closing(q, e)' /\ closing'[q].step = "put"
        PROVE  reference'[e] = Cardinality(Sharing(e)')
                                 + IF \E q \in Procs : Closing(q, e)' THEN 1 ELSE 0
    <3>1. reference'[e] = reference[e] /\ Sharing(e)' = Sharing(e)
      BY <1>5, <1>7 DEF TypeOK
    <3> QED BY <2>1, <3>1, <1>5, <1>11 DEF Shares, CountOK
  <2>2. reference'[d] = Cardinality(Sharing(d)')
    <3>1. reference[d] = Cardinality(Sharing(d))
      BY <1>4, <1>7, <1>12, <1>8, FS_CardinalityType DEF Shares, CountOK
    <3> QED BY <3>1, <1>4, <1>5, <1>8 DEF TypeOK
  <2>3. Cardinality(Sharing(d)') \in Nat
    BY <1>8, FS_CardinalityType
  <2>4. \A q \in Procs : ~Closing(q, d)'
    BY <1>11, <1>12
  <2> QED BY <2>1, <2>2, <2>3, <2>4 DEF CountOK
<1> QED BY <1>9, <1>10, <1>13, <1>14 DEF Shares

(* The count holds the area that is being closed until it is put.          *)
LEMMA UnmapKeepsShares ==
  ASSUME TypeOK, Shares, NEW p \in Procs, Unmap(p)
  PROVE  Shares'
<1>1. PICK v \in AreasOf(p) :
        /\ vmas' = vmas \ {v}
        /\ closing' = [closing EXCEPT ![p] = [step |-> "put", data |-> v.data]]
  BY DEF Unmap
<1>2. PICK d \in Data : v.data = d /\ v \in vmas /\ v.proc = p
  BY AreaShape DEF AreasOf
<1>3. /\ UNCHANGED <<live, reference, fault>> /\ closing[p] = NotClosing
      /\ \A t \in Threads : proc[t] = p => ~Busy(t)
  BY DEF Unmap, WriteLockable, ReadLockable, memory, Busy
<1>4. /\ \A e \in Data \ {d} : Sharing(e)' = Sharing(e)
      /\ Sharing(d)' = Sharing(d) \ {v} /\ v \in Sharing(d)
  BY <1>1, <1>2 DEF Sharing
<1>5. /\ IsFiniteSet(Sharing(d)) /\ IsFiniteSet(Sharing(d)')
      /\ Cardinality(Sharing(d)) = Cardinality(Sharing(d)') + 1
      /\ Cardinality(Sharing(d)') \in Nat
  <2>1. IsFiniteSet(Sharing(d))
    BY DEF Shares, AreasOK
  <2>2. /\ IsFiniteSet(Sharing(d) \ {v})
        /\ Cardinality(Sharing(d) \ {v}) = Cardinality(Sharing(d)) - 1
    BY <1>4, <2>1, FS_RemoveElement
  <2>3. Cardinality(Sharing(d)) \in Nat /\ Cardinality(Sharing(d) \ {v}) \in Nat
    BY <2>1, <2>2, FS_CardinalityType
  <2> QED BY <1>4, <2>1, <2>2, <2>3
<1>6. AreasOK'
  <2>1. \A e \in Data : IsFiniteSet(Sharing(e)')
    BY <1>4, <1>5 DEF Shares, AreasOK
  <2> QED BY <2>1, <1>1, <1>3 DEF Shares, AreasOK
<1>7. LockOK'
  <2>1. \A q \in Procs \ {p} : Covered(q)' = Covered(q) /\ closing'[q] = closing[q]
    BY <1>1, <1>2 DEF Covered, AreasOf, TypeOK
  <2> QED BY <1>3, <2>1, PagingAssumption DEF Shares, LockOK, Busy
<1>8. /\ Closing(p, d)' /\ closing'[p].step = "put" /\ \A e \in Data \ {d} : ~Closing(p, e)'
      /\ \A e \in Data : ~Closing(p, e)
      /\ \A q \in Procs \ {p} : closing'[q] = closing[q]
      /\ \A q \in Procs \ {p}, e \in Data : Closing(q, e)' = Closing(q, e)
  BY <1>1, <1>2, <1>3 DEF Closing, TypeOK, NotClosing
<1>9. \A q \in Procs : ~Closing(q, d)
  <2>1. ASSUME NEW q \in Procs, Closing(q, d) PROVE FALSE
    <3>1. q = p
      BY <2>1, <1>2, <1>4 DEF Shares, ClosingOK
    <3> QED BY <2>1, <3>1, <1>8
  <2> QED BY <2>1
<1>10. ClosingOK'
  <2>1. ASSUME NEW q \in Procs, NEW e \in Data, Closing(q, e)'
        PROVE  /\ e \in live' /\ \A w \in Sharing(e)' : w.proc = q
               /\ \A r \in Procs : Closing(r, e)' => r = q
               /\ closing'[q].step # "put" => Sharing(e)' = {}
    <3>1. CASE q = p
      <4>1. e = d
        BY <2>1, <3>1, <1>8
      <4>2. d \in live /\ \A w \in Sharing(d) : w.proc = p
        BY <1>2 DEF Shares, AreasOK, Sharing
      <4>3. \A r \in Procs : Closing(r, d)' => r = p
        BY <1>8, <1>9
      <4>4. closing'[q].step = "put"
        BY <3>1, <1>8
      <4> QED BY <3>1, <4>1, <4>2, <4>3, <4>4, <1>3, <1>4
    <3>2. CASE q # p
      <4>1. Closing(q, e) /\ closing'[q] = closing[q]
        BY <2>1, <3>2, <1>8
      <4>2. e # d
        BY <4>1, <1>9
      <4> QED BY <4>1, <4>2, <1>3, <1>4, <1>8 DEF Shares, ClosingOK
    <3> QED BY <3>1, <3>2
  <2> QED BY <2>1 DEF ClosingOK
<1>11. CountOK'
  <2>1. ASSUME NEW e \in Data \ {d},
               \/ Sharing(e)' # {}
               \/ \E q \in Procs : Closing(q, e)' /\ closing'[q].step = "put"
        PROVE  reference'[e] = Cardinality(Sharing(e)')
                                 + IF \E q \in Procs : Closing(q, e)' THEN 1 ELSE 0
    <3>1. Sharing(e)' = Sharing(e) /\ reference'[e] = reference[e]
      BY <1>3, <1>4
    <3>2. \A q \in Procs : /\ Closing(q, e)' <=> Closing(q, e)
                           /\ Closing(q, e) => closing'[q] = closing[q]
      BY <1>8
    <3> QED BY <2>1, <3>1, <3>2 DEF Shares, CountOK
  <2>2. reference'[d] = Cardinality(Sharing(d)') + 1
    <3>1. reference[d] = Cardinality(Sharing(d)) + 0
      BY <1>4, <1>9 DEF Shares, CountOK
    <3> QED BY <3>1, <1>3, <1>5
  <2> QED BY <2>1, <2>2, <1>8 DEF CountOK
<1> QED BY <1>6, <1>7, <1>10, <1>11 DEF Shares

(* The count is zero when no area is left.                                 *)
LEMMA PutKeepsShares ==
  ASSUME TypeOK, Shares, NEW p \in Procs, Put(p)
  PROVE  /\ Shares'
         /\ closing'[p] = NotClosing => Sharing(closing[p].data) # {}
<1>1. PICK d \in Data : closing[p].data = d /\ Closing(p, d) /\ closing[p].step = "put"
  BY ClosingShape DEF Put
<1>2. /\ UNCHANGED <<vmas, live, fault>>
      /\ reference' = [reference EXCEPT ![d] = reference[d] - 1]
  BY <1>1 DEF Put
<1>3. /\ reference[d] = Cardinality(Sharing(d)) + 1
      /\ IsFiniteSet(Sharing(d)) /\ Cardinality(Sharing(d)) \in Nat
  BY <1>1, FS_CardinalityType DEF Shares, CountOK, AreasOK
<1>4. Cardinality(Sharing(d)) = 0 <=> Sharing(d) = {}
  BY <1>3, FS_EmptySet
<1>5. \/ /\ Sharing(d) = {} /\ closing'[p].step \in {"free", "block"}
         /\ Closing(p, d)'
      \/ Sharing(d) # {} /\ closing'[p] = NotClosing
  <2>1. closing[p] \in [step : {"put", "free", "again", "block", "done"}, data : Data]
    BY <1>1, ClosingShape DEF TypeOK, ClosingStates, NotClosing
  <2>2. CASE Sharing(d) = {}
    <3>1. closing' = [closing EXCEPT ![p].step =
                        IF demand_paging THEN "free" ELSE "block"]
      BY <1>1, <1>3, <1>4, <2>2 DEF Put, EndsAtZero
    <3>2. \E s \in {"free", "block"} : closing'[p] = [closing[p] EXCEPT !.step = s]
      BY <3>1 DEF TypeOK
    <3> QED BY <2>1, <2>2, <3>2, <1>1 DEF Closing, NotClosing
  <2>3. CASE Sharing(d) # {}
    BY <1>1, <1>3, <1>4, <2>3 DEF Put, EndsAtZero, TypeOK
  <2> QED BY <2>2, <2>3
<1>6. /\ \A q \in Procs \ {p} : closing'[q] = closing[q]
      /\ \A q \in Procs \ {p}, e \in Data : Closing(q, e)' = Closing(q, e)
  BY DEF Put, Closing, TypeOK
<1>7. \A e \in Data \ {d} : ~Closing(p, e) /\ ~Closing(p, e)'
  BY <1>1, <1>5 DEF Closing
<1>8. \A q \in Procs \ {p} : ~Closing(q, d) /\ ~Closing(q, d)'
  BY <1>1, <1>6 DEF Shares, ClosingOK
<1>9. \A e \in Data : Sharing(e)' = Sharing(e)
  BY <1>2 DEF Sharing
<1>10. AreasOK'
  <2>1. \A e \in Data : IsFiniteSet(Sharing(e)')
    BY <1>9 DEF Shares, AreasOK
  <2> QED BY <2>1, <1>2 DEF Shares, AreasOK
<1>11. LockOK'
  <2>1. \A t \in Threads : Busy(t) => proc[t] # p /\ proc[t] \in Procs
    BY <1>1, PagingAssumption DEF Shares, LockOK, Closing
  <2>2. \A q \in Procs : Covered(q)' = Covered(q)
    BY <1>2 DEF Covered, AreasOf
  <2> QED BY <1>2, <1>6, <2>1, <2>2 DEF Shares, LockOK, Busy
<1>12. ClosingOK'
  <2>1. ASSUME NEW q \in Procs, NEW e \in Data, Closing(q, e)'
        PROVE  /\ e \in live' /\ \A w \in Sharing(e)' : w.proc = q
               /\ \A r \in Procs : Closing(r, e)' => r = q
               /\ closing'[q].step # "put" => Sharing(e)' = {}
    <3>1. CASE e = d
      <4>1. q = p
        BY <2>1, <3>1, <1>8
      <4>2. Sharing(d) = {}
        BY <2>1, <3>1, <4>1, <1>5 DEF Closing
      <4> QED BY <1>1, <1>2, <1>8, <1>9, <3>1, <4>1, <4>2 DEF Shares, ClosingOK
    <3>2. CASE e # d
      <4>1. q # p /\ Closing(q, e) /\ closing'[q] = closing[q]
        BY <2>1, <3>2, <1>6, <1>7
      <4>2. \A r \in Procs : Closing(r, e)' => Closing(r, e)
        BY <3>2, <1>6, <1>7
      <4> QED BY <1>2, <1>9, <4>1, <4>2 DEF Shares, ClosingOK
    <3> QED BY <3>1, <3>2
  <2> QED BY <2>1 DEF ClosingOK
<1>13. CountOK'
  <2>1. ASSUME NEW e \in Data \ {d},
               \/ Sharing(e)' # {}
               \/ \E q \in Procs : Closing(q, e)' /\ closing'[q].step = "put"
        PROVE  reference'[e] = Cardinality(Sharing(e)')
                                 + IF \E q \in Procs : Closing(q, e)' THEN 1 ELSE 0
    <3>1. Sharing(e)' = Sharing(e) /\ reference'[e] = reference[e]
      BY <1>2, <1>9 DEF TypeOK
    <3>2. \A q \in Procs : /\ Closing(q, e)' <=> Closing(q, e)
                           /\ Closing(q, e) => closing'[q] = closing[q]
      BY <1>6, <1>7
    <3> QED BY <2>1, <3>1, <3>2 DEF Shares, CountOK
  <2>2. reference'[d] = Cardinality(Sharing(d)')
    BY <1>2, <1>3, <1>9 DEF TypeOK
  <2>3. Cardinality(Sharing(d)') \in Nat
    BY <1>3, <1>9
  <2>4. CASE Sharing(d) = {}
    <3>1. \A q \in Procs : ~(Closing(q, d)' /\ closing'[q].step = "put")
      BY <2>4, <1>5, <1>8
    <3>2. Sharing(d)' = {}
      BY <2>4, <1>9
    <3> QED BY <2>1, <3>1, <3>2 DEF CountOK
  <2>5. CASE Sharing(d) # {}
    <3>1. \A q \in Procs : ~Closing(q, d)'
      BY <2>5, <1>5, <1>8 DEF Closing
    <3> QED BY <2>1, <2>2, <2>3, <3>1 DEF CountOK
  <2> QED BY <2>4, <2>5
<1>14. closing'[p] = NotClosing => Sharing(closing[p].data) # {}
  BY <1>1, <1>5 DEF Closing
<1> QED BY <1>10, <1>11, <1>12, <1>13, <1>14 DEF Shares

(* The rest of the close, which only the process itself takes part in.     *)
LEMMA FreeingKeepsShares ==
  ASSUME TypeOK, Shares, NEW p \in Procs, FreeCell(p) \/ FreeBlock(p)
  PROVE  Shares'
<1>1. PICK d \in Data : /\ closing[p].data = d /\ Closing(p, d) /\ Sharing(d) = {}
                        /\ closing[p].step \in {"free", "again", "block"}
  BY ClosingShape DEF FreeCell, FreeBlock, Shares, ClosingOK
<1>2. UNCHANGED <<vmas, live, reference, fault>>
  BY DEF FreeCell, FreeBlock, memory
<1>3. /\ Closing(p, d)' /\ closing'[p].step # "put"
      /\ \A q \in Procs \ {p} : closing'[q] = closing[q]
  <2>1. closing[p] \in [step : {"put", "free", "again", "block", "done"}, data : Data]
    BY <1>1, ClosingShape DEF TypeOK, ClosingStates, NotClosing
  <2>2. \E s \in {"again", "done"} : closing' = [closing EXCEPT ![p].step = s]
    BY DEF FreeCell, FreeBlock
  <2>3. \E s \in {"again", "done"} : closing'[p] = [closing[p] EXCEPT !.step = s]
    BY <2>2 DEF TypeOK
  <2>4. \A q \in Procs \ {p} : closing'[q] = closing[q]
    BY <2>2 DEF TypeOK
  <2> QED BY <1>1, <2>1, <2>3, <2>4 DEF Closing, NotClosing
<1>4. \A q \in Procs, e \in Data : Closing(q, e)' <=> Closing(q, e)
  BY <1>1, <1>3 DEF Closing
<1>5. \A e \in Data : Sharing(e)' = Sharing(e)
  BY <1>2 DEF Sharing
<1>6. AreasOK'
  <2>1. \A e \in Data : IsFiniteSet(Sharing(e)')
    BY <1>5 DEF Shares, AreasOK
  <2> QED BY <2>1, <1>2 DEF Shares, AreasOK
<1>7. LockOK'
  <2>1. \A t \in Threads : Busy(t) => proc[t] # p /\ proc[t] \in Procs
    BY <1>1, PagingAssumption DEF Shares, LockOK, Closing
  <2>2. \A q \in Procs : Covered(q)' = Covered(q)
    BY <1>2 DEF Covered, AreasOf
  <2> QED BY <1>2, <1>3, <2>1, <2>2 DEF Shares, LockOK, Busy
<1>8. ClosingOK'
  <2>1. ASSUME NEW q \in Procs, NEW e \in Data, Closing(q, e)'
        PROVE  /\ e \in live' /\ \A w \in Sharing(e)' : w.proc = q
               /\ \A r \in Procs : Closing(r, e)' => r = q
               /\ closing'[q].step # "put" => Sharing(e)' = {}
    <3>1. Closing(q, e)
      BY <2>1, <1>4
    <3>2. q = p => e = d
      BY <3>1, <1>1 DEF Closing
    <3> QED BY <3>1, <3>2, <1>1, <1>2, <1>3, <1>4, <1>5 DEF Shares, ClosingOK
  <2> QED BY <2>1 DEF ClosingOK
<1>9. CountOK'
  <2>1. ASSUME NEW e \in Data,
               \/ Sharing(e)' # {}
               \/ \E q \in Procs : Closing(q, e)' /\ closing'[q].step = "put"
        PROVE  reference'[e] = Cardinality(Sharing(e)')
                                 + IF \E q \in Procs : Closing(q, e)' THEN 1 ELSE 0
    <3>1. \/ Sharing(e) # {}
          \/ \E q \in Procs : Closing(q, e) /\ closing[q].step = "put"
      BY <2>1, <1>3, <1>4, <1>5
    <3>2. (\E q \in Procs : Closing(q, e)') <=> (\E q \in Procs : Closing(q, e))
      BY <1>4
    <3> QED BY <3>1, <3>2, <1>2, <1>5 DEF Shares, CountOK
  <2> QED BY <2>1 DEF CountOK
<1> QED BY <1>6, <1>7, <1>8, <1>9 DEF Shares

LEMMA KfreeKeepsShares ==
  ASSUME TypeOK, Shares, NEW p \in Procs, KfreeData(p)
  PROVE  Shares'
<1>1. PICK d \in Data : /\ closing[p].data = d /\ Closing(p, d) /\ Sharing(d) = {}
  BY ClosingShape DEF KfreeData, Shares, ClosingOK
<1>2. UNCHANGED <<vmas, reference, fault>> /\ live' = live \ {d}
  BY <1>1 DEF KfreeData
<1>3. /\ closing'[p] = NotClosing
      /\ \A q \in Procs \ {p} : closing'[q] = closing[q]
  BY DEF KfreeData, TypeOK
<1>4. /\ \A e \in Data : ~Closing(p, e)'
      /\ \A q \in Procs \ {p}, e \in Data : Closing(q, e)' <=> Closing(q, e)
      /\ \A q \in Procs \ {p} : ~Closing(q, d)
      /\ \A e \in Data \ {d} : ~Closing(p, e)
  BY <1>1, <1>3 DEF Shares, ClosingOK, Closing
<1>5. \A e \in Data : Sharing(e)' = Sharing(e)
  BY <1>2 DEF Sharing
<1>6. AreasOK'
  <2>1. \A e \in Data : IsFiniteSet(Sharing(e)')
    BY <1>5 DEF Shares, AreasOK
  <2>2. \A v \in vmas : v.data # d
    BY <1>1 DEF Sharing
  <2> QED BY <2>1, <2>2, <1>2 DEF Shares, AreasOK
<1>7. LockOK'
  <2>1. \A t \in Threads : Busy(t) => proc[t] # p /\ proc[t] \in Procs
    BY <1>1, PagingAssumption DEF Shares, LockOK, Closing
  <2>2. \A q \in Procs : Covered(q)' = Covered(q)
    BY <1>2 DEF Covered, AreasOf
  <2> QED BY <1>2, <1>3, <2>1, <2>2 DEF Shares, LockOK, Busy
<1>8. ClosingOK'
  <2>1. ASSUME NEW q \in Procs, NEW e \in Data, Closing(q, e)'
        PROVE  /\ e \in live' /\ \A w \in Sharing(e)' : w.proc = q
               /\ \A r \in Procs : Closing(r, e)' => r = q
               /\ closing'[q].step # "put" => Sharing(e)' = {}
    <3>1. q # p /\ Closing(q, e) /\ e # d
      BY <2>1, <1>4
    <3> QED BY <3>1, <1>2, <1>3, <1>4, <1>5 DEF Shares, ClosingOK
  <2> QED BY <2>1 DEF ClosingOK
<1>9. CountOK'
  <2>1. ASSUME NEW e \in Data,
               \/ Sharing(e)' # {}
               \/ \E q \in Procs : Closing(q, e)' /\ closing'[q].step = "put"
        PROVE  reference'[e] = Cardinality(Sharing(e)')
                                 + IF \E q \in Procs : Closing(q, e)' THEN 1 ELSE 0
    <3>1. e # d
      BY <2>1, <1>1, <1>4, <1>5
    <3>2. \A q \in Procs : Closing(q, e)' <=> Closing(q, e)
      BY <3>1, <1>4
    <3>3. \/ Sharing(e) # {}
          \/ \E q \in Procs : Closing(q, e) /\ closing[q].step = "put"
      BY <2>1, <3>2, <1>3, <1>4, <1>5
    <3> QED BY <3>2, <3>3, <1>2, <1>5 DEF Shares, CountOK
  <2> QED BY <2>1 DEF CountOK
<1> QED BY <1>6, <1>7, <1>8, <1>9 DEF Shares

-----------------------------------------------------------------------------
(* Who owns a page. *)

Owned == TakenOK /\ MappedOK /\ ListsOK /\ HandsOK

(* A step takes nothing back of page f. *)
Stays(f) == \A u \in taken : u.frame = f => u \in taken'

(* What is mapped, linked and in hand stays as it was: what a step may add *)
(* to one of the three is for the lemma of that step.                      *)
LEMMA MappedStays ==
  ASSUME MappedOK,
         \A p \in Procs, a \in Va, f \in Frames : page_table'[p][a] = f =>
           page_table[p][a] = f /\ Stays(f) /\ a \in Covered(p)'
  PROVE  MappedOK'
<1>1. ASSUME NEW p \in Procs, NEW a \in Va, NEW f \in Frames, page_table'[p][a] = f
      PROVE  /\ a \in Covered(p)' /\ f \in Allocated'
             /\ \A q \in Procs, b \in Va : page_table'[q][b] = f => p = q /\ a = b
  <2>1. page_table[p][a] = f /\ Stays(f) /\ a \in Covered(p)'
    BY <1>1
  <2>2. PICK u \in taken : u.frame = f
    BY <2>1 DEF MappedOK, Allocated
  <2>3. f \in Allocated'
    BY <2>1, <2>2 DEF Stays, Allocated
  <2>4. \A q \in Procs, b \in Va : page_table'[q][b] = f => p = q /\ a = b
    BY <2>1 DEF MappedOK
  <2> QED BY <2>1, <2>3, <2>4
<1> QED BY <1>1 DEF MappedOK

LEMMA ListsStay ==
  ASSUME ListsOK,
         \A d \in Data, f \in Frames : Linked(d, f)' =>
           /\ Linked(d, f) /\ Stays(f) /\ d \in live'
           /\ \A v \in Sharing(d)' : \E w \in Sharing(d) : w.proc = v.proc
           /\ \A p \in Procs, a \in Va : page_table'[p][a] = f =>
                page_table[p][a] = f /\ (Has(p, a, d) => Has(p, a, d)')
  PROVE  ListsOK'
<1>1. ASSUME NEW d \in Data, NEW f \in Frames, Linked(d, f)'
      PROVE  /\ d \in live'
             /\ \A e \in Data : Linked(e, f)' => e = d
             /\ \A p \in Procs, a \in Va : page_table'[p][a] = f => Has(p, a, d)'
             /\ \E u \in taken' : /\ u.frame = f /\ u.how = "fault"
                                  /\ \A v \in Sharing(d)' : v.proc = u.for
  <2>1. Linked(d, f) /\ Stays(f) /\ d \in live'
    BY <1>1
  <2>2. \A e \in Data : Linked(e, f)' => e = d
    BY <2>1 DEF ListsOK
  <2>3. \A p \in Procs, a \in Va : page_table'[p][a] = f => Has(p, a, d)'
    BY <1>1, <2>1 DEF ListsOK
  <2>4. PICK u \in taken : /\ u.frame = f /\ u.how = "fault"
                           /\ \A v \in Sharing(d) : v.proc = u.for
    BY <2>1 DEF ListsOK
  <2>5. \A v \in Sharing(d)' : v.proc = u.for
    BY <1>1, <2>4
  <2> QED BY <2>1, <2>2, <2>3, <2>4, <2>5 DEF Stays
<1> QED BY <1>1 DEF ListsOK

LEMMA HandsStay ==
  ASSUME HandsOK,
         \A t \in Threads, f \in Frames : Holds(t, f)' =>
           /\ Holds(t, f) /\ Stays(f) /\ fault'[t].page = fault[t].page
           /\ fault'[t].step = "remap" => fault[t].step = "remap"
           /\ \A d \in Data : Linked(d, f)' => Linked(d, f)
           /\ \A p \in Procs, a \in Va : page_table'[p][a] = f =>
                \/ page_table[p][a] = f
                \/ fault'[t].step # "remap" /\ p = proc[t] /\ a = fault'[t].page
  PROVE  HandsOK'
<1>1. ASSUME NEW t \in Threads, NEW f \in Frames, Holds(t, f)'
      PROVE  /\ [frame |-> f, for |-> proc[t], how |-> "fault"] \in taken'
             /\ \A d \in Data : ~Linked(d, f)'
             /\ \A s \in Threads : Holds(s, f)' => s = t
             /\ \A p \in Procs, a \in Va : page_table'[p][a] = f =>
                  fault'[t].step # "remap" /\ p = proc[t] /\ a = fault'[t].page
  <2>1. /\ Holds(t, f) /\ Stays(f) /\ fault'[t].page = fault[t].page
        /\ fault'[t].step = "remap" => fault[t].step = "remap"
    BY <1>1
  <2>2. /\ [frame |-> f, for |-> proc[t], how |-> "fault"] \in taken
        /\ \A d \in Data : ~Linked(d, f)
        /\ \A s \in Threads : Holds(s, f) => s = t
        /\ \A p \in Procs, a \in Va : page_table[p][a] = f =>
             fault[t].step # "remap" /\ p = proc[t] /\ a = fault[t].page
    BY <2>1 DEF HandsOK
  <2>3. \A p \in Procs, a \in Va : page_table'[p][a] = f =>
          fault'[t].step # "remap" /\ p = proc[t] /\ a = fault'[t].page
    BY <1>1, <2>1, <2>2
  <2>4. \A d \in Data : ~Linked(d, f)'
    BY <1>1, <2>2
  <2>5. \A s \in Threads : Holds(s, f)' => s = t
    BY <2>2
  <2> QED BY <2>1, <2>2, <2>3, <2>4, <2>5 DEF Stays
<1> QED BY <1>1 DEF HandsOK

(* All three at once. *)
LEMMA OwnedStays ==
  ASSUME Owned, TakenOK',
         \A p \in Procs, a \in Va, f \in Frames : page_table'[p][a] = f =>
           /\ page_table[p][a] = f /\ Stays(f) /\ a \in Covered(p)'
           /\ \A d \in Data : Has(p, a, d) => Has(p, a, d)',
         \A d \in Data, f \in Frames : Linked(d, f)' =>
           /\ Linked(d, f) /\ Stays(f) /\ d \in live'
           /\ \A v \in Sharing(d)' : \E w \in Sharing(d) : w.proc = v.proc,
         \A t \in Threads, f \in Frames : Holds(t, f)' =>
           /\ Holds(t, f) /\ Stays(f) /\ fault'[t].page = fault[t].page
           /\ fault'[t].step = "remap" => fault[t].step = "remap"
  PROVE  Owned'
<1>1. MappedOK'
  BY MappedStays DEF Owned
<1>2. ListsOK'
  BY ListsStay DEF Owned
<1>3. HandsOK'
  BY HandsStay DEF Owned
<1> QED BY <1>1, <1>2, <1>3 DEF Owned

(* The steps of other handlers that leave the pages alone. *)
LEMMA PagesKeepOwned ==
  ASSUME TypeOK, Owned,
         UNCHANGED <<taken, page_table, vmas, ptr_to_pagelist, live, fault>>
  PROVE  Owned'
  BY DEF Owned, TakenOK, Faulted, MappedOK, ListsOK, HandsOK, Covered, AreasOf, Allocated,
         Linked, Holding, Holds, Has, Sharing

LEMMA FaultKeepsOwned ==
  ASSUME TypeOK, Shares, Owned, NEW t \in Threads, Fault(t) \/ NewCell(t)
  PROVE  Owned'
<1>1. /\ UNCHANGED <<taken, page_table, vmas, ptr_to_pagelist, live>>
      /\ \A s \in Threads \ {t} : fault'[s] = fault[s]
  BY DEF Fault, NewCell, TypeOK, memory
<1>2. \A f \in Frames : Holds(t, f)' =>
        /\ Holds(t, f) /\ fault'[t].page = fault[t].page
        /\ fault'[t].step # "remap"
  BY FaultShape DEF Fault, NewCell, TypeOK, Holding, Holds
<1>3. \A s \in Threads, f \in Frames : Holds(s, f)' =>
        /\ Holds(s, f) /\ fault'[s].page = fault[s].page
        /\ fault'[s].step = "remap" => fault[s].step = "remap"
  BY <1>1, <1>2 DEF Holding, Holds
<1>0. \A f : Stays(f)
  BY <1>1 DEF Stays
<1>4. \A d \in Data : Has(proc[t], fault'[t].page, d) /\ fault'[t].step = "link" =>
        fault'[t].rest = ptr_to_pagelist[d]
  <2>1. CASE Fault(t)
    BY <2>1 DEF Fault, TypeOK
  <2>2. CASE NewCell(t)
    <3>1. /\ fault'[t].rest = ptr_to_pagelist[DataAt(t)]
          /\ fault'[t].page = fault[t].page
      BY <2>2 DEF NewCell, TypeOK
    <3>2. Busy(t)
      BY <2>2, FaultShape DEF NewCell
    <3> QED BY <3>1, <3>2, DataAtIs DEF Shares
  <2> QED BY <2>1, <2>2
<1>5. \A p \in Procs \cup {proc[t]} : \A a, d : Has(p, a, d)' <=> Has(p, a, d)
  BY <1>1 DEF Has
<1>6. \A d \in Data, f \in Frames : Linked(d, f)' => Linked(d, f)
  <2>1. ASSUME NEW d \in Data, NEW f \in Frames, NEW s \in Threads,
               fault'[s].step = "link", f \in fault'[s].rest,
               Has(proc[s], fault'[s].page, d)
        PROVE  Linked(d, f)
    <3>1. CASE s = t
      BY <2>1, <3>1, <1>4 DEF Linked
    <3>2. CASE s # t
      BY <2>1, <3>2, <1>1 DEF Linked
    <3> QED BY <3>1, <3>2
  <2>2. \A s \in Threads : \A a, d : Has(proc[s], a, d)' <=> Has(proc[s], a, d)
    BY <1>1 DEF Has
  <2> QED BY <2>1, <2>2, <1>1 DEF Linked
<1>7. /\ \A d \in Data : Sharing(d)' = Sharing(d)
      /\ \A p \in Procs : Covered(p)' = Covered(p)
      /\ Allocated' = Allocated
  BY <1>1 DEF Sharing, Covered, AreasOf, Allocated
<1>8. TakenOK'
  BY <1>1 DEF Owned, TakenOK, Faulted
<1>9. \A d \in Data, f \in Frames : Linked(d, f)' =>
        /\ Linked(d, f) /\ d \in live'
        /\ \A v \in Sharing(d)' : \E w \in Sharing(d) : w.proc = v.proc
  BY <1>1, <1>6, <1>7 DEF Owned, ListsOK
<1>10. \A p \in Procs, a \in Va, f \in Frames : page_table'[p][a] = f =>
        /\ page_table[p][a] = f /\ a \in Covered(p)'
        /\ \A d \in Data : Has(p, a, d) => Has(p, a, d)'
  BY <1>1, <1>5, <1>7 DEF Owned, MappedOK
<1> QED BY <1>0, <1>1, <1>3, <1>8, <1>9, <1>10, OwnedStays

(* Steps of one thread that write no list. *)
LEMMA LinksStay ==
  ASSUME NEW t \in Threads, UNCHANGED <<vmas, ptr_to_pagelist>>,
         fault'[t].step # "link", \A s \in Threads \ {t} : fault'[s] = fault[s]
  PROVE  \A d \in Data, f \in Frames : Linked(d, f)' => Linked(d, f)
<1>1. \A s \in Threads : \A a, d : Has(proc[s], a, d)' <=> Has(proc[s], a, d)
  BY DEF Has
<1> QED BY <1>1 DEF Linked

LEMMA AllocKeepsOwned ==
  ASSUME TypeOK, Shares, Owned, NEW t \in Threads, AllocPage(t)
  PROVE  Owned'
<1>1. /\ UNCHANGED <<page_table, vmas, ptr_to_pagelist, live>>
      /\ \A s \in Threads \ {t} : fault'[s] = fault[s]
      /\ taken \subseteq taken' /\ fault'[t].step \in {"user", "remap"}
  BY DEF AllocPage, TypeOK, memory, AtUser
<1>2. \A f : Stays(f)
  BY <1>1 DEF Stays
<1>3. /\ \A p \in Procs : Covered(p)' = Covered(p)
      /\ \A d \in Data : Sharing(d)' = Sharing(d)
      /\ \A p \in Procs : \A a, d : Has(p, a, d)' <=> Has(p, a, d)
  BY <1>1 DEF Covered, AreasOf, Sharing, Has
<1>4. \A d \in Data, f \in Frames : Linked(d, f)' => Linked(d, f)
  BY <1>1, LinksStay
<1>5. MappedOK'
  BY <1>1, <1>2, <1>3, MappedStays DEF Owned, MappedOK
<1>6. ListsOK'
  <2>1. \A d \in Data, f \in Frames : Linked(d, f) => d \in live
    BY DEF Owned, ListsOK
  <2> QED BY <1>1, <1>2, <1>3, <1>4, <2>1, ListsStay DEF Owned
<1>7. \A s \in Threads \ {t}, f \in Frames : Holds(s, f)' <=> Holds(s, f)
  BY <1>1 DEF Holds, Holding
<1>8. CASE /\ fault'[t] = AtUser /\ taken' = taken
  <2>1. ~Holding(t)'
    BY <1>8 DEF Holding, AtUser
  <2>2. \A s \in Threads, f \in Frames : Holds(s, f)' => Holds(s, f) /\ s # t
    BY <1>7, <2>1 DEF Holds
  <2>3. HandsOK'
    BY <1>1, <1>2, <1>4, <2>2, HandsStay DEF Owned
  <2>4. TakenOK'
    BY <1>8 DEF Owned, TakenOK, Faulted
  <2> QED BY <1>5, <1>6, <2>3, <2>4 DEF Owned
<1>9. ASSUME NEW f \in FreeFrames,
             taken' = taken \cup {[frame |-> f, for |-> proc[t], how |-> "fault"]},
             fault' = [fault EXCEPT ![t] =
               [step |-> "remap", page |-> @.page, frame |-> f]]
      PROVE  Owned'
  <2>1. f \in Frames /\ \A u \in taken : u.frame # f
    BY <1>9 DEF FreeFrames, Allocated
  <2>2. TakenOK'
    <3>1. \A u, w \in taken' : u.frame = w.frame => u = w
      BY <1>9, <2>1 DEF Owned, TakenOK
    <3>2. Faulted' = Faulted \cup {[frame |-> f, for |-> proc[t], how |-> "fault"]}
      BY <1>9 DEF Faulted
    <3>3. IsFiniteSet(Faulted')
      BY <3>2, FS_AddElement DEF Owned, TakenOK
    <3> QED BY <3>1, <3>3 DEF TakenOK
  <2>3. \A g \in Frames : Holds(t, g)' <=> g = f
    BY <1>9 DEF Holds, Holding, TypeOK
  <2>4. \A d \in Data : ~Linked(d, f)
    BY <2>1 DEF Owned, ListsOK
  <2>5. \A s \in Threads : ~Holds(s, f)
    <3> SUFFICES ASSUME NEW s \in Threads, Holds(s, f) PROVE FALSE
      OBVIOUS
    <3>1. [frame |-> f, for |-> proc[s], how |-> "fault"] \in taken
      BY <2>1 DEF Owned, HandsOK
    <3> QED BY <2>1, <3>1
  <2>6. \A p \in Procs, a \in Va : page_table[p][a] # f
    BY <2>1 DEF Owned, MappedOK, Allocated
  <2>7. ASSUME NEW s \in Threads, NEW g \in Frames, Holds(s, g)'
        PROVE  /\ [frame |-> g, for |-> proc[s], how |-> "fault"] \in taken'
               /\ \A d \in Data : ~Linked(d, g)'
               /\ \A r \in Threads : Holds(r, g)' => r = s
               /\ \A p \in Procs, a \in Va : page_table'[p][a] = g =>
                    fault'[s].step # "remap" /\ p = proc[s] /\ a = fault'[s].page
    <3>1. CASE s = t
      BY <1>1, <1>4, <1>7, <1>9, <2>3, <2>4, <2>5, <2>6, <2>7, <3>1
    <3>2. CASE s # t
      <4>1. Holds(s, g) /\ g # f
        BY <1>7, <2>5, <2>7, <3>2
      <4>2. /\ [frame |-> g, for |-> proc[s], how |-> "fault"] \in taken
            /\ \A d \in Data : ~Linked(d, g)
            /\ \A r \in Threads : Holds(r, g) => r = s
            /\ \A p \in Procs, a \in Va : page_table[p][a] = g =>
                 fault[s].step # "remap" /\ p = proc[s] /\ a = fault[s].page
        BY <4>1 DEF Owned, HandsOK
      <4>3. \A r \in Threads : Holds(r, g)' => r = s
        BY <1>7, <2>3, <4>1, <4>2
      <4> QED BY <1>1, <1>4, <3>2, <4>2, <4>3
    <3> QED BY <3>1, <3>2
  <2>8. HandsOK'
    BY <2>7 DEF HandsOK
  <2> QED BY <1>5, <1>6, <2>2, <2>8 DEF Owned
<1> QED BY <1>8, <1>9 DEF AllocPage, TypeOK

(* The frame of the fault is linked nowhere yet. *)
LEMMA RemapKeepsOwned ==
  ASSUME TypeOK, Shares, Owned, NEW t \in Threads, Remap(t)
  PROVE  Owned'
<1> DEFINE p == proc[t]
           a == fault[t].page
           g == fault[t].frame
<1>1. /\ UNCHANGED <<taken, vmas, ptr_to_pagelist, live>>
      /\ \A s \in Threads \ {t} : fault'[s] = fault[s]
      /\ fault'[t].step = "cell" /\ fault'[t].page = a /\ fault'[t].frame = g
      /\ \A q \in Procs, b \in Va : \/ page_table'[q][b] = page_table[q][b]
                                    \/ q = p /\ b = a /\ page_table'[q][b] = g
  BY FaultShape DEF Remap, TypeOK, memory
<1>2. /\ Holds(t, g) /\ p \in Procs /\ a \in Va /\ g \in Frames /\ Busy(t)
      /\ fault[t].step = "remap"
  BY FaultShape DEF Remap, Holds, Holding
<1>3. /\ [frame |-> g, for |-> p, how |-> "fault"] \in taken
      /\ \A d \in Data : ~Linked(d, g)
      /\ \A s \in Threads : Holds(s, g) => s = t
      /\ \A q \in Procs, b \in Va : page_table[q][b] # g
  BY <1>2 DEF Owned, HandsOK
<1>4. \A f : Stays(f)
  BY <1>1 DEF Stays
<1>5. /\ \A q \in Procs : Covered(q)' = Covered(q)
      /\ \A d \in Data : Sharing(d)' = Sharing(d)
      /\ \A q \in Procs : \A b, d : Has(q, b, d)' <=> Has(q, b, d)
      /\ Allocated' = Allocated
  BY <1>1 DEF Covered, AreasOf, Sharing, Has, Allocated
<1>6. \A d \in Data, f \in Frames : Linked(d, f)' => Linked(d, f)
  BY <1>1, LinksStay
<1>7. TakenOK'
  BY <1>1 DEF Owned, TakenOK, Faulted
<1>8. ListsOK'
  <2>1. \A d \in Data, f \in Frames : Linked(d, f) => d \in live /\ f # g
    BY <1>3 DEF Owned, ListsOK
  <2> HIDE DEF p, a, g
  <2>2. \A d \in Data, f \in Frames : Linked(d, f)' =>
          /\ Linked(d, f) /\ Stays(f) /\ d \in live'
          /\ \A v \in Sharing(d)' : \E w \in Sharing(d) : w.proc = v.proc
          /\ \A q \in Procs, b \in Va : page_table'[q][b] = f =>
               page_table[q][b] = f /\ (Has(q, b, d) => Has(q, b, d)')
    BY <1>1, <1>4, <1>5, <1>6, <2>1
  <2> QED BY <2>2, ListsStay DEF Owned
<1>9. HandsOK'
  <2>1. \A s \in Threads, f \in Frames : Holds(s, f)' => Holds(s, f)
    BY <1>1, <1>2 DEF Holds, Holding
  <2>2. \A s \in Threads, f \in Frames : Holds(s, f)' =>
          \A q \in Procs, b \in Va : page_table'[q][b] = f =>
            \/ page_table[q][b] = f
            \/ fault'[s].step # "remap" /\ q = proc[s] /\ b = fault'[s].page
    BY <1>1, <1>3, <2>1
  <2>3. \A s \in Threads : /\ fault'[s].page = fault[s].page
                           /\ fault'[s].step = "remap" => fault[s].step = "remap"
    BY <1>1
  <2> QED BY <1>4, <1>6, <2>1, <2>2, <2>3, HandsStay DEF Owned
<1>10. MappedOK'
  <2>1. a \in Covered(p) /\ g \in Allocated
    BY <1>2, <1>3 DEF Shares, LockOK, Allocated
  <2>2. ASSUME NEW q \in Procs, NEW b \in Va, NEW f \in Frames, page_table'[q][b] = f
        PROVE  /\ b \in Covered(q)' /\ f \in Allocated'
               /\ \A r \in Procs, c \in Va : page_table'[r][c] = f => q = r /\ b = c
    <3>1. CASE f = g
      BY <1>1, <1>3, <1>5, <2>1, <2>2, <3>1
    <3>2. CASE f # g
      <4>1. page_table[q][b] = f
        BY <1>1, <2>2, <3>2
      <4>2. \A r \in Procs, c \in Va : page_table'[r][c] = f => page_table[r][c] = f
        BY <1>1, <3>2
      <4> QED BY <1>5, <4>1, <4>2 DEF Owned, MappedOK
    <3> QED BY <3>1, <3>2
  <2> QED BY <2>2 DEF MappedOK
<1> QED BY <1>7, <1>8, <1>9, <1>10 DEF Owned

(* The page goes from the hands of the fault to the list. *)
LEMMA LinkKeepsOwned ==
  ASSUME TypeOK, Shares, Owned, NEW t \in Threads, LinkCell(t)
  PROVE  Owned'
<1>1. PICK D \in Data, g \in Frames : D = DataAt(t) /\ g = fault[t].frame
  BY FaultShape, DataAtIs DEF LinkCell, Shares, Holding
<1>2. /\ UNCHANGED <<taken, vmas, page_table, live>>
      /\ \A s \in Threads \ {t} : fault'[s] = fault[s]
      /\ fault'[t].step = "user"
      /\ ptr_to_pagelist'[D] = {g} \cup fault[t].rest
      /\ \A d \in Data \ {D} : ptr_to_pagelist'[d] = ptr_to_pagelist[d]
  BY <1>1 DEF LinkCell, TypeOK, ListAdd, AtUser
<1>3. Holds(t, g) /\ Busy(t) /\ proc[t] \in Procs /\ fault[t].step = "link"
  BY <1>1, FaultShape DEF LinkCell, Holds, Holding
<1>4. \A d \in Data : Has(proc[t], fault[t].page, d) <=> d = D
  BY <1>1, <1>3, DataAtIs DEF Shares
<1>5. /\ [frame |-> g, for |-> proc[t], how |-> "fault"] \in taken
      /\ \A d \in Data : ~Linked(d, g)
      /\ \A s \in Threads : Holds(s, g) => s = t
      /\ \A q \in Procs, b \in Va : page_table[q][b] = g =>
           q = proc[t] /\ b = fault[t].page
  BY <1>3 DEF Owned, HandsOK
<1>6. \A f : Stays(f)
  BY <1>2 DEF Stays
<1>7. /\ \A q \in Procs : Covered(q)' = Covered(q)
      /\ \A d \in Data : Sharing(d)' = Sharing(d)
      /\ \A q \in Procs : \A b, d : Has(q, b, d)' <=> Has(q, b, d)
  BY <1>2 DEF Covered, AreasOf, Sharing, Has
<1>8. \A d \in Data, f \in Frames : Linked(d, f)' => Linked(d, f) \/ (d = D /\ f = g)
  <2>1. \A d \in Data, f \in Frames : f \in ptr_to_pagelist'[d] =>
          Linked(d, f) \/ (d = D /\ f = g)
    BY <1>2, <1>3, <1>4 DEF Linked
  <2>2. ASSUME NEW d \in Data, NEW f \in Frames, NEW s \in Threads,
               fault'[s].step = "link", f \in fault'[s].rest,
               Has(proc[s], fault'[s].page, d)
        PROVE  Linked(d, f)
    BY <1>2, <2>2 DEF Linked
  <2>3. \A s \in Threads : \A b, d : Has(proc[s], b, d)' <=> Has(proc[s], b, d)
    BY <1>2 DEF Has
  <2> QED BY <2>1, <2>2, <2>3 DEF Linked
<1>9. TakenOK' /\ MappedOK'
  <2>1. MappedOK'
    BY <1>2, <1>6, <1>7, MappedStays DEF Owned, MappedOK
  <2> QED BY <1>2, <2>1 DEF Owned, TakenOK, Faulted
<1>10. \A s \in Threads, f \in Frames : Holds(s, f)' => Holds(s, f) /\ s # t /\ f # g
  BY <1>2, <1>5 DEF Holds, Holding
<1>11. HandsOK'
  BY <1>2, <1>6, <1>8, <1>10, HandsStay DEF Owned
<1>12. ASSUME NEW d \in Data, NEW f \in Frames, Linked(d, f)'
       PROVE  /\ d \in live'
              /\ \A e \in Data : Linked(e, f)' => e = d
              /\ \A q \in Procs, a \in Va : page_table'[q][a] = f => Has(q, a, d)'
              /\ \E u \in taken' : /\ u.frame = f /\ u.how = "fault"
                                   /\ \A v \in Sharing(d)' : v.proc = u.for
  <2>1. CASE f # g
    <3>1. Linked(d, f) /\ \A e \in Data : Linked(e, f)' => Linked(e, f)
      BY <1>8, <1>12, <2>1
    <3> QED BY <3>1, <1>2, <1>7 DEF Owned, ListsOK
  <2>2. CASE f = g
    <3>1. d = D /\ \A e \in Data : Linked(e, f)' => e = d
      BY <1>5, <1>8, <1>12, <2>2
    <3>2. PICK v \in vmas : v.proc = proc[t] /\ v.data = D
      BY <1>4 DEF Has
    <3>3. d \in live' /\ \A w \in Sharing(d)' : w.proc = proc[t]
      BY <1>2, <1>7, <3>1, <3>2 DEF Shares, AreasOK, Sharing
    <3>4. \A q \in Procs, a \in Va : page_table'[q][a] = f => Has(q, a, d)'
      BY <1>2, <1>4, <1>5, <1>7, <2>2, <3>1
    <3>5. \E u \in taken' : /\ u.frame = f /\ u.how = "fault" /\ u.for = proc[t]
      BY <1>2, <1>5, <2>2
    <3> QED BY <3>1, <3>3, <3>4, <3>5
  <2> QED BY <2>1, <2>2
<1>13. ListsOK'
  BY <1>12 DEF ListsOK
<1> QED BY <1>9, <1>11, <1>13 DEF Owned

(* A prepaged area is given pages that were free.                          *)
LEMMA MmapKeepsOwned ==
  ASSUME TypeOK, Shares, Owned, NEW p \in Procs, MmapOnDemand(p) \/ MmapPrepaged(p)
  PROVE  Owned'
<1> DEFINE New(S, d) == [proc |-> p, pages |-> S, data |-> d]
           Block(B)  == [frame : B, for : {p}, how : {"block"}]
<1>1. PICK S \in Unused(p), d \in Data \ live, B \in SUBSET FreeFrames :
        /\ NewData(d)
        /\ vmas' \in {vmas, vmas \cup {New(S, d)}}
        /\ taken' \in {taken, taken \cup Block(B)}
        /\ \/ page_table' = page_table
           \/ \E pte \in [S -> B] :
                /\ \A a, b \in S : a # b => pte[a] # pte[b]
                /\ page_table' = [page_table EXCEPT ![p] =
                     [a \in Va |-> IF a \in S THEN pte[a] ELSE @[a]]]
                /\ taken' = taken \cup Block(B)
                /\ vmas' = vmas \cup {New(S, d)}
  <2>1. CASE MmapOnDemand(p)
    <3>1. {} \in SUBSET FreeFrames
      OBVIOUS
    <3> QED BY <2>1, <3>1 DEF MmapOnDemand
  <2>2. CASE MmapPrepaged(p)
    <3>1. {} \in SUBSET FreeFrames
      OBVIOUS
    <3> QED BY <2>2, <3>1 DEF MmapPrepaged, Blocks
  <2> QED BY <2>1, <2>2
<1>2. /\ fault' = fault /\ \A t \in Threads : proc[t] = p => fault[t] = AtUser
      /\ live' = live \cup {d}
      /\ ptr_to_pagelist'[d] = {} /\ d \notin live
      /\ \A e \in Data \ {d} : ptr_to_pagelist'[e] = ptr_to_pagelist[e]
  BY <1>1 DEF MmapOnDemand, MmapPrepaged, WriteLockable, NewData, TypeOK
<1>3. /\ \A q \in Procs : Covered(q) \subseteq Covered(q)'
      /\ \A q \in Procs : \A b, e : Has(q, b, e) => Has(q, b, e)'
      /\ \A q \in Procs \ {p} : \A b, e : Has(q, b, e)' => Has(q, b, e)
      /\ \A e \in Data \ {d} : Sharing(e)' = Sharing(e)
  BY <1>1 DEF Covered, AreasOf, Has, Sharing
<1>4. \A f : Stays(f)
  BY <1>1 DEF Stays
<1>5. \A e \in Data, f \in Frames : Linked(e, f)' =>
        Linked(e, f) /\ e \in live /\ e # d /\ f \in Allocated
  <2>1. \A s \in Threads : fault'[s].step = "link" => proc[s] # p
    BY <1>2 DEF AtUser
  <2>2. \A v \in vmas' : v.proc # p => v \in vmas
    BY <1>1
  <2>0. ASSUME NEW e \in Data, NEW f \in Frames, Linked(e, f)' PROVE Linked(e, f)
    <3>1. CASE f \in ptr_to_pagelist'[e]
      BY <1>2, <3>1 DEF Linked
    <3>2. CASE f \notin ptr_to_pagelist'[e]
      <4>1. PICK s \in Threads, v \in vmas' :
              /\ fault'[s].step = "link" /\ f \in fault'[s].rest
              /\ v.proc = proc[s] /\ fault'[s].page \in v.pages /\ v.data = e
        BY <2>0, <3>2 DEF Linked, Has
      <4>2. v \in vmas
        BY <2>1, <2>2, <4>1
      <4> QED BY <1>2, <4>1, <4>2 DEF Linked, Has
    <3> QED BY <3>1, <3>2
  <2>3. \A e \in Data, f \in Frames : Linked(e, f) => e \in live /\ f \in Allocated
    BY DEF Owned, ListsOK, Allocated
  <2> QED BY <1>2, <2>0, <2>3
<1>6. \A t \in Threads, f \in Frames : Holds(t, f)' <=> Holds(t, f)
  BY <1>2 DEF Holds, Holding
<1>7. \A t \in Threads, f \in Frames : Holds(t, f) => f \in Allocated
  <2>1. ASSUME NEW t \in Threads, NEW f \in Frames, Holds(t, f) PROVE f \in Allocated
    <3>1. [frame |-> f, for |-> proc[t], how |-> "fault"] \in taken
      BY <2>1 DEF Owned, HandsOK
    <3>2. PICK u \in taken : u = [frame |-> f, for |-> proc[t], how |-> "fault"]
      BY <3>1
    <3> QED BY <3>2 DEF Allocated
  <2> QED BY <2>1
<1>8. TakenOK'
  <2>1. \A u \in taken' : \/ u \in taken
                          \/ u \in Block(B) /\ u.frame \notin Allocated
    BY <1>1 DEF FreeFrames
  <2>2. \A u, w \in taken' : u.frame = w.frame => u = w
    <3>1. \A u, w \in Block(B) : u.frame = w.frame => u = w
      OBVIOUS
    <3> QED BY <2>1, <3>1 DEF Owned, TakenOK, Allocated
  <2>3. Faulted' = Faulted
    <3>1. \A u \in Block(B) : u.how # "fault"
      OBVIOUS
    <3> QED BY <1>1, <3>1 DEF Faulted
  <2> QED BY <2>2, <2>3 DEF Owned, TakenOK
<1>9. \A q \in Procs, b \in Va, f \in Frames :
        page_table'[q][b] = f /\ f \notin B => page_table[q][b] = f
  BY <1>1 DEF TypeOK
<1>10. \A f \in Allocated : f \notin B
  BY DEF FreeFrames
<1>11. ListsOK'
  BY <1>2, <1>3, <1>4, <1>5, <1>9, <1>10, ListsStay DEF Owned
<1>12. HandsOK'
  BY <1>2, <1>4, <1>5, <1>6, <1>7, <1>9, <1>10, HandsStay DEF Owned
<1>13. MappedOK'
  <2>1. CASE page_table' = page_table
    BY <1>3, <1>4, <2>1, MappedStays DEF Owned, MappedOK
  <2>2. ASSUME NEW pte \in [S -> B],
               \A a, b \in S : a # b => pte[a] # pte[b],
               page_table' = [page_table EXCEPT ![p] =
                 [a \in Va |-> IF a \in S THEN pte[a] ELSE @[a]]],
               taken' = taken \cup Block(B), vmas' = vmas \cup {New(S, d)}
        PROVE  MappedOK'
    <3>1. S \subseteq Covered(p)'
      <4>0. New(S, d).proc = p /\ New(S, d).pages = S /\ New(S, d) \in vmas'
        BY <2>2
      <4>1. PICK v \in vmas' : v.proc = p /\ v.pages = S
        BY <4>0
      <4> QED BY <4>1 DEF Covered, AreasOf
    <3>2. B \subseteq Allocated' /\ Allocated \subseteq Allocated'
      <4>1. \A b \in B : \E u \in taken' : u.frame = b
        <5>1. \A b \in B : \E u \in Block(B) : u.frame = b
          <6>1. ASSUME NEW b \in B PROVE \E u \in Block(B) : u.frame = b
            <7>1. [frame |-> b, for |-> p, how |-> "block"] \in Block(B)
              OBVIOUS
            <7> QED BY <7>1
          <6> QED BY <6>1
        <5> QED BY <2>2, <5>1
      <4>2. taken \subseteq taken'
        BY <2>2
      <4> QED BY <4>1, <4>2 DEF Allocated
    <3>3. \A q \in Procs, b \in Va :
            page_table'[q][b] = IF q = p /\ b \in S THEN pte[b] ELSE page_table[q][b]
      BY <2>2 DEF TypeOK
    <3>4. \A q \in Procs, b \in Va, f \in Frames : page_table[q][b] = f => f \notin B
      BY <1>10 DEF Owned, MappedOK
    <3>5. B \subseteq Frames
      BY DEF FreeFrames
    <3>6. ASSUME NEW q \in Procs, NEW b \in Va, NEW f \in Frames, page_table'[q][b] = f
          PROVE  /\ b \in Covered(q)' /\ f \in Allocated'
                 /\ \A r \in Procs, c \in Va : page_table'[r][c] = f => q = r /\ b = c
      <4>1. CASE q = p /\ b \in S
        <5>1. f = pte[b] /\ f \in B
          BY <3>3, <3>6, <4>1
        <5>2. \A r \in Procs, c \in Va : page_table'[r][c] = f => r = p /\ c \in S
          BY <3>3, <3>4, <5>1
        <5>3. \A r \in Procs, c \in Va : page_table'[r][c] = f => pte[c] = f
          BY <3>3, <5>2
        <5> QED BY <2>2, <3>1, <3>2, <4>1, <5>1, <5>2, <5>3
      <4>2. CASE ~(q = p /\ b \in S)
        <5>1. page_table[q][b] = f /\ f \notin B
          BY <3>3, <3>4, <3>6, <4>2
        <5>2. \A r \in Procs, c \in Va : page_table'[r][c] = f => page_table[r][c] = f
          BY <3>3, <5>1
        <5> QED BY <1>3, <3>2, <5>1, <5>2 DEF Owned, MappedOK
      <4> QED BY <4>1, <4>2
    <3> QED BY <3>6 DEF MappedOK
  <2> QED BY <1>1, <2>1, <2>2
<1> QED BY <1>8, <1>11, <1>12, <1>13 DEF Owned

LEMMA SplitKeepsOwned ==
  ASSUME TypeOK, Shares, Owned, NEW p \in Procs, Split(p)
  PROVE  Owned'
<1> DEFINE Low(v, a)  == {x \in v.pages : x <= a}
           High(v, a) == v.pages \ Low(v, a)
<1>1. PICK v \in AreasOf(p), a \in Va :
        vmas' = (vmas \ {v}) \cup
          {[v EXCEPT !.pages = Low(v, a)], [v EXCEPT !.pages = High(v, a)]}
  BY DEF Split
<1>2. v \in vmas /\ v.proc = p /\ v \in Areas
  BY DEF AreasOf, TypeOK
<1>3. PICK low, high :
        /\ vmas' = (vmas \ {v}) \cup {low, high}
        /\ low.proc = p /\ high.proc = p /\ low.data = v.data /\ high.data = v.data
        /\ low.pages \cup high.pages = v.pages
  <2>1. /\ [v EXCEPT !.pages = Low(v, a)].proc = p
        /\ [v EXCEPT !.pages = Low(v, a)].data = v.data
        /\ [v EXCEPT !.pages = Low(v, a)].pages = Low(v, a)
        /\ [v EXCEPT !.pages = High(v, a)].proc = p
        /\ [v EXCEPT !.pages = High(v, a)].data = v.data
        /\ [v EXCEPT !.pages = High(v, a)].pages = High(v, a)
    BY <1>2 DEF Areas
  <2> DEFINE low  == [v EXCEPT !.pages = Low(v, a)]
             high == [v EXCEPT !.pages = High(v, a)]
  <2>2. low.pages \cup high.pages = v.pages
    BY <2>1
  <2>3. vmas' = (vmas \ {v}) \cup {low, high}
    BY <1>1
  <2>4. low.proc = p /\ high.proc = p /\ low.data = v.data /\ high.data = v.data
    BY <2>1
  <2> HIDE DEF low, high
  <2> QED BY <2>2, <2>3, <2>4
<1> HIDE DEF Low, High
<1>4. UNCHANGED <<page_table, taken, live, ptr_to_pagelist, fault>>
  BY DEF Split, memory
<1>5. \A q \in Procs : \A b, e : Has(q, b, e)' <=> Has(q, b, e)
  BY <1>2, <1>3 DEF Has
<1>6. \A q \in Procs : Covered(q)' = Covered(q)
  BY <1>2, <1>3 DEF Covered, AreasOf
<1>7. \A e : \A w \in Sharing(e)' : \E x \in Sharing(e) : x.proc = w.proc
  BY <1>2, <1>3 DEF Sharing
<1>8. \A e \in Data, f \in Frames : Linked(e, f)' => Linked(e, f)
  BY <1>4, <1>5, PagingAssumption DEF Linked
<1>9. \A e \in Data, f \in Frames : Linked(e, f) => e \in live
  BY DEF Owned, ListsOK
<1>10. \A f : Stays(f)
  BY <1>4 DEF Stays
<1>11. \A t \in Threads, f \in Frames : Holds(t, f)' <=> Holds(t, f)
  BY <1>4 DEF Holds, Holding
<1>12. TakenOK'
  BY <1>4 DEF Owned, TakenOK, Faulted
<1>13. \A q \in Procs, b \in Va, f \in Frames : page_table[q][b] = f => b \in Covered(q)
  BY DEF Owned, MappedOK
<1> QED BY <1>4, <1>5, <1>6, <1>7, <1>8, <1>9, <1>10, <1>11, <1>12, <1>13, OwnedStays

(* The entries of the area go with it.                                     *)
LEMMA UnmapKeepsOwned ==
  ASSUME TypeOK, Shares, Owned, NEW p \in Procs, Unmap(p)
  PROVE  Owned'
<1>1. PICK v \in vmas :
        /\ v.proc = p /\ vmas' = vmas \ {v}
        /\ page_table' = [page_table EXCEPT ![p] =
             [a \in Va |-> IF a \in v.pages THEN NoFrame ELSE @[a]]]
  BY DEF Unmap, AreasOf
<1>2. UNCHANGED <<taken, live, ptr_to_pagelist, fault>>
  BY DEF Unmap, memory
<1>3. \A q \in Procs, b \in Va, f \in Frames : page_table'[q][b] = f =>
        page_table[q][b] = f /\ (q = p => b \notin v.pages)
  BY <1>1, PagingAssumption DEF TypeOK
<1>4. \A q \in Procs, b \in Va : (q = p => b \notin v.pages) =>
        /\ b \in Covered(q) => b \in Covered(q)'
        /\ \A e \in Data : Has(q, b, e) => Has(q, b, e)'
  BY <1>1 DEF Covered, AreasOf, Has
<1>5. \A e : Sharing(e)' \subseteq Sharing(e)
  BY <1>1 DEF Sharing
<1>6. \A e \in Data, f \in Frames : Linked(e, f)' => Linked(e, f)
  BY <1>1, <1>2 DEF Linked, Has
<1>7. \A e \in Data, f \in Frames : Linked(e, f) => e \in live
  BY DEF Owned, ListsOK
<1>8. \A f : Stays(f)
  BY <1>2 DEF Stays
<1>9. \A t \in Threads, f \in Frames : Holds(t, f)' <=> Holds(t, f)
  BY <1>2 DEF Holds, Holding
<1>10. TakenOK'
  BY <1>2 DEF Owned, TakenOK, Faulted
<1>11. \A q \in Procs, b \in Va, f \in Frames : page_table[q][b] = f => b \in Covered(q)
  BY DEF Owned, MappedOK
<1>12. \A q \in Procs, b \in Va, f \in Frames : page_table'[q][b] = f =>
         /\ page_table[q][b] = f /\ Stays(f) /\ b \in Covered(q)'
         /\ \A e \in Data : Has(q, b, e) => Has(q, b, e)'
  BY <1>3, <1>4, <1>8, <1>11
<1> QED BY <1>2, <1>5, <1>6, <1>7, <1>8, <1>9, <1>10, <1>12, OwnedStays

(* No area shares the data any more, so nobody can reach the page.         *)
LEMMA FreeCellKeepsOwned ==
  ASSUME TypeOK, Shares, Owned, NEW p \in Procs, FreeCell(p)
  PROVE  Owned'
<1>1. PICK d \in Data : /\ closing[p].data = d /\ Closing(p, d) /\ Sharing(d) = {}
                        /\ closing[p].step \in {"free", "again"}
  BY ClosingShape DEF FreeCell, Shares, ClosingOK
<1>2. PICK f \in ptr_to_pagelist[d] :
        /\ taken' = {u \in taken : u.frame # f}
        /\ ptr_to_pagelist' = [ptr_to_pagelist EXCEPT ![d] = ptr_to_pagelist[d] \ {f}]
  BY <1>1 DEF FreeCell
<1>3. f \in Frames /\ Linked(d, f)
  BY <1>2 DEF TypeOK, Linked
<1>4. UNCHANGED <<page_table, vmas, live, fault>>
  BY DEF FreeCell
<1>5. /\ \A q \in Procs : Covered(q)' = Covered(q)
      /\ \A e : Sharing(e)' = Sharing(e)
      /\ \A q : \A b, e : Has(q, b, e)' <=> Has(q, b, e)
      /\ \A t \in Threads, g \in Frames : Holds(t, g)' <=> Holds(t, g)
  BY <1>4 DEF Covered, AreasOf, Sharing, Has, Holds, Holding
<1>6. \A q : \A b : ~Has(q, b, d)
  BY <1>1 DEF Has, Sharing
<1>7. \A g : g # f => Stays(g)
  BY <1>2 DEF Stays
<1>8. \A e \in Data, g \in Frames : Linked(e, g)' => Linked(e, g) /\ g # f /\ e \in live
  <2>1. ASSUME NEW e \in Data, NEW g \in Frames, Linked(e, g)' PROVE Linked(e, g)
    BY <1>2, <1>4, <1>5, <2>1 DEF Linked, TypeOK
  <2>2. ~Linked(d, f)'
    BY <1>2, <1>4, <1>6 DEF Linked, Has, TypeOK
  <2>3. \A e \in Data, g \in Frames : Linked(e, g) => e \in live /\ (g = f => e = d)
    BY <1>3 DEF Owned, ListsOK
  <2> QED BY <2>1, <2>2, <2>3
<1>9. \A q \in Procs, b \in Va, g \in Frames : page_table[q][b] = g =>
        g # f /\ b \in Covered(q)
  BY <1>3, <1>6 DEF Owned, ListsOK, MappedOK
<1>10. \A t \in Threads, g \in Frames : Holds(t, g) => g # f
  BY <1>3 DEF Owned, HandsOK
<1>11. TakenOK'
  <2>1. Faulted' \subseteq Faulted
    BY <1>2 DEF Faulted
  <2>2. IsFiniteSet(Faulted')
    BY <2>1, FS_Subset DEF Owned, TakenOK
  <2> QED BY <1>2, <2>2 DEF Owned, TakenOK
<1> QED BY <1>4, <1>5, <1>7, <1>8, <1>9, <1>10, <1>11, OwnedStays

LEMMA KfreeKeepsOwned ==
  ASSUME TypeOK, Shares, Owned, NEW p \in Procs, KfreeData(p)
  PROVE  Owned'
<1>1. PICK d \in Data : closing[p].data = d /\ Closing(p, d) /\ Sharing(d) = {}
  BY ClosingShape DEF KfreeData, Shares, ClosingOK
<1>2. /\ UNCHANGED <<page_table, taken, vmas, fault>> /\ live' = live \ {d}
      /\ ptr_to_pagelist'[d] = {}
      /\ \A e \in Data \ {d} : ptr_to_pagelist'[e] = ptr_to_pagelist[e]
  BY <1>1 DEF KfreeData, TypeOK
<1>3. /\ \A q \in Procs : Covered(q)' = Covered(q)
      /\ \A e : Sharing(e)' = Sharing(e)
      /\ \A q : \A b, e : Has(q, b, e)' <=> Has(q, b, e)
      /\ \A t \in Threads, g \in Frames : Holds(t, g)' <=> Holds(t, g)
      /\ \A g : Stays(g)
  BY <1>2 DEF Covered, AreasOf, Sharing, Has, Holds, Holding, Stays
<1>4. \A q : \A b : ~Has(q, b, d)
  BY <1>1 DEF Has, Sharing
<1>5. \A e \in Data, g \in Frames : Linked(e, g)' => Linked(e, g) /\ e # d
  BY <1>2, <1>4 DEF Linked, Has
<1>6. \A e \in Data, g \in Frames : Linked(e, g) => e \in live
  BY DEF Owned, ListsOK
<1>7. \A q \in Procs, b \in Va, g \in Frames : page_table[q][b] = g => b \in Covered(q)
  BY DEF Owned, MappedOK
<1>8. TakenOK'
  BY <1>2 DEF Owned, TakenOK, Faulted
<1> QED BY <1>2, <1>3, <1>5, <1>6, <1>7, <1>8, OwnedStays

-----------------------------------------------------------------------------
(* The counters. *)

LEMMA UncountedIsFinite == IsFiniteSet(Uncounted)
  BY PagingAssumption, FS_Subset DEF Uncounted

LEMMA FaultKeepsLoss ==
  ASSUME TypeOK, Owned, LossOK, NEW t \in Threads, FaultStep(t)
  PROVE  LossOK'
<1>1. free_number' = free_number /\ \A s \in Threads \ {t} : fault'[s] = fault[s]
  BY DEF FaultStep, Fault, AllocPage, Remap, NewCell, LinkCell, TypeOK, counts
<1>2. /\ IsFiniteSet(Uncounted) /\ IsFiniteSet(Faulted)
      /\ Cardinality(Uncounted) \in Nat /\ Cardinality(Faulted) \in Nat
      /\ alloc_number \in Nat /\ free_number \in Nat
  BY UncountedIsFinite, FS_CardinalityType DEF Owned, TakenOK, TypeOK
<1>3. CASE Fault(t) \/ Remap(t) \/ LinkCell(t)
  <2>1. fault'[t].step \in {"remap", "cell"} <=> fault[t].step \in {"remap", "cell"}
    <3>1. CASE Fault(t)
      <4>1. \E a \in Va \cup Covered(proc[t]) : fault'[t] = [step |-> "alloc", page |-> a]
        BY <3>1 DEF Fault, TypeOK
      <4>2. fault[t].step = "user"
        BY <3>1 DEF Fault, AtUser
      <4> QED BY <4>1, <4>2
    <3>2. CASE Remap(t)
      <4>1. fault'[t].step = "cell"
        BY <3>2, FaultShape DEF Remap, TypeOK
      <4> QED BY <3>2, <4>1 DEF Remap
    <3>3. CASE LinkCell(t)
      BY <3>3 DEF LinkCell, TypeOK, AtUser
    <3> QED BY <1>3, <3>1, <3>2, <3>3
  <2>2. Uncounted' = Uncounted
    BY <1>1, <2>1 DEF Uncounted
  <2>3. UNCHANGED <<taken, alloc_number>>
    BY <1>3 DEF Fault, Remap, LinkCell, counts
  <2>4. Faulted' = Faulted
    BY <2>3 DEF Faulted
  <2> QED BY <1>1, <2>2, <2>3, <2>4 DEF LossOK
<1>4. CASE AllocPage(t)
  <2>1. alloc_number' = alloc_number /\ t \notin Uncounted
    BY <1>4 DEF AllocPage, counts, Uncounted
  <2>2. CASE fault' = [fault EXCEPT ![t] = AtUser] /\ taken' = taken
    <3>1. fault'[t].step = "user"
      BY <2>2 DEF TypeOK, AtUser
    <3>2. Uncounted' = Uncounted
      BY <1>1, <2>1, <3>1 DEF Uncounted
    <3>3. Faulted' = Faulted
      BY <2>2 DEF Faulted
    <3> QED BY <1>1, <2>1, <3>2, <3>3 DEF LossOK
  <2>3. ASSUME NEW f \in FreeFrames,
               taken' = taken \cup {[frame |-> f, for |-> proc[t], how |-> "fault"]},
               fault' = [fault EXCEPT ![t] =
                 [step |-> "remap", page |-> @.page, frame |-> f]]
        PROVE  LossOK'
    <3> DEFINE u == [frame |-> f, for |-> proc[t], how |-> "fault"]
    <3>1. fault'[t].step = "remap"
      BY <2>3 DEF TypeOK
    <3>2. Uncounted' = Uncounted \cup {t}
      BY <1>1, <3>1 DEF Uncounted
    <3>3. Faulted' = Faulted \cup {u}
      BY <2>3 DEF Faulted
    <3>4. u \notin Faulted
      <4>1. \A w \in taken : w.frame # f
        BY DEF FreeFrames, Allocated
      <4> QED BY <4>1 DEF Faulted
    <3> HIDE DEF u
    <3>5. Cardinality(Uncounted \cup {t}) = Cardinality(Uncounted) + 1
      BY <1>2, <2>1, FS_AddElement
    <3>6. Cardinality(Faulted \cup {u}) = Cardinality(Faulted) + 1
      BY <1>2, <3>4, FS_AddElement
    <3> QED BY <1>1, <1>2, <2>1, <3>2, <3>3, <3>5, <3>6 DEF LossOK
  <2> QED BY <1>4, <2>2, <2>3 DEF AllocPage
<1>5. CASE NewCell(t)
  <2>1. t \in Uncounted /\ alloc_number' = alloc_number + 1 /\ taken' = taken
    BY <1>5 DEF NewCell, Uncounted
  <2>2. fault'[t].step = "link"
    BY <1>5 DEF NewCell, TypeOK
  <2>3. Uncounted' = Uncounted \ {t}
    BY <1>1, <2>2 DEF Uncounted
  <2>4. Faulted' = Faulted
    BY <2>1 DEF Faulted
  <2>5. Cardinality(Uncounted \ {t}) = Cardinality(Uncounted) - 1
    BY <1>2, <2>1, FS_RemoveElement
  <2> QED BY <1>1, <1>2, <2>1, <2>3, <2>4, <2>5 DEF LossOK
<1> QED BY <1>3, <1>4, <1>5 DEF FaultStep

(* The page that goes is of one fault.                                     *)
LEMMA FreeCellKeepsLoss ==
  ASSUME TypeOK, Owned, LossOK, NEW p \in Procs, FreeCell(p)
  PROVE  LossOK'
<1>1. closing[p].data \in Data
  BY ClosingShape DEF FreeCell
<1>2. PICK f \in ptr_to_pagelist[closing[p].data] :
        taken' = {u \in taken : u.frame # f}
  BY DEF FreeCell
<1>3. f \in Frames /\ Linked(closing[p].data, f)
  BY <1>1, <1>2 DEF TypeOK, Linked
<1>4. PICK u \in taken : u.frame = f /\ u.how = "fault"
  BY <1>1, <1>3 DEF Owned, ListsOK
<1>5. Faulted' = Faulted \ {u} /\ u \in Faulted
  BY <1>2, <1>4 DEF Faulted, Owned, TakenOK
<1>6. Cardinality(Faulted \ {u}) = Cardinality(Faulted) - 1
  BY <1>5, FS_RemoveElement DEF Owned, TakenOK
<1>7. /\ free_number' = free_number + 1
      /\ UNCHANGED <<alloc_number, fault>>
  BY DEF FreeCell, CountFreed
<1>8. Uncounted' = Uncounted
  BY <1>7 DEF Uncounted
<1>9. /\ Cardinality(Uncounted) \in Nat /\ Cardinality(Faulted) \in Nat
      /\ alloc_number \in Nat /\ free_number \in Nat
  BY UncountedIsFinite, FS_CardinalityType DEF Owned, TakenOK, TypeOK
<1> QED BY <1>5, <1>6, <1>7, <1>8, <1>9 DEF LossOK

LEMMA OthersKeepLoss ==
  ASSUME TypeOK, LossOK, NEW p \in Procs,
         \/ MmapOnDemand(p) \/ MmapPrepaged(p) \/ Split(p) \/ Unmap(p)
         \/ Put(p) \/ FreeBlock(p) \/ KfreeData(p) \/ SetParameter \/ RemoveModule
  PROVE  LossOK'
<1>1. UNCHANGED <<alloc_number, free_number, fault>>
  BY DEF MmapOnDemand, MmapPrepaged, Split, Unmap, Put, FreeBlock, KfreeData,
         SetParameter, RemoveModule, counts
<1>2. Uncounted' = Uncounted
  BY <1>1 DEF Uncounted
<1>3. Faulted' = Faulted
  <2>1. CASE MmapPrepaged(p)
    <3>1. \E B : taken' \in {taken, taken \cup [frame : B, for : {p}, how : {"block"}]}
      BY <2>1 DEF MmapPrepaged
    <3>2. PICK B : taken' \in {taken, taken \cup [frame : B, for : {p}, how : {"block"}]}
      BY <3>1
    <3>3. \A u \in [frame : B, for : {p}, how : {"block"}] : u.how # "fault"
      OBVIOUS
    <3> QED BY <3>2, <3>3 DEF Faulted
  <2>2. CASE ~MmapPrepaged(p)
    <3>1. taken' = taken
      BY <2>2 DEF MmapOnDemand, Split, Unmap, Put, FreeBlock, KfreeData,
                  SetParameter, RemoveModule
    <3> QED BY <3>1 DEF Faulted
  <2> QED BY <2>1, <2>2
<1> QED BY <1>1, <1>2, <1>3 DEF LossOK

-----------------------------------------------------------------------------
(* The parameter. *)

(* While nobody writes the parameter, a step adds no page of a fault, no   *)
(* busy thread and no entry to clear unless the device pages on demand.    *)
LEMMA ModeStays ==
  ASSUME ModeOK, toggles' = toggles, demand_paging' = demand_paging,
         demand_paging => \A p \in Procs : closing'[p].step \in {"block", "done"} =>
                            closing[p].step \in {"block", "done"},
         ~demand_paging =>
           /\ \A t \in Threads : Busy(t)' => Busy(t)
           /\ Faulted' \subseteq Faulted
           /\ \A p \in Procs : \A a \in Covered(p)' : page_table'[p][a] = NoFrame =>
                a \in Covered(p) /\ page_table[p][a] = NoFrame
  PROVE  ModeOK'
<1> SUFFICES ASSUME toggles' = 0
             PROVE (IF demand_paging
                     THEN \A p \in Procs : closing[p].step \notin {"block", "done"}
                     ELSE /\ \A t \in Threads : ~Busy(t)
                          /\ Faulted = {}
                          /\ \A p \in Procs : \A a \in Covered(p) :
                               page_table[p][a] # NoFrame)'
  BY DEF ModeOK
<1>1. CASE demand_paging
  BY <1>1 DEF ModeOK
<1>2. CASE ~demand_paging
  <2>1. /\ \A t \in Threads : ~Busy(t)
        /\ Faulted = {}
        /\ \A p \in Procs : \A a \in Covered(p) : page_table[p][a] # NoFrame
    BY <1>2 DEF ModeOK
  <2> QED BY <1>2, <2>1
<1> QED BY <1>1, <1>2

LEMMA FaultKeepsMode ==
  ASSUME TypeOK, ModeOK, NEW t \in Threads, FaultStep(t)
  PROVE  ModeOK'
<1>1. UNCHANGED <<toggles, demand_paging, closing, vmas>>
  BY DEF FaultStep, Fault, AllocPage, Remap, NewCell, LinkCell, module
<1>2. CASE demand_paging
  BY <1>1, <1>2, ModeStays
<1>3. CASE ~demand_paging /\ toggles = 0
  <2>1. ~Busy(t) /\ \A a \in Covered(proc[t]) : page_table[proc[t]][a] # NoFrame
    BY <1>3, FaultShape DEF ModeOK
  <2>2. ~Fault(t)
    BY <2>1 DEF Fault
  <2>3. fault[t].step = "user"
    BY <2>1, FaultShape
  <2> QED BY <2>2, <2>3 DEF FaultStep, AllocPage, Remap, NewCell, LinkCell
<1>4. CASE toggles # 0
  BY <1>1, <1>4 DEF ModeOK
<1> QED BY <1>2, <1>3, <1>4

LEMMA MmapKeepsMode ==
  ASSUME TypeOK, Shares, Owned, ModeOK, NEW p \in Procs,
         MmapOnDemand(p) \/ MmapPrepaged(p)
  PROVE  ModeOK'
<1>1. UNCHANGED <<toggles, demand_paging, closing, fault>>
  BY DEF MmapOnDemand, MmapPrepaged, module
<1>2. CASE MmapOnDemand(p)
  <2>1. demand_paging
    BY <1>2 DEF MmapOnDemand
  <2> QED BY <1>1, <2>1, ModeStays
<1>3. CASE MmapPrepaged(p)
  <2>1. ~demand_paging /\ (\A t \in Threads : Busy(t)' => Busy(t))
    BY <1>1, <1>3 DEF MmapPrepaged, Busy
  <2>2. Faulted' = Faulted
    <3>1. \E B : taken' \in {taken, taken \cup [frame : B, for : {p}, how : {"block"}]}
      BY <1>3 DEF MmapPrepaged
    <3>2. PICK B : taken' \in {taken, taken \cup [frame : B, for : {p}, how : {"block"}]}
      BY <3>1
    <3>3. \A u \in [frame : B, for : {p}, how : {"block"}] : u.how # "fault"
      OBVIOUS
    <3> QED BY <3>2, <3>3 DEF Faulted
  <2>3. \A q \in Procs : \A a \in Covered(q)' : page_table'[q][a] = NoFrame =>
          a \in Covered(q) /\ page_table[q][a] = NoFrame
    <3>1. CASE vmas' = vmas /\ page_table' = page_table
      BY <3>1 DEF Covered, AreasOf
    <3>2. ASSUME NEW S \in Unused(p), NEW d \in Data, NEW B \in SUBSET Frames,
                 NEW pte \in [S -> B],
                 page_table' = [page_table EXCEPT ![p] =
                   [a \in Va |-> IF a \in S THEN pte[a] ELSE @[a]]],
                 vmas' = vmas \cup {[proc |-> p, pages |-> S, data |-> d]}
          PROVE  \A q \in Procs : \A a \in Covered(q)' : page_table'[q][a] = NoFrame =>
                   a \in Covered(q) /\ page_table[q][a] = NoFrame
      <4>1. \A q \in Procs : \A a \in Covered(q)' :
              a \in Covered(q) \/ (q = p /\ a \in S)
        BY <3>2 DEF Covered, AreasOf
      <4>2. \A q \in Procs, a \in Va :
              page_table'[q][a] = IF q = p /\ a \in S THEN pte[a] ELSE page_table[q][a]
        BY <3>2 DEF TypeOK
      <4>3. \A a \in S : pte[a] # NoFrame
        BY PagingAssumption
      <4>4. \A q \in Procs : Covered(q) \subseteq Va
        BY AreaShape DEF Covered, AreasOf
      <4>5. S \subseteq Va
        BY DEF Unused
      <4> QED BY <4>1, <4>2, <4>3, <4>4, <4>5
    <3> QED BY <1>3, <3>1, <3>2 DEF MmapPrepaged, Blocks, FreeFrames
  <2> QED BY <1>1, <2>1, <2>2, <2>3, ModeStays
<1> QED BY <1>2, <1>3

LEMMA AreasKeepMode ==
  ASSUME TypeOK, Shares, ModeOK, NEW p \in Procs, Split(p) \/ Unmap(p)
  PROVE  ModeOK'
<1>1. UNCHANGED <<toggles, demand_paging, fault, taken>>
  BY DEF Split, Unmap, module
<1>2. (\A t \in Threads : Busy(t)' => Busy(t)) /\ Faulted' = Faulted
  BY <1>1 DEF Busy, Faulted
<1>3. CASE Split(p)
  <2>1. closing' = closing /\ page_table' = page_table
    BY <1>3 DEF Split
  <2>0. PICK v \in AreasOf(p), a \in Va :
          vmas' = (vmas \ {v}) \cup
            {[v EXCEPT !.pages = {x \in v.pages : x <= a}],
             [v EXCEPT !.pages = v.pages \ {x \in v.pages : x <= a}]}
    BY <1>3 DEF Split
  <2>2. PICK low \in SUBSET v.pages, high \in SUBSET v.pages :
          vmas' = (vmas \ {v}) \cup
            {[v EXCEPT !.pages = low], [v EXCEPT !.pages = high]}
    BY <2>0
  <2>3. PICK below, above : /\ vmas' = (vmas \ {v}) \cup {below, above}
                            /\ below.proc = p /\ below.pages \subseteq v.pages
                            /\ above.proc = p /\ above.pages \subseteq v.pages
    <3> DEFINE below == [v EXCEPT !.pages = low]
               above == [v EXCEPT !.pages = high]
    <3>1. below.proc = p /\ below.pages = low /\ above.proc = p /\ above.pages = high
      BY DEF AreasOf, TypeOK, Areas
    <3>2. vmas' = (vmas \ {v}) \cup {below, above}
      BY <2>2
    <3> HIDE DEF below, above
    <3> QED BY <3>1, <3>2
  <2>5. v \in vmas /\ v.proc = p
    BY DEF AreasOf
  <2>4. \A q \in Procs : Covered(q)' \subseteq Covered(q)
    BY <2>3, <2>5 DEF Covered, AreasOf
  <2> QED BY <1>1, <1>2, <2>1, <2>4, ModeStays
<1>4. CASE Unmap(p)
  <2>1. PICK v \in vmas :
          /\ v.proc = p /\ vmas' = vmas \ {v}
          /\ page_table' = [page_table EXCEPT ![p] =
               [a \in Va |-> IF a \in v.pages THEN NoFrame ELSE @[a]]]
          /\ closing' = [closing EXCEPT ![p] = [step |-> "put", data |-> v.data]]
    BY <1>4 DEF Unmap, AreasOf
  <2>2. \A q \in Procs : closing'[q] = closing[q] \/ closing'[q].step = "put"
    BY <2>1 DEF TypeOK
  <2>3. \A q \in Procs : \A a \in Covered(q)' :
          a \in Covered(q) /\ (q = p => a \notin v.pages)
    BY <2>1 DEF Covered, AreasOf, Shares, AreasOK
  <2>4. \A q \in Procs : Covered(q) \subseteq Va
    BY AreaShape DEF Covered, AreasOf
  <2>5. \A q \in Procs : \A a \in Covered(q)' : page_table'[q][a] = page_table[q][a]
    BY <2>1, <2>3, <2>4 DEF TypeOK
  <2> QED BY <1>1, <1>2, <2>2, <2>3, <2>5, ModeStays
<1> QED BY <1>3, <1>4

(* With demand paging the last close goes through the list.                *)
LEMMA CloseKeepsMode ==
  ASSUME TypeOK, ModeOK, NEW p \in Procs,
         Put(p) \/ FreeCell(p) \/ FreeBlock(p) \/ KfreeData(p)
  PROVE  ModeOK'
<1>1. UNCHANGED <<toggles, demand_paging, fault, vmas, page_table>>
  BY DEF Put, FreeCell, FreeBlock, KfreeData, module
<1>2. /\ \A t \in Threads : Busy(t)' => Busy(t)
      /\ \A q \in Procs : Covered(q)' = Covered(q)
  BY <1>1 DEF Busy, Covered, AreasOf
<1>3. Faulted' \subseteq Faulted
  BY DEF Put, FreeCell, FreeBlock, KfreeData, Faulted
<1>4. \A q \in Procs \ {p} : closing'[q] = closing[q]
  BY DEF Put, FreeCell, FreeBlock, KfreeData, TypeOK
<1>5. closing[p].step # "no" => \A s : [closing[p] EXCEPT !.step = s].step = s
  <2>1. closing[p].step # "no" =>
          closing[p] \in [step : {"put", "free", "again", "block", "done"}, data : Data]
    BY ClosingShape DEF TypeOK, ClosingStates, NotClosing
  <2> QED BY <2>1
<1>6. demand_paging => (closing'[p].step \in {"block", "done"} =>
                          closing[p].step \in {"block", "done"})
  <2>1. CASE Put(p)
    <3>1. demand_paging =>
            closing'[p] = NotClosing \/ closing'[p] = [closing[p] EXCEPT !.step = "free"]
      BY <2>1 DEF Put, TypeOK
    <3>2. closing[p].step # "no"
      BY <2>1 DEF Put
    <3>3. /\ [closing[p] EXCEPT !.step = "free"].step \notin {"block", "done"}
          /\ NotClosing.step \notin {"block", "done"}
      BY <1>5, <3>2 DEF NotClosing
    <3> QED BY <3>1, <3>3
  <2>2. CASE FreeCell(p)
    <3>1. closing'[p] = [closing[p] EXCEPT !.step = "again"]
      BY <2>2 DEF FreeCell, TypeOK
    <3>2. closing[p].step # "no"
      BY <2>2 DEF FreeCell
    <3> QED BY <1>5, <3>1, <3>2
  <2>3. CASE FreeBlock(p)
    BY <2>3 DEF FreeBlock
  <2>4. CASE KfreeData(p)
    BY <2>4 DEF KfreeData, NotClosing, TypeOK
  <2> QED BY <2>1, <2>2, <2>3, <2>4
<1> QED BY <1>1, <1>2, <1>3, <1>4, <1>6, ModeStays

LEMMA ModuleKeepsMode ==
  ASSUME TypeOK, ModeOK, SetParameter \/ RemoveModule
  PROVE  ModeOK'
<1>1. CASE SetParameter
  <2>1. toggles' # 0
    BY <1>1, PagingAssumption DEF SetParameter, TypeOK
  <2> QED BY <2>1 DEF ModeOK
<1>2. CASE RemoveModule
  <2>1. UNCHANGED <<toggles, demand_paging, closing, fault, taken, vmas, page_table>>
    BY <1>2 DEF RemoveModule
  <2>2. \A p \in Procs : Covered(p)' = Covered(p)
    BY <2>1 DEF Covered, AreasOf
  <2>3. Faulted' = Faulted /\ \A t \in Threads : Busy(t)' <=> Busy(t)
    BY <2>1 DEF Faulted, Busy
  <2> QED BY <2>1, <2>2, <2>3, ModeStays
<1> QED BY <1>1, <1>2

-----------------------------------------------------------------------------
(* What the only thread of a process has read is still the list. *)

LEMMA AloneStays ==
  ASSUME AloneOK,
         \A t \in Threads, d \in Data :
           /\ Alone(proc[t]) /\ fault'[t].step = "link"
           /\ \E v \in vmas' : v.proc = proc[t] /\ fault'[t].page \in v.pages /\ v.data = d
           => /\ fault'[t] = fault[t] /\ Has(proc[t], fault[t].page, d)
              /\ ptr_to_pagelist'[d] = ptr_to_pagelist[d]
  PROVE  AloneOK'
<1>1. ASSUME NEW t \in Threads, NEW d \in Data, Alone(proc[t]), fault'[t].step = "link",
             \E v \in vmas' : v.proc = proc[t] /\ fault'[t].page \in v.pages /\ v.data = d
      PROVE  fault'[t].rest = ptr_to_pagelist'[d]
  <2>1. /\ fault'[t] = fault[t] /\ Has(proc[t], fault[t].page, d)
        /\ ptr_to_pagelist'[d] = ptr_to_pagelist[d]
    BY <1>1
  <2> QED BY <1>1, <2>1 DEF AloneOK
<1> QED BY <1>1 DEF AloneOK, Alone, Has

LEMMA AloneIsOnly ==
  ASSUME NEW s \in Threads, NEW t \in Threads, proc[s] = proc[t], Alone(proc[t])
  PROVE  s = t
<1> DEFINE T == {r \in Threads : proc[r] = proc[t]}
<1>1. IsFiniteSet(T) /\ Cardinality(T) = 1
  BY PagingAssumption, FS_Subset DEF Alone
<1>2. \E x : T = {x}
  BY <1>1, FS_Singleton
<1> QED BY <1>2

LEMMA FaultKeepsAlone ==
  ASSUME TypeOK, Shares, AloneOK, NEW t \in Threads, FaultStep(t)
  PROVE  AloneOK'
<1>1. vmas' = vmas /\ \A s \in Threads \ {t} : fault'[s] = fault[s]
  BY DEF FaultStep, Fault, AllocPage, Remap, NewCell, LinkCell, TypeOK
<1>2. CASE Fault(t) \/ AllocPage(t) \/ Remap(t)
  <2>1. fault'[t].step # "link"
    <3>1. CASE Fault(t)
      <4>1. \E a \in Covered(proc[t]) : fault'[t] = [step |-> "alloc", page |-> a]
        BY <3>1 DEF Fault, TypeOK
      <4> QED BY <4>1
    <3>2. CASE AllocPage(t)
      BY <3>2 DEF AllocPage, TypeOK, AtUser
    <3>3. CASE Remap(t)
      BY <3>3, FaultShape DEF Remap, TypeOK
    <3> QED BY <1>2, <3>1, <3>2, <3>3
  <2>2. ptr_to_pagelist' = ptr_to_pagelist
    BY <1>2 DEF Fault, AllocPage, Remap, memory
  <2> QED BY <1>1, <2>1, <2>2, AloneStays DEF Has
<1>3. CASE NewCell(t)
  <2>1. /\ ptr_to_pagelist' = ptr_to_pagelist /\ Busy(t)
        /\ fault'[t].page = fault[t].page
        /\ fault'[t].rest = ptr_to_pagelist[DataAt(t)]
    BY <1>3, FaultShape DEF NewCell, TypeOK, memory
  <2>2. \A d \in Data : Has(proc[t], fault[t].page, d) <=> d = DataAt(t)
    BY <2>1, DataAtIs DEF Shares
  <2>3. ASSUME NEW s \in Threads, NEW d \in Data, Alone(proc[s]), fault'[s].step = "link",
               \E v \in vmas : v.proc = proc[s] /\ fault'[s].page \in v.pages /\ v.data = d
        PROVE  fault'[s].rest = ptr_to_pagelist[d]
    <3>1. CASE s = t
      BY <2>1, <2>2, <2>3, <3>1 DEF Has
    <3>2. CASE s # t
      BY <1>1, <2>3, <3>2 DEF AloneOK, Has
    <3> QED BY <3>1, <3>2
  <2> QED BY <1>1, <2>1, <2>3 DEF AloneOK, Alone, Has
<1>4. CASE LinkCell(t)
  <2>1. PICK D \in Data : D = DataAt(t) /\ Has(proc[t], fault[t].page, D)
    <3>1. Busy(t)
      BY <1>4, FaultShape DEF LinkCell
    <3> QED BY <3>1, DataAtIs DEF Shares
  <2>2. /\ \A d \in Data \ {D} : ptr_to_pagelist'[d] = ptr_to_pagelist[d]
        /\ fault'[t].step # "link"
    BY <1>4, <2>1 DEF LinkCell, TypeOK, AtUser
  <2>3. \A s \in Threads \ {t}, a \in Va : Alone(proc[s]) => ~Has(proc[s], a, D)
    <3>1. ASSUME NEW s \in Threads \ {t}, NEW a \in Va, Alone(proc[s]), Has(proc[s], a, D)
          PROVE  FALSE
      <4>1. proc[s] = proc[t]
        BY <2>1, <3>1 DEF Has, Shares, AreasOK
      <4> QED BY <3>1, <4>1, AloneIsOnly
    <3> QED BY <3>1
  <2>4. ASSUME NEW s \in Threads, NEW d \in Data, Alone(proc[s]), fault'[s].step = "link",
               \E v \in vmas' : v.proc = proc[s] /\ fault'[s].page \in v.pages /\ v.data = d
        PROVE  /\ fault'[s] = fault[s] /\ Has(proc[s], fault[s].page, d)
               /\ ptr_to_pagelist'[d] = ptr_to_pagelist[d]
    <3>1. s # t /\ fault'[s] = fault[s]
      BY <1>1, <2>2, <2>4
    <3>2. Has(proc[s], fault[s].page, d)
      BY <1>1, <2>4, <3>1 DEF Has
    <3>3. fault[s].page \in Va
      BY <3>2, AreaShape DEF Has
    <3>4. d # D
      BY <2>3, <2>4, <3>1, <3>2, <3>3
    <3> QED BY <2>2, <3>1, <3>2, <3>4
  <2> QED BY <2>4, AloneStays
<1> QED BY <1>2, <1>3, <1>4 DEF FaultStep

(* The other steps change only lists of which no thread is in an area.     *)
LEMMA OthersKeepAlone ==
  ASSUME TypeOK, Shares, AloneOK, NEW p \in Procs,
         \/ MmapOnDemand(p) \/ MmapPrepaged(p) \/ Split(p) \/ Unmap(p)
         \/ Put(p) \/ FreeCell(p) \/ FreeBlock(p) \/ KfreeData(p)
         \/ SetParameter \/ RemoveModule
  PROVE  AloneOK'
<1>1. fault' = fault
  BY DEF MmapOnDemand, MmapPrepaged, Split, Unmap, Put, FreeCell, FreeBlock, KfreeData,
         SetParameter, RemoveModule
<1>2. \A v \in vmas' : \/ v \in vmas
                       \/ v.proc = p /\ \A t \in Threads : proc[t] = p => fault[t] = AtUser
                       \/ \E w \in vmas : /\ v.proc = w.proc /\ v.data = w.data
                                          /\ v.pages \subseteq w.pages
  <2>1. CASE MmapOnDemand(p) \/ MmapPrepaged(p)
    <3>1. \E S \in Unused(p), d \in Data :
            vmas' \in {vmas, vmas \cup {[proc |-> p, pages |-> S, data |-> d]}}
      BY <2>1 DEF MmapOnDemand, MmapPrepaged
    <3>2. \A t \in Threads : proc[t] = p => fault[t] = AtUser
      BY <2>1 DEF MmapOnDemand, MmapPrepaged, WriteLockable
    <3> QED BY <3>1, <3>2
  <2>2. CASE Split(p)
    <3>1. PICK v \in AreasOf(p), a \in Va :
            vmas' = (vmas \ {v}) \cup
              {[v EXCEPT !.pages = {x \in v.pages : x <= a}],
               [v EXCEPT !.pages = v.pages \ {x \in v.pages : x <= a}]}
      BY <2>2 DEF Split
    <3>2. \A S \in SUBSET v.pages :
            /\ [v EXCEPT !.pages = S].proc = v.proc
            /\ [v EXCEPT !.pages = S].data = v.data
            /\ [v EXCEPT !.pages = S].pages = S
      BY DEF AreasOf, TypeOK, Areas
    <3>3. PICK low \in SUBSET v.pages, high \in SUBSET v.pages :
            vmas' = (vmas \ {v}) \cup
              {[v EXCEPT !.pages = low], [v EXCEPT !.pages = high]}
      BY <3>1
    <3>4. v \in vmas
      BY DEF AreasOf
    <3>5. \A x \in vmas' : x \in vmas \/ \E S \in SUBSET v.pages : x = [v EXCEPT !.pages = S]
      BY <3>3
    <3>6. ASSUME NEW x \in vmas', x \notin vmas
          PROVE  x.proc = v.proc /\ x.data = v.data /\ x.pages \subseteq v.pages
      <4>1. PICK S \in SUBSET v.pages : x = [v EXCEPT !.pages = S]
        BY <3>5, <3>6
      <4>2. x.proc = v.proc /\ x.data = v.data /\ x.pages = S
        BY <3>2, <4>1
      <4> QED BY <4>2
    <3> QED BY <3>4, <3>6
  <2>3. CASE ~(MmapOnDemand(p) \/ MmapPrepaged(p) \/ Split(p))
    <3>1. vmas' \subseteq vmas
      BY <2>3 DEF Unmap, Put, FreeCell, FreeBlock, KfreeData, SetParameter, RemoveModule
    <3> QED BY <3>1
  <2> QED BY <2>1, <2>2, <2>3
<1>3. \A d \in Data : \/ ptr_to_pagelist'[d] = ptr_to_pagelist[d]
                      \/ Sharing(d) = {}
  <2>1. CASE MmapOnDemand(p) \/ MmapPrepaged(p)
    <3>1. PICK d \in Data \ live : NewData(d)
      BY <2>1 DEF MmapOnDemand, MmapPrepaged
    <3>2. Sharing(d) = {}
      BY DEF Shares, AreasOK, Sharing
    <3>3. \A e \in Data \ {d} : ptr_to_pagelist'[e] = ptr_to_pagelist[e]
      BY <3>1 DEF NewData, TypeOK
    <3> QED BY <3>2, <3>3
  <2>2. CASE FreeCell(p) \/ KfreeData(p)
    <3>1. PICK d \in Data : closing[p].data = d /\ Closing(p, d) /\ Sharing(d) = {}
      BY <2>2, ClosingShape DEF FreeCell, KfreeData, Shares, ClosingOK
    <3>2. \A e \in Data \ {d} : ptr_to_pagelist'[e] = ptr_to_pagelist[e]
      BY <2>2, <3>1 DEF FreeCell, KfreeData, TypeOK
    <3> QED BY <3>1, <3>2
  <2>3. CASE Split(p) \/ Unmap(p) \/ Put(p) \/ FreeBlock(p) \/ SetParameter \/ RemoveModule
    BY <2>3 DEF Split, Unmap, Put, FreeBlock, SetParameter, RemoveModule, memory
  <2> QED BY <2>1, <2>2, <2>3
<1>4. ASSUME NEW s \in Threads, NEW d \in Data, fault'[s].step = "link",
             \E v \in vmas' : v.proc = proc[s] /\ fault'[s].page \in v.pages /\ v.data = d
      PROVE  /\ fault'[s] = fault[s] /\ Has(proc[s], fault[s].page, d)
             /\ ptr_to_pagelist'[d] = ptr_to_pagelist[d]
  <2>1. fault'[s] = fault[s] /\ fault[s] # AtUser
    BY <1>1, <1>4 DEF AtUser
  <2>2. Has(proc[s], fault[s].page, d)
    BY <1>2, <1>4, <2>1 DEF Has
  <2>3. Sharing(d) # {}
    BY <2>2 DEF Has, Sharing
  <2> QED BY <1>3, <2>1, <2>2, <2>3
<1> QED BY <1>4, AloneStays

-----------------------------------------------------------------------------
(* The pages of processes with one thread. *)

Safe(f) == InHand(f) \/ WillBeFreed(f)

LEMMA SafeStays ==
  ASSUME NoPageLost, intact, toggles' = 0 => toggles = 0,
         \A u \in taken' : u.how = "fault" /\ Alone(u.for) /\ toggles = 0 =>
           u \in taken /\ (Safe(u.frame) => Safe(u.frame)')
  PROVE  NoPageLost'
BY DEF NoPageLost, Safe, Alone

(* Only the fault moves a page, from its hands to the list.                *)
LEMMA FaultKeepsSafe ==
  ASSUME TypeOK, Shares, Owned, AloneOK, NoPageLost, intact,
         NEW t \in Threads, FaultStep(t)
  PROVE  NoPageLost'
<1>1. /\ UNCHANGED <<vmas, live, closing, toggles>>
      /\ \A s \in Threads \ {t} : fault'[s] = fault[s]
  BY DEF FaultStep, Fault, AllocPage, Remap, NewCell, LinkCell, TypeOK, memory, module
<1>2. /\ \A d \in Data : Sharing(d)' = Sharing(d)
      /\ \A p \in Procs, d \in Data : Closing(p, d)' <=> Closing(p, d)
  BY <1>1 DEF Sharing, Closing
<1>3. \A f \in Frames : InHand(f) <=> \E s \in Threads : Holds(s, f)
  BY DEF InHand, Holds, Holding
<1>4. \A f \in Frames : InHand(f)' <=> \E s \in Threads : Holds(s, f)'
  BY DEF InHand, Holds, Holding
<1>5. \A s \in Threads \ {t}, f \in Frames : Holds(s, f)' <=> Holds(s, f)
  BY <1>1 DEF Holds, Holding
<1>6. \A u \in taken : u.frame \in Frames
  BY DEF TypeOK, Uses
<1>7. CASE Fault(t) \/ AllocPage(t) \/ Remap(t) \/ NewCell(t)
  <2>1. ptr_to_pagelist' = ptr_to_pagelist
    BY <1>7 DEF Fault, AllocPage, Remap, NewCell, memory
  <2>2. \A f \in Frames : WillBeFreed(f) => WillBeFreed(f)'
    BY <1>1, <2>1 DEF WillBeFreed, Sharing
  <2>3. \A f \in Frames : Holds(t, f) => Holds(t, f)'
    <3>1. CASE Fault(t) \/ AllocPage(t)
      <4>1. ~Holding(t)
        BY <3>1 DEF Fault, AllocPage, Holding, AtUser
      <4> QED BY <4>1 DEF Holds
    <3>2. CASE Remap(t)
      BY <3>2, FaultShape DEF Remap, Holds, Holding, TypeOK
    <3>3. CASE NewCell(t)
      BY <3>3 DEF NewCell, Holds, Holding, TypeOK
    <3> QED BY <1>7, <3>1, <3>2, <3>3
  <2>4. \A f \in Frames : Safe(f) => Safe(f)'
    BY <1>3, <1>4, <1>5, <2>2, <2>3 DEF Safe
  <2>5. CASE taken' = taken
    BY <1>1, <1>6, <2>4, <2>5, SafeStays
  <2>6. ASSUME NEW f \in Frames,
               taken' = taken \cup {[frame |-> f, for |-> proc[t], how |-> "fault"]},
               fault'[t].step = "remap", fault'[t].frame = f
        PROVE  NoPageLost'
    <3>1. InHand(f)'
      BY <1>4, <2>6 DEF Holds, Holding
    <3>2. ASSUME NEW u \in taken', u.how = "fault", Alone(u.for), toggles = 0
          PROVE  Safe(u.frame)'
      <4>1. CASE u \in taken
        BY <1>6, <2>4, <3>2, <4>1 DEF NoPageLost, Safe
      <4>2. CASE u \notin taken
        <5>1. u.frame = f
          BY <2>6, <4>2
        <5> QED BY <3>1, <5>1 DEF Safe
      <4> QED BY <4>1, <4>2
    <3> QED BY <1>1, <3>2 DEF NoPageLost, Safe, Alone
  <2>7. CASE ~(taken' = taken)
    <3>1. AllocPage(t)
      BY <1>7, <2>7 DEF Fault, Remap, NewCell
    <3>2. PICK f \in FreeFrames :
            /\ taken' = taken \cup {[frame |-> f, for |-> proc[t], how |-> "fault"]}
            /\ fault' = [fault EXCEPT ![t] =
                 [step |-> "remap", page |-> @.page, frame |-> f]]
      BY <2>7, <3>1 DEF AllocPage
    <3>3. f \in Frames /\ fault'[t].step = "remap" /\ fault'[t].frame = f
      BY <3>2 DEF FreeFrames, TypeOK
    <3> QED BY <2>6, <3>2, <3>3
  <2> QED BY <2>5, <2>7
<1>8. CASE LinkCell(t)
  <2>1. Busy(t) /\ Holding(t) /\ fault[t].step = "link"
    BY <1>8, FaultShape DEF LinkCell, Holding
  <2>2. PICK D \in Data, g \in Frames :
          D = DataAt(t) /\ g = fault[t].frame /\ Has(proc[t], fault[t].page, D)
    BY <2>1, FaultShape, DataAtIs DEF Shares
  <2>3. /\ taken' = taken
        /\ ptr_to_pagelist'[D] = {g} \cup fault[t].rest
        /\ \A d \in Data \ {D} : ptr_to_pagelist'[d] = ptr_to_pagelist[d]
    BY <1>8, <2>2 DEF LinkCell, TypeOK, ListAdd
  <2>4. PICK v \in vmas : v.proc = proc[t] /\ v.data = D
    BY <2>2 DEF Has
  <2>5. D \in live /\ v \in Sharing(D)
    BY <2>4 DEF Shares, AreasOK, Sharing
  <2>6. WillBeFreed(g)'
    BY <1>1, <1>2, <2>3, <2>5 DEF WillBeFreed
  <2>7. \A f \in Frames : InHand(f) => InHand(f)' \/ f = g
    <3>1. \A f \in Frames : Holds(t, f) => f = g
      BY <2>2 DEF Holds
    <3> QED BY <1>3, <1>4, <1>5, <3>1
  <2>8. ASSUME NEW u \in taken, u.how = "fault", Alone(u.for), WillBeFreed(u.frame)
        PROVE  WillBeFreed(u.frame)'
    <3>1. PICK d \in live :
            /\ u.frame \in ptr_to_pagelist[d]
            /\ Sharing(d) # {} \/ \E p \in Procs : Closing(p, d)
      BY <2>8 DEF WillBeFreed, Closing
    <3>2. d \in Data /\ u.frame \in Frames
      BY <1>6 DEF TypeOK
    <3>3. CASE d # D
      BY <1>1, <1>2, <2>3, <3>1, <3>2, <3>3 DEF WillBeFreed, Closing
    <3>4. CASE d = D
      <4>1. PICK w \in taken : /\ w.frame = u.frame
                               /\ \A x \in Sharing(D) : x.proc = w.for
        BY <3>1, <3>2, <3>4 DEF Owned, ListsOK, Linked
      <4>2. u = w
        BY <4>1 DEF Owned, TakenOK
      <4>3. u.for = proc[t]
        BY <2>4, <2>5, <4>1, <4>2
      <4>4. fault[t].rest = ptr_to_pagelist[D]
        BY <2>1, <2>2, <2>8, <4>3 DEF AloneOK
      <4> QED BY <1>1, <1>2, <2>3, <2>5, <3>1, <3>4, <4>4 DEF WillBeFreed
    <3> QED BY <3>3, <3>4
  <2>9. ASSUME NEW u \in taken, u.how = "fault", Alone(u.for), toggles = 0,
               Safe(u.frame)
        PROVE  Safe(u.frame)'
    <3>1. CASE InHand(u.frame)
      BY <1>6, <2>6, <2>7, <3>1 DEF Safe
    <3>2. CASE WillBeFreed(u.frame)
      BY <2>8, <2>9, <3>2 DEF Safe
    <3> QED BY <2>9, <3>1, <3>2 DEF Safe
  <2> QED BY <1>1, <2>3, <2>9, SafeStays
<1> QED BY <1>7, <1>8 DEF FaultStep

(* A list stays until the last close has gone through it.                  *)
LEMMA OthersKeepSafe ==
  ASSUME TypeOK, Shares, Owned, ModeOK, NoPageLost, intact, NEW p \in Procs,
         \/ MmapOnDemand(p) \/ MmapPrepaged(p) \/ Split(p) \/ Unmap(p)
         \/ Put(p) \/ FreeCell(p) \/ FreeBlock(p) \/ KfreeData(p)
         \/ RemoveModule
  PROVE  NoPageLost'
<1>1. fault' = fault /\ toggles' = toggles
  BY DEF MmapOnDemand, MmapPrepaged, Split, Unmap, Put, FreeCell, FreeBlock, KfreeData,
         RemoveModule, module
<1>2. \A f : InHand(f) => InHand(f)'
  BY <1>1 DEF InHand
<1>3. \A u \in taken : u.frame \in Frames
  BY DEF TypeOK, Uses
<1>4. SUFFICES ASSUME toggles = 0
               PROVE  \A u \in taken' : u.how = "fault" =>
                        u \in taken /\ (WillBeFreed(u.frame) => WillBeFreed(u.frame)')
  BY <1>1, <1>2, SafeStays DEF Safe
<1>5. CASE MmapOnDemand(p) \/ MmapPrepaged(p)
  <2>1. PICK S \in Unused(p), d \in Data \ live :
          /\ NewData(d)
          /\ vmas' \in {vmas, vmas \cup {[proc |-> p, pages |-> S, data |-> d]}}
    BY <1>5 DEF MmapOnDemand, MmapPrepaged
  <2>2. /\ closing' = closing /\ live' = live \cup {d}
        /\ \A e \in live : ptr_to_pagelist'[e] = ptr_to_pagelist[e]
    BY <1>5, <2>1 DEF MmapOnDemand, MmapPrepaged, NewData, TypeOK
  <2>3. \A e : Sharing(e) \subseteq Sharing(e)'
    BY <2>1 DEF Sharing
  <2>4. \A f : WillBeFreed(f) => WillBeFreed(f)'
    BY <2>2, <2>3 DEF WillBeFreed
  <2>5. \A u \in taken' : u.how = "fault" => u \in taken
    <3>1. CASE MmapPrepaged(p)
      <4>1. \E B : taken' \in {taken, taken \cup [frame : B, for : {p}, how : {"block"}]}
        BY <3>1 DEF MmapPrepaged
      <4>2. PICK B : taken' \in {taken, taken \cup [frame : B, for : {p}, how : {"block"}]}
        BY <4>1
      <4>3. \A u \in [frame : B, for : {p}, how : {"block"}] : u.how # "fault"
        OBVIOUS
      <4> QED BY <4>2, <4>3
    <3>2. CASE MmapOnDemand(p)
      BY <3>2 DEF MmapOnDemand
    <3> QED BY <1>5, <3>1, <3>2
  <2> QED BY <2>4, <2>5
<1>6. CASE Split(p)
  <2>1. PICK v \in vmas : \E low, high : /\ vmas' = (vmas \ {v}) \cup {low, high}
                                         /\ low.data = v.data
    <3>1. PICK v \in AreasOf(p), a \in Va :
            vmas' = (vmas \ {v}) \cup
              {[v EXCEPT !.pages = {x \in v.pages : x <= a}],
               [v EXCEPT !.pages = v.pages \ {x \in v.pages : x <= a}]}
      BY <1>6 DEF Split
    <3>2. [v EXCEPT !.pages = {x \in v.pages : x <= a}].data = v.data /\ v \in vmas
      BY DEF AreasOf, TypeOK, Areas
    <3> QED BY <3>1, <3>2
  <2>2. UNCHANGED <<taken, live, ptr_to_pagelist, closing>>
    BY <1>6 DEF Split
  <2>3. \A e : Sharing(e) # {} => Sharing(e)' # {}
    BY <2>1 DEF Sharing
  <2> QED BY <2>2, <2>3 DEF WillBeFreed
<1>7. CASE Unmap(p)
  <2>1. PICK v \in vmas :
          /\ vmas' = vmas \ {v}
          /\ closing' = [closing EXCEPT ![p] = [step |-> "put", data |-> v.data]]
    BY <1>7 DEF Unmap, AreasOf
  <2>2. UNCHANGED <<taken, live, ptr_to_pagelist>> /\ closing[p] = NotClosing
    BY <1>7 DEF Unmap, memory, WriteLockable, ReadLockable
  <2>3. \A q \in Procs, e \in Data : Closing(q, e) => Closing(q, e)'
    BY <2>1, <2>2 DEF Closing, TypeOK
  <2>4. Closing(p, v.data)
          \/ (closing'[p] # NotClosing /\ closing'[p].data = v.data)
    BY <2>1 DEF TypeOK, NotClosing
  <2>5. \A e : Sharing(e) # {} => Sharing(e)' # {} \/ e = v.data
    BY <2>1 DEF Sharing
  <2>6. ASSUME NEW f, WillBeFreed(f) PROVE WillBeFreed(f)'
    <3>1. PICK e \in live : /\ f \in ptr_to_pagelist[e]
                            /\ Sharing(e) # {} \/ \E q \in Procs : Closing(q, e)
      BY <2>6 DEF WillBeFreed, Closing
    <3>2. e \in Data
      BY DEF TypeOK
    <3>3. Sharing(e)' # {} \/ \E q \in Procs : closing'[q] # NotClosing /\ closing'[q].data = e
      BY <2>2, <2>3, <2>4, <2>5, <3>1, <3>2 DEF Closing
    <3> QED BY <2>2, <3>1, <3>3 DEF WillBeFreed
  <2> QED BY <2>2, <2>6
<1>8. CASE Put(p) \/ FreeCell(p) \/ FreeBlock(p)
  <2>1. PICK d \in Data : closing[p].data = d /\ Closing(p, d)
    BY <1>8, ClosingShape DEF Put, FreeCell, FreeBlock
  <2>2. /\ UNCHANGED <<vmas, live>> /\ taken' \subseteq taken
        /\ \A q \in Procs \ {p} : closing'[q] = closing[q]
    BY <1>8 DEF Put, FreeCell, FreeBlock, TypeOK, memory
  <2>3. \/ closing'[p] # NotClosing /\ closing'[p].data = d
        \/ closing'[p] = NotClosing /\ Put(p)
    <3>1. closing[p] \in [step : {"put", "free", "again", "block", "done"}, data : Data]
      BY <2>1 DEF TypeOK, ClosingStates, Closing
    <3>2. \/ closing'[p] = NotClosing /\ Put(p)
          \/ \E s \in {"free", "again", "block", "done"} :
               closing'[p] = [closing[p] EXCEPT !.step = s]
      <4>1. CASE Put(p)
        BY <4>1 DEF Put, TypeOK
      <4>2. CASE FreeCell(p)
        BY <4>2 DEF FreeCell, TypeOK
      <4>3. CASE FreeBlock(p)
        BY <4>3 DEF FreeBlock, TypeOK
      <4> QED BY <1>8, <4>1, <4>2, <4>3
    <3>3. CASE \E s \in {"free", "again", "block", "done"} :
                 closing'[p] = [closing[p] EXCEPT !.step = s]
      BY <2>1, <3>1, <3>3 DEF NotClosing
    <3> QED BY <3>2, <3>3
  <2>4. closing'[p] = NotClosing => Sharing(d) # {}
    BY <2>1, <2>3, PutKeepsShares
  <2>5. \A e : Sharing(e)' = Sharing(e)
    BY <2>2 DEF Sharing
  <2>6. \A e \in Data : Sharing(e) # {} \/ (\E q \in Procs : Closing(q, e)) =>
          Sharing(e)' # {} \/ (\E q \in Procs : closing'[q] # NotClosing /\ closing'[q].data = e)
    BY <2>1, <2>2, <2>3, <2>4, <2>5 DEF Closing
  <2>7. ASSUME NEW u \in taken', WillBeFreed(u.frame) PROVE WillBeFreed(u.frame)'
    <3>1. PICK e \in live : /\ u.frame \in ptr_to_pagelist[e]
                            /\ Sharing(e) # {} \/ \E q \in Procs : Closing(q, e)
      BY <2>7 DEF WillBeFreed, Closing
    <3>2. e \in Data
      BY DEF TypeOK
    <3>3. u.frame \in ptr_to_pagelist'[e]
      <4>1. CASE Put(p) \/ FreeBlock(p)
        BY <3>1, <4>1 DEF Put, FreeBlock, memory
      <4>2. CASE FreeCell(p)
        <5>1. PICK f \in ptr_to_pagelist[d] :
                /\ taken' = {w \in taken : w.frame # f}
                /\ ptr_to_pagelist' = [ptr_to_pagelist EXCEPT ![d] = ptr_to_pagelist[d] \ {f}]
          BY <2>1, <4>2 DEF FreeCell
        <5> QED BY <3>1, <3>2, <5>1 DEF TypeOK
      <4> QED BY <1>8, <4>1, <4>2
    <3> QED BY <2>2, <2>6, <3>1, <3>2, <3>3 DEF WillBeFreed
  <2> QED BY <2>2, <2>7
<1>9. CASE KfreeData(p)
  <2>1. PICK d \in Data : closing[p].data = d /\ Closing(p, d)
    BY <1>9, ClosingShape DEF KfreeData
  <2>2. /\ UNCHANGED <<vmas, taken>> /\ live' = live \ {d}
        /\ \A e \in Data \ {d} : ptr_to_pagelist'[e] = ptr_to_pagelist[e]
        /\ \A q \in Procs \ {p} : closing'[q] = closing[q]
    BY <1>9, <2>1 DEF KfreeData, TypeOK
  <2>3. CASE ~demand_paging
    <3>1. Faulted = {}
      BY <1>4, <2>3 DEF ModeOK
    <3> QED BY <2>2, <3>1 DEF Faulted
  <2>4. CASE demand_paging
    <3>1. ptr_to_pagelist[d] = {}
      BY <1>4, <1>9, <2>1, <2>4 DEF ModeOK, KfreeData
    <3>2. \A e : Sharing(e)' = Sharing(e)
      BY <2>2 DEF Sharing
    <3>3. \A e \in Data \ {d} : ~Closing(p, e)
      BY <2>1 DEF Closing
    <3>4. ASSUME NEW f, WillBeFreed(f) PROVE WillBeFreed(f)'
      <4>1. PICK e \in live : /\ f \in ptr_to_pagelist[e]
                              /\ Sharing(e) # {} \/ \E q \in Procs : Closing(q, e)
        BY <3>4 DEF WillBeFreed, Closing
      <4>2. e \in Data /\ e # d
        BY <3>1, <4>1 DEF TypeOK
      <4>3. Sharing(e)' # {} \/ \E q \in Procs : closing'[q] # NotClosing /\ closing'[q].data = e
        BY <2>2, <3>2, <3>3, <4>1, <4>2 DEF Closing
      <4> QED BY <2>2, <4>1, <4>2, <4>3 DEF WillBeFreed
    <3> QED BY <2>2, <3>4
  <2> QED BY <2>3, <2>4
<1>10. CASE RemoveModule
  BY <1>10 DEF RemoveModule, memory, WillBeFreed, Sharing
<1> QED BY <1>5, <1>6, <1>7, <1>8, <1>9, <1>10

-----------------------------------------------------------------------------
(* Every step. *)

LEMMA StepKeepsShares ==
  ASSUME TypeOK, Shares, Next, intact'
  PROVE  Shares'
<1>1. ASSUME NEW p \in Procs,
             \/ MmapOnDemand(p) \/ MmapPrepaged(p) \/ Split(p) \/ Unmap(p) \/ CloseStep(p)
      PROVE  Shares'
  <2>1. ~FreedCellReused(p)
    BY DEF FreedCellReused
  <2> QED BY <1>1, <2>1, MmapKeepsShares, SplitKeepsShares, UnmapKeepsShares, PutKeepsShares,
             FreeingKeepsShares, KfreeKeepsShares DEF CloseStep
<1>2. CASE SetParameter \/ RemoveModule
  BY <1>2, SharesStay DEF SetParameter, RemoveModule, memory, Busy
<1>3. ~RunRemovedCode
  BY DEF RunRemovedCode
<1> QED BY <1>1, <1>2, <1>3, FaultKeepsShares DEF Next

LEMMA StepKeepsOwned ==
  ASSUME TypeOK, Shares, Owned, Next, intact'
  PROVE  Owned'
<1>1. ASSUME NEW p \in Procs, CloseStep(p) PROVE Owned'
  <2>1. ~FreedCellReused(p)
    BY DEF FreedCellReused
  <2>2. CASE Put(p) \/ FreeBlock(p)
    BY <2>2, PagesKeepOwned DEF Put, FreeBlock, memory
  <2> QED BY <1>1, <2>1, <2>2, FreeCellKeepsOwned, KfreeKeepsOwned DEF CloseStep
<1>2. ASSUME NEW p \in Procs,
             MmapOnDemand(p) \/ MmapPrepaged(p) \/ Split(p) \/ Unmap(p)
      PROVE  Owned'
  BY <1>2, MmapKeepsOwned, SplitKeepsOwned, UnmapKeepsOwned
<1>3. ASSUME NEW t \in Threads, FaultStep(t) PROVE Owned'
  BY <1>3, FaultKeepsOwned, AllocKeepsOwned, RemapKeepsOwned, LinkKeepsOwned DEF FaultStep
<1>4. CASE SetParameter \/ RemoveModule
  BY <1>4, PagesKeepOwned DEF SetParameter, RemoveModule, memory
<1>5. ~RunRemovedCode
  BY DEF RunRemovedCode
<1> QED BY <1>1, <1>2, <1>3, <1>4, <1>5 DEF Next

LEMMA StepKeepsRest ==
  ASSUME TypeOK, Good, Next, intact, intact'
  PROVE  LossOK' /\ ModeOK' /\ AloneOK' /\ NoPageLost'
<1>1. Shares /\ Owned /\ LossOK /\ ModeOK /\ AloneOK /\ NoPageLost
  BY DEF Good, Shares, Owned
<1>2. ASSUME NEW t \in Threads, FaultStep(t)
      PROVE  LossOK' /\ ModeOK' /\ AloneOK' /\ NoPageLost'
  BY <1>1, <1>2, FaultKeepsLoss, FaultKeepsMode, FaultKeepsAlone, FaultKeepsSafe
<1>3. ASSUME NEW p \in Procs, MmapOnDemand(p) \/ MmapPrepaged(p) \/ Split(p) \/ Unmap(p)
      PROVE  LossOK' /\ ModeOK' /\ AloneOK' /\ NoPageLost'
  <2>1. ModeOK'
    BY <1>1, <1>3, MmapKeepsMode, AreasKeepMode
  <2> QED BY <1>1, <1>3, <2>1, OthersKeepLoss, OthersKeepAlone, OthersKeepSafe
<1>4. ASSUME NEW p \in Procs, CloseStep(p)
      PROVE  LossOK' /\ ModeOK' /\ AloneOK' /\ NoPageLost'
  <2>1. ~FreedCellReused(p)
    BY DEF FreedCellReused
  <2>2. LossOK'
    BY <1>1, <1>4, <2>1, FreeCellKeepsLoss, OthersKeepLoss DEF CloseStep
  <2>3. ModeOK'
    BY <1>1, <1>4, <2>1, CloseKeepsMode DEF CloseStep
  <2> QED BY <1>1, <1>4, <2>1, <2>2, <2>3, OthersKeepAlone, OthersKeepSafe DEF CloseStep
<1>5. CASE SetParameter \/ RemoveModule
  <2>1. ModeOK'
    BY <1>1, <1>5, ModuleKeepsMode
  <2>2. LossOK'
    <3>1. UNCHANGED <<alloc_number, free_number, taken, fault>>
      BY <1>5 DEF SetParameter, RemoveModule, counts
    <3>2. Uncounted' = Uncounted /\ Faulted' = Faulted
      BY <3>1 DEF Uncounted, Faulted
    <3> QED BY <1>1, <3>1, <3>2 DEF LossOK
  <2>3. AloneOK'
    <3>1. UNCHANGED <<vmas, fault, ptr_to_pagelist>>
      BY <1>5 DEF SetParameter, RemoveModule, memory
    <3> QED BY <1>1, <3>1 DEF AloneOK, Alone, Has
  <2>4. NoPageLost'
    <3>1. CASE SetParameter
      <4>1. toggles' # 0
        BY <3>1, PagingAssumption DEF SetParameter, TypeOK
      <4> QED BY <4>1 DEF NoPageLost
    <3>2. CASE RemoveModule
      <4>1. UNCHANGED <<toggles, vmas, fault, ptr_to_pagelist, taken, live, closing>>
        BY <3>2 DEF RemoveModule, memory
      <4>2. \A f : Safe(f) => Safe(f)'
        BY <4>1 DEF Safe, InHand, WillBeFreed, Sharing
      <4> QED BY <1>1, <4>1, <4>2, SafeStays
    <3> QED BY <1>5, <3>1, <3>2
  <2> QED BY <2>1, <2>2, <2>3, <2>4
<1>6. ~RunRemovedCode
  BY DEF RunRemovedCode
<1> QED BY <1>2, <1>3, <1>4, <1>5, <1>6 DEF Next

LEMMA StepKeeps == IInv /\ [Next]_vars => IInv'
<1> SUFFICES ASSUME IInv, [Next]_vars PROVE IInv'
  OBVIOUS
<1>1. TypeOK'
  BY TypeKeeps DEF IInv
<1>2. CASE UNCHANGED vars
  <2>1. UNCHANGED <<loaded, intact, demand_paging, toggles, vmas, page_table, taken,
                    alloc_number, free_number, live, reference, ptr_to_pagelist, ready,
                    fault, closing>>
    BY <1>2 DEF vars, module, counts, memory
  <2>2. Good => Good'
    <3>1. Shares /\ Owned => Shares' /\ Owned'
      <4>1. TypeOK /\ Owned => Owned'
        BY <2>1, PagesKeepOwned
      <4>2. Shares => Shares'
        BY <2>1, SharesStay DEF Busy
      <4> QED BY <4>1, <4>2 DEF IInv
    <3>2. LossOK => LossOK'
      BY <2>1 DEF LossOK, Uncounted, Faulted
    <3>3. ModeOK => ModeOK'
      <4>1. \A p \in Procs : Covered(p)' = Covered(p)
        BY <2>1 DEF Covered, AreasOf
      <4> QED BY <2>1, <4>1 DEF ModeOK, Busy, Faulted
    <3>4. AloneOK => AloneOK'
      BY <2>1 DEF AloneOK, Alone, Has
    <3>5. NoPageLost => NoPageLost'
      BY <2>1 DEF NoPageLost, InHand, WillBeFreed, Sharing, Alone
    <3> QED BY <3>1, <3>2, <3>3, <3>4, <3>5 DEF Good, Shares, Owned
  <2> QED BY <1>1, <2>1, <2>2 DEF IInv
<1>3. CASE Next
  <2>1. intact' => intact
    BY <1>3 DEF Next, CloseStep, FaultStep, MmapOnDemand, MmapPrepaged, Split, Unmap, Put,
       FreeCell, FreedCellReused, FreeBlock, KfreeData, Fault, AllocPage, Remap, NewCell,
       LinkCell, SetParameter, RemoveModule, RunRemovedCode, Up
  <2>2. ASSUME intact' PROVE Good'
    <3>1. intact /\ Good
      BY <2>1, <2>2 DEF IInv
    <3>2. TypeOK /\ Shares /\ Owned
      BY <3>1 DEF IInv, Good, Shares, Owned
    <3>3. Shares' /\ Owned'
      BY <1>3, <2>2, <3>2, StepKeepsShares, StepKeepsOwned
    <3>4. LossOK' /\ ModeOK' /\ AloneOK' /\ NoPageLost'
      BY <1>3, <2>2, <3>1, <3>2, StepKeepsRest
    <3> QED BY <3>3, <3>4 DEF Good, Shares, Owned
  <2> QED BY <1>1, <2>2 DEF IInv
<1> QED BY <1>2, <1>3

-----------------------------------------------------------------------------
(* The theorems. *)

(* The invariant holds in every state the module can reach, undefined      *)
(* behaviour included, since what follows it is left open.                 *)
THEOREM Invariance == Spec => []IInv
<1> QED BY InitIsGood, StepKeeps, PTL DEF Spec

(* Every variable of the device keeps to its range (paging.c:20-235).      *)
THEOREM TypeCorrect == Spec => []TypeOK
<1>1. IInv => TypeOK
  BY DEF IInv
<1> QED BY <1>1, Invariance, PTL

(* A page a process can reach is allocated and nobody else can reach it,   *)
(* whoever faults, splits, unmaps and closes at the same time: faults take *)
(* free pages (paging.c:41-58) and only the last close gives pages back    *)
(* (95-105).                                                               *)
THEOREM PagesAreOwn == Spec => []MappedPagesAreOwn
<1>1. IInv => MappedPagesAreOwn
  <2> SUFFICES ASSUME TypeOK, MappedOK, NEW p \in Procs, NEW a \in Va,
                      page_table[p][a] # NoFrame
               PROVE  /\ page_table[p][a] \in Allocated
                      /\ \A q \in Procs, b \in Va :
                           page_table[p][a] = page_table[q][b] => p = q /\ a = b
    BY DEF IInv, Good, MappedPagesAreOwn
  <2>1. page_table[p][a] \in Frames
    BY DEF TypeOK
  <2> QED BY <2>1 DEF MappedOK
<1> QED BY <1>1, Invariance, PTL

(* The count of open (paging.c:85) and close (95) is exact, and the data of*)
(* an area outlives it, so that no close frees it too early.               *)
THEOREM ReferenceCounts == Spec => []ReferenceIsExact
<1>1. IInv => ReferenceIsExact
  <2> SUFFICES ASSUME TypeOK, Shares, NEW v \in vmas
               PROVE  /\ v.data \in live
                      /\ reference[v.data] = Cardinality(Sharing(v.data))
                           + Cardinality({p \in Procs :
                               closing[p] # NotClosing /\ closing[p].data = v.data})
    BY DEF IInv, Good, Shares, ReferenceIsExact
  <2> DEFINE d == v.data
             C == {p \in Procs : closing[p] # NotClosing /\ closing[p].data = d}
  <2>1. d \in Data /\ d \in live /\ v \in Sharing(d)
    BY AreaShape DEF Shares, AreasOK, Sharing
  <2>2. reference[d] = Cardinality(Sharing(d))
                         + IF \E p \in Procs : Closing(p, d) THEN 1 ELSE 0
    BY <2>1 DEF Shares, CountOK
  <2>3. Cardinality(C) = IF \E p \in Procs : Closing(p, d) THEN 1 ELSE 0
    <3>1. CASE \E p \in Procs : Closing(p, d)
      <4>1. PICK p \in Procs : Closing(p, d)
        BY <3>1
      <4>2. C = {p}
        BY <2>1, <4>1 DEF Closing, Shares, ClosingOK
      <4> QED BY <3>1, <4>2, FS_Singleton
    <3>2. CASE ~\E p \in Procs : Closing(p, d)
      <4>1. C = {}
        BY <3>2 DEF Closing
      <4> QED BY <3>2, <4>1, FS_EmptySet
    <3> QED BY <3>1, <3>2
  <2> QED BY <2>1, <2>2, <2>3
<1> QED BY <1>1, Invariance, PTL

(* With demand paging and the parameter left alone, a process with one     *)
(* thread loses no page: each is in the hands of its fault (paging.c:41-58)*)
(* or on a list that the last close will free (97-105).                    *)
THEOREM PagesAreNotLost == Spec => []NoPageLost
<1>1. IInv => NoPageLost
  BY DEF IInv, Good, NoPageLost
<1> QED BY <1>1, Invariance, PTL

(* When the device is not in use, the numbers printed on removal           *)
(* (paging.c:238-239) differ by exactly the pages that faults took and     *)
(* nobody can give back.                                                   *)
THEOREM LossIsTold == Spec => []RemovalTellsLoss
<1>1. IInv => RemovalTellsLoss
  <2> SUFFICES ASSUME TypeOK, Owned, LossOK, Idle
               PROVE  alloc_number - free_number = Cardinality(Faulted)
    BY DEF IInv, Good, Owned, RemovalTellsLoss, Faulted
  <2>1. Uncounted = {}
    BY DEF Idle, Uncounted, AtUser
  <2>2. Cardinality(Uncounted) = 0
    BY <2>1, FS_EmptySet
  <2>3. Cardinality(Faulted) \in Nat /\ alloc_number \in Nat /\ free_number \in Nat
    BY FS_CardinalityType DEF Owned, TakenOK, TypeOK
  <2> QED BY <2>2, <2>3 DEF LossOK
<1> QED BY <1>1, Invariance, PTL
=============================================================================
