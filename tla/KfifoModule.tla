---------------------------- MODULE KfifoModule ----------------------------
(***************************************************************************)
(* The modules of final_project/kernel_fifo_test.c and kfifo_example.c: a  *)
(* proc file over one kfifo of bytes.  Writers of the file hold one lock   *)
(* and readers another; in kernel_fifo_test.c a thread of the module reads *)
(* too, under no lock, and a second one writes to the file once.           *)
(*                                                                         *)
(* A kfifo copies first and then moves an index: a writer moves in, and a  *)
(* reader adds what it copied to out.  Bytes are numbered as they are      *)
(* written.                                                                *)
(***************************************************************************)
EXTENDS Integers, Sequences, SequencesExt

CONSTANTS
  Size,        \* of the kfifo
  Users,       \* processes that use the proc file
  MaxBytes     \* bound on the bytes written

KfifoAssumption ==
  /\ Size \in Nat \ {0} /\ MaxBytes \in Nat
  /\ Users \cap {"read_thread", "write_thread", "nobody"} = {}

VARIABLES
  kind,        \* "example", "test", or "none" before one is loaded
  loader,      \* init and exit
  intact,      \* no undefined behaviour has shown; the model ends there
  stop,        \* threads told to stop
  in, out,     \* the indices of the kfifo
  slot,        \* its storage
  pc,          \* of the users and threads
  held,        \* what each has copied
  write_lock, read_lock,
  next, overlapped, wrong   \* history: the byte readers are at; two takes
                            \* overlapped; readers got another than the next

locks   == <<write_lock, read_lock>>
fifo    == <<in, out, slot>>
history == <<next, overlapped, wrong>>
vars    == <<kind, loader, intact, stop, fifo, pc, held, locks, history>>

Reader == "read_thread"
Writer == "write_thread"
Threads == {Reader, Writer}
Actors  == Users \cup Threads
Nobody  == "nobody"

-----------------------------------------------------------------------------
(* testfunc of kfifo_example.c: the same calls on a sequence.  Its fifo    *)
(* holds 32 bytes.                                                         *)

Hello == <<"h", "e", "l", "l", "o">>
Drop(queue, k) == SubSeq(queue, k + 1, Len(queue))

Skipped_Not(queue) == queue
Skipped(queue)     == Tail(queue)

TestQueue ==
  LET filled == Drop(Hello \o [i \in 1 .. 10 |-> i - 1], 5)
      cycled == Skipped(Drop(filled, 2) \o SubSeq(filled, 1, 2))
  IN cycled \o [i \in 1 .. 32 - Len(cycled) |-> i + 19]

expected_result == [i \in 1 .. 7 |-> i + 2] \o <<0, 1>> \o [i \in 1 .. 23 |-> i + 19]

-----------------------------------------------------------------------------
(* init and exit. *)

Init ==
  /\ kind = "none" /\ loader = "out" /\ intact = TRUE /\ stop = {}
  /\ in = 0 /\ out = 0 /\ slot = [i \in 0 .. Size - 1 |-> 0]
  /\ pc = [a \in Actors |-> "off"] /\ held = [a \in Actors |-> <<>>]
  /\ write_lock = Nobody /\ read_lock = Nobody
  /\ next = 1 /\ overlapped = FALSE /\ wrong = FALSE

ProcCreated == loader \in {"proc", "reader", "in"}

Load ==
  /\ loader = "out"
  /\ \/ kind' = "test" /\ loader' = "proc"
     \/ kind' = "example" /\ loader' = IF TestQueue = expected_result THEN "in" ELSE "eio"
  /\ UNCHANGED <<intact, stop, fifo, pc, held, locks, history>>

(* When a thread cannot be created, init returns and the module goes, but  *)
(* not its proc file and the other thread.                                 *)
CreateThread ==
  /\ \/ /\ loader = "proc" /\ loader' = "reader"
        /\ pc' = [pc EXCEPT ![Reader] = "idle"]
        /\ UNCHANGED intact
     \/ /\ loader = "reader" /\ loader' = "in"
        /\ pc' = [pc EXCEPT ![Writer] = "open"]
        /\ UNCHANGED intact
     \/ /\ loader \in {"proc", "reader"} /\ loader' = "failed" /\ intact' = FALSE
        /\ UNCHANGED pc
  /\ UNCHANGED <<kind, stop, fifo, held, locks, history>>

(* remove_proc_entry waits for the calls under way, then the writing and   *)
(* the reading thread are stopped.                                         *)
RemoveProc ==
  /\ loader = "in" /\ \A u \in Users : pc[u] = "off"
  /\ pc[Writer] \in {"off", "open", "idle"}
  /\ loader' = IF kind = "test" THEN "stop_writer" ELSE "gone"
  /\ UNCHANGED <<kind, intact, stop, fifo, pc, held, locks, history>>

StopThread ==
  /\ \E a \in Threads :
       /\ loader = IF a = Writer THEN "stop_writer" ELSE "stop_reader"
       /\ \/ a \notin stop /\ stop' = stop \cup {a} /\ UNCHANGED loader
          \/ /\ a \in stop /\ pc[a] = "ended" /\ UNCHANGED stop
             /\ loader' = IF a = Writer THEN "stop_reader" ELSE "gone"
  /\ UNCHANGED <<kind, intact, fifo, pc, held, locks, history>>

-----------------------------------------------------------------------------
(* Writing: fifo_write, and write_thread through the file. *)

Goes(a, from, to) == pc[a] = from /\ pc' = [pc EXCEPT ![a] = to]

BeginWrite(a) ==
  /\ ProcCreated /\ write_lock = Nobody /\ write_lock' = a
  /\ \/ a \in Users /\ Goes(a, "off", "write")
     \/ a = Writer /\ Goes(a, "open", "write")
  /\ UNCHANGED <<kind, loader, intact, stop, fifo, held, read_lock, history>>

(* Between remove_proc_entry and its stop, the thread finds no file, and   *)
(* uses the error as if it were one.                                       *)
OpenFails ==
  /\ loader \in {"stop_writer", "stop_reader"} /\ pc[Writer] = "open"
  /\ intact' = FALSE
  /\ UNCHANGED <<kind, loader, stop, fifo, pc, held, locks, history>>

(* Room is computed from the indices; more than Size is past the storage.  *)
CopyIn(a) ==
  /\ pc[a] = "write" /\ held[a] = <<>>
  /\ \E count \in 1 .. 2 :
       LET k == IF count < Size - (in - out) THEN count ELSE Size - (in - out) IN
         /\ k <= 0 \/ in + k <= MaxBytes
         /\ held' = [held EXCEPT ![a] = [i \in 1 .. (IF k > 0 THEN k ELSE 0) |-> in + i]]
         /\ slot' = [i \in 0 .. Size - 1 |->
                       LET hits == {b \in ToSet(held'[a]) : (b - 1) % Size = i}
                       IN IF hits = {} THEN slot[i] ELSE CHOOSE b \in hits : TRUE]
         /\ pc' = [pc EXCEPT ![a] = "move_in"]
  /\ UNCHANGED <<kind, loader, intact, stop, in, out, locks, history>>

MoveIn(a) ==
  /\ Goes(a, "move_in", IF a = Writer THEN "idle" ELSE "off")
  /\ in' = in + Len(held[a]) /\ held' = [held EXCEPT ![a] = <<>>]
  /\ write_lock' = Nobody
  /\ UNCHANGED <<kind, loader, intact, stop, out, slot, read_lock, history>>

-----------------------------------------------------------------------------
(* Reading: fifo_read under its lock, read_thread under none. *)

(* The model does not follow readers that have got wrong bytes.            *)
Taking == {a \in Actors : pc[a] \in {"copy", "move_out"}}

ReadLockFree_None == TRUE
ReadLockFree      == read_lock = Nobody

BeginRead(u) ==
  /\ ~wrong /\ ProcCreated /\ ReadLockFree /\ read_lock' = u
  /\ Goes(u, "off", "copy")
  /\ overlapped' = (overlapped \/ Reader \in Taking)
  /\ UNCHANGED <<kind, loader, intact, stop, fifo, held, write_lock, next, wrong>>

ThreadRead ==
  /\ ~wrong /\ Reader \notin stop /\ Goes(Reader, "idle", "copy")
  /\ overlapped' = (overlapped \/ Taking # {})
  /\ UNCHANGED <<kind, loader, intact, stop, fifo, held, locks, next, wrong>>

CopyOut(a) ==
  /\ Goes(a, "copy", "move_out")
  /\ \E count \in 1 .. 2 :
       LET k == IF in < out \/ count < in - out THEN count ELSE in - out IN
         held' = [held EXCEPT ![a] = [i \in 1 .. k |-> slot[(out + i - 1) % Size]]]
  /\ UNCHANGED <<kind, loader, intact, stop, fifo, locks, history>>

MoveOut(a) ==
  /\ Goes(a, "move_out", IF a = Reader THEN "idle" ELSE "off")
  /\ out' = out + Len(held[a]) /\ held' = [held EXCEPT ![a] = <<>>]
  /\ read_lock' = IF a = Reader THEN read_lock ELSE Nobody
  /\ next' = next + Len(held[a])
  /\ wrong' = (wrong \/ held[a] # [i \in 1 .. Len(held[a]) |-> next + i - 1])
  /\ UNCHANGED <<kind, loader, intact, stop, in, slot, write_lock, overlapped>>

-----------------------------------------------------------------------------

ThreadEnds(a) ==
  /\ a \in stop
  /\ \/ Goes(a, "idle", "ended") \/ Goes(a, "open", "ended")
  /\ UNCHANGED <<kind, loader, intact, stop, fifo, held, locks, history>>

Next ==
  /\ intact
  /\ \/ Load \/ CreateThread \/ RemoveProc \/ StopThread \/ OpenFails \/ ThreadRead
     \/ \E a \in Actors : \/ BeginWrite(a) \/ CopyIn(a) \/ MoveIn(a)
                          \/ CopyOut(a) \/ MoveOut(a)
     \/ \E u \in Users : BeginRead(u)
     \/ \E a \in Threads : ThreadEnds(a)

Spec == Init /\ [][Next]_vars

-----------------------------------------------------------------------------
(* Properties. *)

KfifoTypeOK ==
  /\ in \in Nat /\ out \in Nat /\ stop \subseteq Threads
  /\ write_lock \in Actors \cup {Nobody} /\ read_lock \in Users \cup {Nobody}
  /\ \A a \in Actors : Len(held[a]) <= 2

(* Readers get the bytes once and in the order written, and the indices    *)
(* are never more than the storage apart, until the reading thread, which  *)
(* takes no lock (kernel_fifo_test.c line 50), takes at the same time as a *)
(* reader of the proc file.                                                *)
BytesInOrder == ~overlapped => ~wrong /\ in - out \in 0 .. Size

(* The self test of kfifo_example.c passes (lines 57 to 108): the module   *)
(* loads.                                                                  *)
SelfTestPasses == loader # "eio"
=============================================================================
