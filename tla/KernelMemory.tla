---------------------------- MODULE KernelMemory ----------------------------
(***************************************************************************)
(* studio4/kernel_memory.c: a thread spreads nr_structs structs over pages,*)
(* numbers their elements, waits until it is stopped and checks what the   *)
(* pages hold.  The parameter nr_structs can be written at any time, and   *)
(* the thread reads it three times.                                        *)
(***************************************************************************)
EXTENDS Integers

CONSTANTS
  PerPage,     \* structs that fit a page, 128
  Wrap,        \* structs whose bytes do not fit 32 bits, 2^27
  Numbers      \* values that nr_structs is given

KernelMemoryAssumption ==
  /\ PerPage \in Nat \ {0} /\ Wrap \in Nat \ {0} /\ Wrap % PerPage = 0
  /\ Numbers \subseteq Nat

VARIABLES
  loader,      \* place in init and exit
  intact,      \* no undefined behaviour has shown; the model ends there
  stop,
  thread,      \* place in thread_fn
  nr_structs, nr_pages, tail, order, nr_structs_per_page,
  read         \* history: the values of it that the thread has read

layout == <<nr_pages, tail, order, nr_structs_per_page>>
vars   == <<loader, intact, stop, thread, nr_structs, layout, read>>

Init ==
  /\ loader = "out" /\ intact = TRUE /\ stop = FALSE /\ thread = "none"
  /\ nr_structs = 0 /\ nr_pages = 0 /\ tail = 0 /\ order = 0 /\ nr_structs_per_page = 0
  /\ read = {}

-----------------------------------------------------------------------------

Load ==
  /\ loader = "out"
  /\ \/ loader' = "in" /\ thread' = "start" /\ nr_structs' \in Numbers
     \/ loader' = "failed" /\ UNCHANGED <<thread, nr_structs>>
  /\ UNCHANGED <<intact, stop, layout, read>>

SetParameter ==
  /\ loader = "in" /\ nr_structs' \in Numbers \ {nr_structs}
  /\ UNCHANGED <<loader, intact, stop, thread, layout, read>>

(* Told to stop before it first runs, the thread never calls thread_fn;    *)
(* one that has ended has no task.                                         *)
Stop ==
  /\ loader = "in" /\ loader' = "stop" /\ stop' = TRUE
  /\ intact' = (thread # "ended")
  /\ UNCHANGED <<thread, nr_structs, layout, read>>

Stopped ==
  /\ loader = "stop" /\ thread = "ended" /\ loader' = "gone"
  /\ UNCHANGED <<intact, stop, thread, nr_structs, layout, read>>

-----------------------------------------------------------------------------
(* thread_fn *)

ThreadGoes(from, to) == thread = from /\ thread' = to

Pages(n) == ((n % Wrap) \div PerPage)

Tail_None(n)    == 0
Tail_Structs(n) == n % PerPage
Tail(n)         == IF Pages(n) = 0 THEN 0 ELSE 1

ReadTail ==
  /\ \/ ~stop /\ ThreadGoes("start", "multiply") /\ tail' = Tail(nr_structs)
        /\ read' = {nr_structs}
     \/ stop /\ ThreadGoes("start", "ended") /\ UNCHANGED <<tail, read>>
  /\ UNCHANGED <<loader, intact, stop, nr_structs, nr_pages, order,
                 nr_structs_per_page>>

(* Halvings until nothing is left. *)
Shifts[n \in Nat] == IF n = 0 THEN 0 ELSE 1 + Shifts[n \div 2]

PowerOfTwo(n) == \E k \in 0 .. n : 2^k = n

my_get_order(n) == IF PowerOfTwo(n) THEN Shifts[n - 1] ELSE Shifts[n]

Multiply ==
  /\ ThreadGoes("multiply", "divide")
  /\ nr_pages' = Pages(nr_structs) + tail
  /\ order' = my_get_order(nr_pages') /\ read' = read \cup {nr_structs}
  /\ UNCHANGED <<loader, intact, stop, nr_structs, tail, nr_structs_per_page>>

Divide ==
  /\ ThreadGoes("divide", "alloc")
  /\ \/ /\ nr_pages # 0 /\ UNCHANGED intact
        /\ nr_structs_per_page' = nr_structs \div nr_pages
     \/ nr_pages = 0 /\ intact' = FALSE /\ UNCHANGED nr_structs_per_page
  /\ read' = read \cup {nr_structs}
  /\ UNCHANGED <<loader, stop, nr_structs, nr_pages, tail, order>>

Structs == (0 .. nr_pages - 1) \X (0 .. nr_structs_per_page - 1)

(* The place of struct s[2] of page s[1], counted in structs. *)
Place(s)  == s[1] * PerPage + s[2]
Allocated == 0 .. 2^order * PerPage - 1

(* A struct outside of the pages overwrites what is there. *)
AllocAndFill ==
  /\ \/ ThreadGoes("alloc", "ended") /\ UNCHANGED intact
     \/ /\ ThreadGoes("alloc", "wait")
        /\ intact' = \A s \in Structs : Place(s) \in Allocated
  /\ UNCHANGED <<loader, stop, nr_structs, layout, read>>

(* Page after page was written: the page of a place that several structs   *)
(* have is that of the last of them.                                       *)
Holds(s) == \A other \in Structs : Place(other) = Place(s) => other[1] <= s[1]

Verify ==
  /\ stop
  /\ ThreadGoes("wait", IF \A s \in Structs : Holds(s) THEN "free" ELSE "error")
  /\ UNCHANGED <<loader, intact, stop, nr_structs, layout, read>>

Free ==
  /\ ThreadGoes("free", "ended") \/ ThreadGoes("error", "ended")
  /\ UNCHANGED <<loader, intact, stop, nr_structs, layout, read>>

Next ==
  /\ intact
  /\ \/ Load \/ SetParameter \/ Stop \/ Stopped
     \/ ReadTail \/ Multiply \/ Divide \/ AllocAndFill \/ Verify \/ Free

Spec == Init /\ [][Next]_vars

-----------------------------------------------------------------------------
(* Properties. *)

KernelMemoryTypeOK ==
  /\ nr_structs \in Numbers \cup {0} /\ tail \in {0, 1} /\ read \subseteq Numbers
  /\ nr_pages \in Nat /\ order \in Nat /\ nr_structs_per_page \in Nat

(* What becomes of a parameter that keeps its value and whose structs'     *)
(* bytes fit 32 bits.  When the structs fill a page, all are inside of the *)
(* allocated pages and the check at the end (lines 122 to 135) finds each  *)
(* as it was written.  When they are fewer, no page is counted (line 81),  *)
(* the division of line 83 is by zero, and nothing after it is reached.    *)
VerifiesClean ==
  \A n \in Numbers : read = {n} /\ n < Wrap =>
    /\ n >= PerPage => /\ thread \in {"alloc", "wait", "free"} => intact
                       /\ thread # "error"
    /\ n < PerPage  => /\ thread = "alloc" => ~intact
                       /\ thread \notin {"wait", "free", "error"}
=============================================================================
