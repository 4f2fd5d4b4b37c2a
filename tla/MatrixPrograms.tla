--------------------------- MODULE MatrixPrograms ---------------------------
(***************************************************************************)
(* The programs that walk matrices: lab-1/user/dense_mm.c, sparse_mm.c and *)
(* floyd_warshall.c in memory mapped from the paging device, and           *)
(* studio15/dense_mm.c in memory from malloc.  The products that size the  *)
(* memory are unsigned and wrap; an access outside is a fault.             *)
(***************************************************************************)
EXTENDS Naturals

CONSTANTS
  Wrap,        \* 2^32, where unsigned wraps
  SizeWrap,    \* where size_t does
  SqrtOfMax,   \* sqrt_of_UINT32_MAX
  DoubleSize,  \* bytes of a double
  DataSize,    \* DATA_SIZE of floyd_warshall
  Sizes        \* arguments

MatrixAssumption ==
  /\ Wrap \in Nat \ {0} /\ SizeWrap \in Nat \ {0} /\ DoubleSize \in Nat \ {0}
  /\ SqrtOfMax \in Nat /\ SqrtOfMax * SqrtOfMax = Wrap
  /\ DataSize \in Nat /\ Sizes \subseteq Nat

Programs == {"dense_mm", "sparse_mm", "floyd_warshall", "studio15"}

VARIABLES
  program, size, rows,   \* which program, its arguments
  pc,
  mapped,                \* doubles in each matrix; 0 when a call failed
  row, col               \* loop variables of the loop that goes furthest

vars == <<program, size, rows, pc, mapped, row, col>>

Init == program = "none" /\ size = 0 /\ rows = 0 /\ pc = "start"
        /\ mapped = 0 /\ row = 0 /\ col = 0

Limit(p) == IF p = "floyd_warshall" THEN DataSize ELSE SqrtOfMax

Side(p, m) == IF p = "floyd_warshall" THEN DataSize ELSE m
Squared(p, m) == (Side(p, m) * Side(p, m)) % Wrap
Bytes(p, m)   == (DoubleSize * Squared(p, m)) % SizeWrap

(* sparse_mm takes the number of rows it assigns as an argument, and       *)
(* floyd_warshall copies that many.                                        *)
Start ==
  /\ pc = "start"
  /\ program' \in Programs /\ size' \in Sizes
  /\ rows' \in IF program' = "sparse_mm" THEN Sizes ELSE {size'}
  /\ pc' = IF size' > Limit(program') THEN "refused" ELSE "map"
  /\ UNCHANGED <<mapped, row, col>>

(* The result of a failed call is used like any other. *)
Map ==
  /\ pc = "map" /\ pc' = "walk"
  /\ \/ mapped' = Bytes(program, size) \div DoubleSize
     \/ mapped' = 0
  /\ UNCHANGED <<program, size, rows, row, col>>

Rows == IF program = "floyd_warshall" THEN DataSize ELSE rows

Inside(index) == index < mapped

Index == (row * Side(program, size) + col) % Wrap

LastCol_Past(p, m) == Side(p, m)
LastCol(p, m)      == Side(p, m) - 1

Walk ==
  /\ pc = "walk" /\ row < Rows /\ Side(program, size) > 0
  /\ IF Inside(Index)
     THEN IF col < LastCol(program, size)
          THEN col' = col + 1 /\ UNCHANGED <<row, pc>>
          ELSE col' = 0 /\ row' = row + 1 /\ UNCHANGED pc
     ELSE pc' = "fault" /\ UNCHANGED <<row, col>>
  /\ UNCHANGED <<program, size, rows, mapped>>

Finish ==
  /\ pc = "walk" /\ (row >= Rows \/ Side(program, size) = 0)
  /\ pc' = "done"
  /\ UNCHANGED <<program, size, rows, mapped, row, col>>

Next == Start \/ Map \/ Walk \/ Finish

Spec == Init /\ [][Next]_vars

-----------------------------------------------------------------------------
(* Properties. *)

(* An accepted size is multiplied without a fault when its matrix fits     *)
(* unsigned and size_t, the memory was given and no more rows are asked    *)
(* for than there are.                                                     *)
FaultsOnlyWhenTooBig ==
  pc = "fault" =>
    \/ Side(program, size) * Side(program, size) >= Wrap
    \/ DoubleSize * Squared(program, size) >= SizeWrap
    \/ mapped = 0
    \/ program = "sparse_mm" /\ rows > size
=============================================================================
