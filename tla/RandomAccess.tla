---------------------------- MODULE RandomAccess ----------------------------
(***************************************************************************)
(* studio15/random_access.c.  A shift register gives pseudo-random words;  *)
(* each is XORed into the table entry its low bits select.  A word is the  *)
(* set of the positions of its bits, so that XOR is the symmetric          *)
(* difference.  The benchmark makes four passes from the same word.        *)
(***************************************************************************)
EXTENDS Integers

CONSTANTS
  Width,       \* of a word, 64
  IntWidth,    \* of an int, 32
  Poly,        \* POLY
  Period,      \* PERIOD, after which the register repeats
  LogSizes,    \* table sizes, as powers of two
  Furthest     \* bound on the arguments HPCC_starts is tried with

RandomAccessAssumption ==
  /\ Width \in Nat \ {0, 1} /\ Poly \subseteq 0 .. Width - 1
  /\ IntWidth \in 1 .. Width
  /\ Period \in Nat \ {0} /\ LogSizes \subseteq 0 .. Width - 1
  /\ Furthest \in Nat

VARIABLES
  log_size, table, ran, idx, pass,   \* run_kernel and iteration
  intact,                            \* no undefined behaviour has shown; the
                                     \* model ends there
  n,                                 \* an argument HPCC_starts is tried with
                                     \* before the first update
  original                           \* history: the table malloc gave

vars == <<log_size, table, ran, idx, pass, intact, n, original>>

Xor(a, b) == (a \ b) \cup (b \ a)

Shifted(word) == {i + 1 : i \in word \ {Width - 1}}
Step(word)    == Xor(Shifted(word), IF Width - 1 \in word THEN Poly ELSE {})

(* As many steps as PERIOD lead from the first word back to it.            *)
Iterated[m \in Nat] == IF m = 0 THEN {0} ELSE Step(Iterated[m - 1])
PeriodAssumption == Iterated[Period] = {0}

(* HPCC_starts: the n-th word, by squaring.  Bit i of m is the coefficient *)
(* of the i-th power, and the square of a word has a power 2j for each of  *)
(* its bits j.                                                             *)
M2[j \in 0 .. Width - 1] == IF j = 0 THEN {0} ELSE Step(Step(M2[j - 1]))

Square(word) ==
  LET temp[j \in 0 .. Width] ==
        IF j = Width THEN {}
        ELSE Xor(IF j \in word THEN M2[j] ELSE {}, temp[j + 1])
  IN temp[0]

Reduced(m) == IF m < 0 THEN m + Period * ((-m + Period - 1) \div Period)
              ELSE IF m > Period THEN m - Period * ((m - 1) \div Period) ELSE m

AddBit_Always(m, word) == Step(word)
AddBit(m, word)        == IF m % 2 = 1 THEN Step(word) ELSE word

Power[m \in 0 .. Period] ==
  IF m = 0 THEN {0} ELSE IF m = 1 THEN {1}
  ELSE AddBit(m, Square(Power[m \div 2]))

HPCC_starts(m) == Power[Reduced(m)]

-----------------------------------------------------------------------------
(* run_kernel; malloc leaves any words in the table. *)

Words == SUBSET (0 .. Width - 1)

(* The low bits are kept in an int: the highest of its bits is the sign,   *)
(* and those that are higher are lost.                                     *)
Low(word)      == word \cap (0 .. log_size - 1)
Negative(word) == IntWidth - 1 \in Low(word)
Offset(word)   == Low(word) \ (IntWidth - 1 .. Width - 1)

Init ==
  /\ log_size = 0 /\ table = <<>> /\ original = <<>> /\ intact = TRUE
  /\ ran = {} /\ idx = 0 /\ pass = 0 /\ n = 0

Start ==
  /\ table = <<>>
  /\ log_size' \in LogSizes
  /\ n' \in -Furthest .. Furthest
  /\ \E word \in Words :
       table' = [offset \in SUBSET (0 .. log_size' - 1) |-> Xor(word, offset)]
  /\ original' = table' /\ ran' = HPCC_starts(0)
  /\ UNCHANGED <<idx, pass, intact>>

Restart_Continues(word) == word
Restart(word)           == HPCC_starts(0)

Entries == 2 ^ log_size

(* A negative offset is a place before the table.                          *)
Update ==
  /\ table # <<>> /\ pass < 4 /\ idx < 4 * Entries
  /\ \/ /\ ~Negative(ran)
        /\ table' = [table EXCEPT ![Offset(ran)] = Xor(@, ran)]
        /\ ran' = Step(ran) /\ idx' = idx + 1
        /\ n' = 0
        /\ UNCHANGED intact
     \/ Negative(ran) /\ intact' = FALSE /\ UNCHANGED <<table, ran, idx, n>>
  /\ UNCHANGED <<log_size, pass, original>>

NextPass ==
  /\ table # <<>> /\ pass < 4 /\ idx = 4 * Entries
  /\ pass' = pass + 1 /\ idx' = 0 /\ ran' = Restart(ran)
  /\ UNCHANGED <<log_size, table, intact, n, original>>

Next == intact /\ (Start \/ Update \/ NextPass)

Spec == Init /\ [][Next]_vars

-----------------------------------------------------------------------------
(* Properties. *)

(* HPCC_starts (lines 83 to 118) gives the word that n steps of the        *)
(* register lead to, for arguments below 0 and beyond the period too.      *)
StartsAgrees ==
  table # <<>> => HPCC_starts(n) = Iterated[n % Period]

(* Each pass undoes the one before it (lines 45 to 55 from the same word): *)
(* after the second and the fourth the table is what it was.  No update is *)
(* outside of the table, unless the table has entries that an int cannot   *)
(* number (lines 42 and 52).                                               *)
TableRestored ==
  /\ pass \in {2, 4} /\ idx = 0 => table = original
  /\ log_size < IntWidth => intact
=============================================================================
