------------------------ MODULE UserPrograms_proofs ------------------------
(***************************************************************************)
(* The random access benchmark and the matrix programs, for every width of *)
(* a word, polynomial, table size, range of an unsigned and size of a      *)
(* matrix.  Names with r_ and Rand! are those of RandomAccess, with m_ and *)
(* Mat! those of MatrixPrograms.                                           *)
(***************************************************************************)
EXTENDS UserProgramsMC, WellFoundedInduction, TLAPS

-----------------------------------------------------------------------------
(***************************************************************************)
(* random_access.c.  Every pass starts from the same word, so that it      *)
(* XORs the same differences into the table as the pass before it.         *)
(***************************************************************************)
Offsets(L) == SUBSET (0 .. L - 1)
None(L)    == [o \in Offsets(L) |-> {}]

\* The entry a word selects.
Entry(L, word) == (word \cap (0 .. L - 1)) \ (IntWidth - 1 .. Width - 1)

\* An update with a word, of the differences f made so far.
Applied(L, f, word) ==
  [o \in Offsets(L) |-> IF o = Entry(L, word) THEN Rand!Xor(f[o], word) ELSE f[o]]

\* The first words w of a pass over a table of 2^L entries, up to the k-th,
\* and the differences d made before each.
Trace(L, k, w, d) ==
  /\ w[0] = Rand!HPCC_starts(0) /\ d[0] = None(L)
  /\ \A j \in Nat : j < k => w[j + 1] = Rand!Step(w[j]) /\ d[j + 1] = Applied(L, d[j], w[j])

\* The table a, with the differences e and f.
Changed(L, a, e, f) == [o \in Offsets(L) |-> Rand!Xor(Rand!Xor(a[o], e[o]), f[o])]

At(i, e, w, d) ==
  r_ran = w[i] /\ r_table = Changed(r_log_size, r_original, e, d[i])

N == 4 * Rand!Entries

\* The first pass makes the trace; each later one follows it.
FirstPass ==
  \E w, d : Trace(r_log_size, r_idx, w, d) /\ At(r_idx, None(r_log_size), w, d)

LaterPass ==
  /\ N \in Nat /\ r_idx <= N
  /\ \E w, d : /\ Trace(r_log_size, N, w, d)
               /\ At(r_idx, IF r_pass \in {2, 4} THEN None(r_log_size) ELSE d[N], w, d)

RandInv ==
  /\ r_table = <<>> => r_idx = 0 /\ r_pass = 0 /\ r_intact
  /\ r_idx \in Nat /\ r_pass \in 0 .. 4
  /\ r_table # <<>> => /\ r_original = [o \in Offsets(r_log_size) |-> r_original[o]]
                       /\ IF r_pass = 0 THEN FirstPass ELSE LaterPass
                       /\ r_log_size \in Nat
  /\ r_log_size < IntWidth => r_intact

\* A table has an entry, so it is not the empty sequence.
LEMMA NotEmpty == ASSUME NEW L, NEW a, NEW e, NEW f PROVE Changed(L, a, e, f) # <<>>
<1>1. {} \in DOMAIN Changed(L, a, e, f)
  BY DEF Changed, Offsets
<1>2. DOMAIN <<>> = {}
  OBVIOUS
<1> QED BY <1>1, <1>2

\* XOR is the sum of a group in which everything is its own inverse.
LEMMA XorLaws ==
  ASSUME NEW a, NEW b, NEW c
  PROVE  /\ Rand!Xor(Rand!Xor(a, b), c) = Rand!Xor(a, Rand!Xor(b, c))
         /\ Rand!Xor(a, {}) = a
         /\ Rand!Xor(a, a) = {}
<1>1. \A x : x \in Rand!Xor(Rand!Xor(a, b), c) <=> x \in Rand!Xor(a, Rand!Xor(b, c))
  BY DEF Rand!Xor
<1>2. \A x : x \in Rand!Xor(a, {}) <=> x \in a
  BY DEF Rand!Xor
<1>3. \A x : x \notin Rand!Xor(a, a)
  BY DEF Rand!Xor
<1> QED BY <1>1, <1>2, <1>3

\* Twice is not at all.
LEMMA XorTwice ==
  ASSUME NEW a, NEW b
  PROVE  Rand!Xor(Rand!Xor(a, b), b) = Rand!Xor(Rand!Xor(a, {}), {})
<1>1. Rand!Xor(Rand!Xor(a, b), b) = Rand!Xor(a, Rand!Xor(b, b))
  BY XorLaws
<1> QED BY <1>1, XorLaws

\* An update of the table adds its difference to those made before.
LEMMA UpdateAdds ==
  ASSUME NEW L, NEW a, NEW e, NEW f, NEW word, NEW low, low = Entry(L, word),
         NEW t, t = Changed(L, a, e, f),
         NEW u, u = [t EXCEPT ![low] = Rand!Xor(t[low], word)]
  PROVE  u = Changed(L, a, e, Applied(L, f, word))
<1>1. low \in Offsets(L) /\ low = Entry(L, word)
  BY DEF Offsets, Entry
<1>2. ASSUME NEW o \in Offsets(L)
      PROVE  u[o]
               = Changed(L, a, e, Applied(L, f, word))[o]
  <2>1. CASE o = low
    <3>1. Rand!Xor(Rand!Xor(Rand!Xor(a[o], e[o]), f[o]), word)
            = Rand!Xor(Rand!Xor(a[o], e[o]), Rand!Xor(f[o], word))
      BY XorLaws
    <3> QED BY <1>1, <2>1, <3>1 DEF Changed, Applied
  <2>2. CASE o # low
    BY <1>1, <2>2 DEF Changed, Applied
  <2> QED BY <2>1, <2>2
<1>3. /\ DOMAIN t = Offsets(L)
      /\ u = [o \in Offsets(L) |-> u[o]]
      /\ Changed(L, a, e, Applied(L, f, word)) =
           [o \in Offsets(L) |-> Changed(L, a, e, Applied(L, f, word))[o]]
  BY DEF Changed
<1> QED BY <1>1, <1>2, <1>3

\* One more word.
LEMMA TraceGrows ==
  ASSUME NEW L, NEW k \in Nat, NEW w, NEW d, Trace(L, k, w, d)
  PROVE  \E v, e : /\ Trace(L, k + 1, v, e)
                   /\ v[k + 1] = Rand!Step(w[k]) /\ e[k + 1] = Applied(L, d[k], w[k])
<1> DEFINE v == [j \in 0 .. k + 1 |-> IF j = k + 1 THEN Rand!Step(w[k]) ELSE w[j]]
           e == [j \in 0 .. k + 1 |-> IF j = k + 1 THEN Applied(L, d[k], w[k]) ELSE d[j]]
<1>1. v[k + 1] = Rand!Step(w[k]) /\ e[k + 1] = Applied(L, d[k], w[k])
  OBVIOUS
<1>2. \A j \in Nat : j <= k => v[j] = w[j] /\ e[j] = d[j]
  OBVIOUS
<1> HIDE DEF v, e
<1>3. ASSUME NEW j \in Nat, j < k + 1
      PROVE  v[j + 1] = Rand!Step(v[j]) /\ e[j + 1] = Applied(L, e[j], v[j])
  <2>1. CASE j = k
    BY <1>1, <1>2, <2>1
  <2>2. CASE j # k
    <3>1. j < k /\ j + 1 <= k /\ j + 1 \in Nat
      BY <1>3, <2>2
    <3>2. w[j + 1] = Rand!Step(w[j]) /\ d[j + 1] = Applied(L, d[j], w[j])
      BY <3>1 DEF Trace
    <3> QED BY <1>2, <3>1, <3>2
  <2> QED BY <2>1, <2>2
<1>4. v[0] = Rand!HPCC_starts(0) /\ e[0] = None(L)
  BY <1>2 DEF Trace
<1>5. Trace(L, k + 1, v, e)
  BY <1>3, <1>4 DEF Trace
<1> QED BY <1>1, <1>5

\* The table is that of malloc, and the first word is behind no other.
LEMMA RandStartWorks == ASSUME RandInv, Rand!Start PROVE RandInv'
<1>0. r_log_size' \in Nat
  BY Parameters DEF Rand!Start, Rand!RandomAccessAssumption
<1>1. /\ r_idx = 0 /\ r_pass = 0 /\ r_idx' = 0 /\ r_pass' = 0 /\ r_intact'
      /\ r_ran' = Rand!HPCC_starts(0) /\ r_original' = r_table'
  BY DEF RandInv, Rand!Start
<1>2. PICK L : L = r_log_size'
  OBVIOUS
<1>3. r_table' = [o \in Offsets(L) |-> r_table'[o]]
  <2>1. PICK word : r_table' = [offset \in Offsets(L) |-> Rand!Xor(word, offset)]
    BY <1>2 DEF Rand!Start, Offsets
  <2> QED BY <2>1
<1> DEFINE w == [j \in {0} |-> Rand!HPCC_starts(0)]
           d == [j \in {0} |-> None(L)]
<1>4. Trace(L, 0, w, d)
  BY DEF Trace
<1>5. r_table' = Changed(L, r_table', None(L), None(L))
  <2>1. \A o \in Offsets(L) : Rand!Xor(Rand!Xor(r_table'[o], {}), {}) = r_table'[o]
    BY XorLaws
  <2>2. Changed(L, r_table', None(L), None(L))
          = [o \in Offsets(L) |-> Rand!Xor(Rand!Xor(r_table'[o], {}), {})]
    BY DEF Changed, None
  <2> QED BY <1>3, <2>1, <2>2
<1>6. FirstPass'
  <2>1. r_ran' = w[0] /\ r_table' = Changed(L, r_original', None(L), d[0])
    BY <1>1, <1>5
  <2> HIDE DEF w, d
  <2> QED BY <1>1, <1>2, <1>4, <2>1 DEF FirstPass, At
<1> QED BY <1>0, <1>1, <1>2, <1>3, <1>6 DEF RandInv

\* The number of entries depends on the size only.
LEMMA SameEntries == r_log_size' = r_log_size => N' = N
BY DEF N, Rand!Entries

\* An update in the table.
LEMMA RandUpdateWorks ==
  ASSUME RandInv, Rand!Update, ~Rand!Negative(r_ran)
  PROVE  RandInv'
<1>1. /\ r_table # <<>> /\ r_pass < 4 /\ r_idx < N /\ r_idx' = r_idx + 1 /\ r_idx \in Nat
      /\ r_pass' = r_pass /\ r_log_size' = r_log_size /\ r_original' = r_original
      /\ r_pass \in 0 .. 4 /\ r_log_size \in Nat /\ r_intact' = r_intact
  BY DEF RandInv, Rand!Update, N
<1>2. /\ r_ran' = Rand!Step(r_ran)
      /\ r_table' = [r_table EXCEPT ![Entry(r_log_size, r_ran)] = Rand!Xor(@, r_ran)]
  BY DEF Rand!Update, Rand!Low, Rand!Offset, Entry
<1>3. N' = N
  BY <1>1, SameEntries
<1>4. PICK L, a : L = r_log_size /\ a = r_original
  OBVIOUS
<1>8. PICK i \in Nat : L = r_log_size /\ i = r_idx /\ a = r_original
  BY <1>1, <1>4
<1>5. ASSUME NEW e, NEW f, r_table = Changed(L, a, e, f)
      PROVE  r_table' = Changed(L, a, e, Applied(L, f, r_ran)) /\ r_table' # <<>>
  <2>1. PICK word : word = r_ran
    OBVIOUS
  <2>2. PICK t : t = r_table
    OBVIOUS
  <2>3. PICK low : low = Entry(L, word)
    OBVIOUS
  <2>4. PICK u : u = [t EXCEPT ![low] = Rand!Xor(t[low], word)]
    OBVIOUS
  <2>5. t = Changed(L, a, e, f)
    BY <1>5, <2>2
  <2>6. u = Changed(L, a, e, Applied(L, f, word))
    BY <2>3, <2>4, <2>5, UpdateAdds
  <2>7. r_table' = u
    BY <1>2, <1>8, <2>1, <2>2, <2>3, <2>4
  <2> QED BY <2>1, <2>6, <2>7, NotEmpty
<1>6. CASE r_pass = 0
  <2>1. PICK w, d : /\ Trace(L, i, w, d) /\ r_ran = w[i]
                    /\ r_table = Changed(L, a, None(L), d[i])
    BY <1>1, <1>8, <1>6 DEF RandInv, FirstPass, At
  <2>2. PICK v, e : /\ Trace(L, i + 1, v, e)
                    /\ v[i + 1] = Rand!Step(w[i]) /\ e[i + 1] = Applied(L, d[i], w[i])
    BY <2>1, TraceGrows
  <2>3. /\ r_ran' = v[i + 1] /\ r_table' # <<>>
        /\ r_table' = Changed(L, a, None(L), e[i + 1])
    <3>1. r_ran' = v[i + 1]
      BY <1>2, <2>1, <2>2
    <3>2. /\ r_table' = Changed(L, a, None(L), Applied(L, d[i], r_ran)) /\ r_table' # <<>>
      BY <1>5, <2>1
    <3> QED BY <2>1, <2>2, <3>1, <3>2
  <2>4. FirstPass'
    BY <1>1, <1>8, <2>2, <2>3 DEF FirstPass, At
  <2> QED BY <1>1, <1>6, <2>3, <2>4 DEF RandInv
<1>7. CASE r_pass # 0
  <2>1. N \in Nat
    BY <1>1, <1>7 DEF RandInv, LaterPass
  <2>2. PICK n \in Nat : n = N
    BY <2>1
  <2>3. PICK w, d : /\ Trace(L, n, w, d) /\ r_ran = w[i]
                    /\ r_table = Changed(L, a, IF r_pass \in {2, 4} THEN None(L) ELSE d[n], d[i])
    BY <1>1, <1>8, <1>7, <2>2 DEF RandInv, LaterPass, At
  <2>4. w[i + 1] = Rand!Step(w[i]) /\ d[i + 1] = Applied(L, d[i], w[i])
    BY <1>1, <1>8, <2>2, <2>3 DEF Trace
  <2>5. PICK e : e = IF r_pass \in {2, 4} THEN None(L) ELSE d[n]
    OBVIOUS
  <2>6. r_ran' = w[i + 1] /\ r_table' = Changed(L, a, e, d[i + 1]) /\ r_table' # <<>>
    <3>1. r_ran' = w[i + 1] /\ r_table = Changed(L, a, e, d[i])
      BY <1>2, <2>3, <2>4, <2>5
    <3>2. /\ r_table' = Changed(L, a, e, Applied(L, d[i], r_ran)) /\ r_table' # <<>>
      BY <1>5, <3>1
    <3> QED BY <2>3, <2>4, <3>1, <3>2
  <2>7. r_idx' <= N' /\ N' \in Nat
    BY <1>1, <1>3, <2>1
  <2>8. LaterPass'
    <3>1. N' = n /\ r_log_size' = L /\ r_idx' = i + 1 /\ r_original' = a /\ r_pass' = r_pass
      BY <1>1, <1>3, <1>8, <2>2
    <3>2. Trace(r_log_size', N', w, d)
      BY <2>3, <3>1
    <3>3. At(i + 1, e, w, d)'
      BY <2>6, <3>1 DEF At
    <3> QED BY <2>5, <2>7, <3>1, <3>2, <3>3 DEF LaterPass
  <2> QED BY <1>1, <1>7, <2>6, <2>8 DEF RandInv
<1> QED BY <1>6, <1>7

\* The end of a pass: the differences of a whole pass are in the table, or
\* are out of it again.
LEMMA RandNextPassWorks == ASSUME RandInv, Rand!NextPass PROVE RandInv'
<1>1. /\ r_table # <<>> /\ r_pass < 4 /\ r_idx = N /\ r_idx \in Nat /\ r_pass \in 0 .. 4
      /\ r_idx' = 0 /\ r_pass' = r_pass + 1 /\ r_ran' = Rand!HPCC_starts(0)
      /\ r_table' = r_table /\ r_log_size' = r_log_size /\ r_original' = r_original
      /\ r_log_size \in Nat /\ r_intact' = r_intact
      /\ r_original = [o \in Offsets(r_log_size) |-> r_original[o]]
  BY DEF RandInv, Rand!NextPass, Rand!Restart, N
<1>2. N' = N
  BY <1>1, SameEntries
<1>3. PICK L, a : L = r_log_size /\ a = r_original
  OBVIOUS
<1>4. PICK n \in Nat : n = N
  BY <1>1
<1>5. PICK e, w, d : /\ Trace(L, n, w, d) /\ r_table = Changed(L, a, e, d[n])
                     /\ e = IF r_pass \in {0, 2, 4} THEN None(L) ELSE d[n]
  <2>1. CASE r_pass = 0
    <3>1. PICK w, d : Trace(L, n, w, d) /\ r_table = Changed(L, a, None(L), d[n])
      BY <1>1, <1>3, <1>4, <2>1 DEF RandInv, FirstPass, At
    <3> QED BY <2>1, <3>1
  <2>2. CASE r_pass # 0
    <3>1. PICK w, d : /\ Trace(L, n, w, d)
                      /\ r_table = Changed(L, a, IF r_pass \in {2, 4} THEN None(L) ELSE d[n], d[n])
      BY <1>1, <1>3, <1>4, <2>2 DEF RandInv, LaterPass, At
    <3> QED BY <2>2, <3>1
  <2> QED BY <2>1, <2>2
<1>6. w[0] = Rand!HPCC_starts(0) /\ d[0] = None(L)
  BY <1>5 DEF Trace
<1>7. r_table = Changed(L, a, IF r_pass' \in {2, 4} THEN None(L) ELSE d[n], d[0])
  <2>1. CASE r_pass \in {0, 2, 4}
    <3>1. e = None(L) /\ r_pass' \notin {2, 4}
      BY <1>1, <1>5, <2>1
    <3>2. \A o \in Offsets(L) : Rand!Xor(Rand!Xor(a[o], {}), d[n][o])
                                  = Rand!Xor(Rand!Xor(a[o], d[n][o]), {})
      BY XorLaws
    <3>3. Changed(L, a, None(L), d[n]) = Changed(L, a, d[n], None(L))
      BY <3>2 DEF Changed, None
    <3> QED BY <1>5, <1>6, <3>1, <3>3
  <2>2. CASE r_pass \in {1, 3}
    <3>1. e = d[n] /\ r_pass' \in {2, 4}
      BY <1>1, <1>5, <2>2
    <3>2. \A o \in Offsets(L) : Rand!Xor(Rand!Xor(a[o], d[n][o]), d[n][o])
                                  = Rand!Xor(Rand!Xor(a[o], {}), {})
      BY XorTwice
    <3>3. Changed(L, a, d[n], d[n]) = Changed(L, a, None(L), None(L))
      BY <3>2 DEF Changed, None
    <3> QED BY <1>5, <1>6, <3>1, <3>3
  <2> QED BY <1>1, <2>1, <2>2
<1>8. LaterPass'
  <2>1. N' = n /\ r_idx' <= N' /\ N' \in Nat /\ r_log_size' = L /\ r_original' = a
    BY <1>1, <1>2, <1>3, <1>4
  <2>2. PICK f : f = IF r_pass' \in {2, 4} THEN None(L) ELSE d[n]
    OBVIOUS
  <2>3. At(0, f, w, d)'
    BY <1>1, <1>6, <1>7, <2>1, <2>2 DEF At
  <2> QED BY <1>1, <1>5, <2>1, <2>2, <2>3 DEF LaterPass
<1> QED BY <1>1, <1>8 DEF RandInv

\* What leaves the table and its passes alone.
LEMMA RandStays ==
  ASSUME RandInv,
         UNCHANGED <<r_log_size, r_table, r_ran, r_idx, r_pass, r_original>>,
         r_log_size < IntWidth \/ r_table = <<>> => r_intact'
  PROVE  RandInv'
<1>1. /\ r_log_size' = r_log_size /\ r_table' = r_table /\ r_ran' = r_ran /\ r_idx' = r_idx
      /\ r_pass' = r_pass /\ r_original' = r_original
  OBVIOUS
<1>2. N' = N
  BY <1>1, SameEntries
<1> QED BY <1>1, <1>2 DEF RandInv, FirstPass, LaterPass, At

LEMMA RandInductive == RandInv /\ [SumNext]_sumvars => RandInv'
<1> SUFFICES ASSUME RandInv, [SumNext]_sumvars PROVE RandInv'
  OBVIOUS
<1>1. Rand!Next \/ UNCHANGED r_vars
  BY DEF SumNext, sumvars
<1>2. CASE UNCHANGED r_vars
  BY <1>2, RandStays DEF r_vars, RandInv
<1>3. CASE Rand!Update /\ Rand!Negative(r_ran)
  <2>1. r_log_size \in Nat /\ IntWidth \in Nat /\ IntWidth - 1 \in 0 .. r_log_size - 1
    BY <1>3, Parameters DEF Rand!Update, Rand!Negative, Rand!Low, RandInv,
       Rand!RandomAccessAssumption
  <2>2. ~(r_log_size < IntWidth) /\ r_table # <<>>
    BY <1>3, <2>1 DEF Rand!Update
  <2> QED BY <1>3, <2>2, RandStays DEF Rand!Update
<1> QED BY <1>1, <1>2, <1>3, RandStartWorks, RandUpdateWorks, RandNextPassWorks DEF Rand!Next

LEMMA RandFinal == RandInv => TableRestored
<1> SUFFICES ASSUME RandInv, r_pass \in {2, 4}, r_idx = 0 PROVE r_table = r_original
  BY DEF TableRestored, Rand!TableRestored, RandInv
<1>1. PICK L, a : L = r_log_size /\ a = r_original
  OBVIOUS
<1>2. a = [o \in Offsets(L) |-> a[o]] /\ r_table # <<>>
  BY <1>1 DEF RandInv
<1>3. PICK w, d : Trace(L, N, w, d) /\ r_table = Changed(L, a, None(L), d[0])
  BY <1>1, <1>2 DEF RandInv, LaterPass, At
<1>4. r_table = Changed(L, a, None(L), None(L))
  BY <1>3 DEF Trace
<1>5. \A o \in Offsets(L) : Rand!Xor(Rand!Xor(a[o], {}), {}) = a[o]
  BY XorLaws
<1>6. r_table = [o \in Offsets(L) |-> a[o]]
  BY <1>4, <1>5 DEF Changed, None
<1> QED BY <1>1, <1>2, <1>6

\* The benchmark's passes undo each other (random_access.c:45-77): after the
\* second and the fourth every entry is what malloc gave, whatever the word,
\* the polynomial and the size of the table, because each pass starts from
\* the same word.  While an int can number the entries (lines 42 and 52), no
\* update is outside of the table.
THEOREM PassesUndo == SumSpec => []TableRestored
<1>1. SumInit => RandInv
  BY DEF SumInit, Rand!Init, RandInv
<1> QED BY <1>1, RandInductive, RandFinal, PTL DEF SumSpec

-----------------------------------------------------------------------------
(***************************************************************************)
(* The matrix programs.  The walk stays inside the square of the side.     *)
(***************************************************************************)
MatInv ==
  /\ m_pc \in {"start", "refused", "map", "walk", "fault", "done"}
  /\ m_size \in Nat /\ m_rows \in Nat /\ m_row \in Nat /\ m_col \in Nat
  /\ m_pc \in {"start", "map"} => m_row = 0 /\ m_col = 0
  /\ m_pc \in {"map", "walk", "fault"} =>
       m_program \in Mat!Programs /\ (m_program = "sparse_mm" \/ m_rows = m_size)
  /\ m_pc \in {"walk", "fault"} =>
       \/ m_mapped = 0
       \/ m_mapped = Mat!Bytes(m_program, m_size) \div DoubleSize
  /\ m_pc = "walk" => m_col = 0 \/ m_col < Mat!Side(m_program, m_size)
  /\ FaultsOnlyWhenTooBig

LEMMA MatConstants ==
  /\ Wrap \in Nat \ {0} /\ SizeWrap \in Nat \ {0} /\ DoubleSize \in Nat \ {0}
  /\ DataSize \in Nat /\ Sizes \subseteq Nat
BY Parameters DEF Mat!MatrixAssumption

\* A row and a column of a square lie in it.
LEMMA InSquare ==
  ASSUME NEW s \in Nat, NEW r \in Nat, NEW c \in Nat, r < s, c < s
  PROVE  r * s + c < s * s /\ r * s + c \in Nat /\ s * s \in Nat
<1>1. PICK x \in Nat : s = r + 1 + x
  <2>1. s - r - 1 \in Nat /\ s = r + 1 + (s - r - 1)
    OBVIOUS
  <2> QED BY <2>1
<1>2. s * s = r * s + s + x * s
  BY <1>1
<1>3. r * s \in Nat /\ x * s \in Nat
  OBVIOUS
<1> QED BY <1>2, <1>3

LEMMA SmallMod == ASSUME NEW x \in Nat, NEW p \in Nat \ {0}, x < p PROVE x % p = x
OBVIOUS

\* Division undoes multiplication.
LEMMA DivTimes ==
  ASSUME NEW p \in Nat \ {0}, NEW k \in Nat
  PROVE  (p * k) \div p = k
<1>1. PICK x \in Nat : x = p * k
  <2>1. p * k \in Nat
    OBVIOUS
  <2> QED BY <2>1
<1>2. PICK d \in Int : d = x \div p
  OBVIOUS
<1>3. PICK r \in 0 .. p - 1 : r = x % p
  OBVIOUS
<1>4. x = p * d + r
  BY <1>2, <1>3
<1>5. d > k \/ d < k \/ d = k
  OBVIOUS
<1>6. CASE d > k
  <2>1. PICK e \in Nat : d = k + 1 + e
    BY <1>6
  <2>2. p * d = p * k + p + p * e /\ p * e >= 0
    BY <2>1
  <2> QED BY <1>1, <1>4, <2>2
<1>7. CASE d < k
  <2>1. PICK e \in Nat : k = d + 1 + e
    BY <1>7
  <2>2. p * k = p * d + p + p * e /\ p * e >= 0
    BY <2>1
  <2> QED BY <1>1, <1>4, <2>2
<1> QED BY <1>1, <1>2, <1>5, <1>6, <1>7

\* A step of the walk that faults had a reason.
LEMMA WalkFaults ==
  ASSUME MatInv, Mat!Walk, ~Mat!Inside(Mat!Index)
  PROVE  \/ Mat!Side(m_program, m_size) * Mat!Side(m_program, m_size) >= Wrap
         \/ DoubleSize * Mat!Squared(m_program, m_size) >= SizeWrap
         \/ m_mapped = 0
         \/ m_program = "sparse_mm" /\ m_rows > m_size
<1> USE MatConstants
<1>1. PICK s \in Nat : s = Mat!Side(m_program, m_size)
  BY DEF MatInv, Mat!Side
<1>2. PICK r \in Nat, c \in Nat : r = m_row /\ c = m_col
  BY DEF MatInv
<1>3. s > 0 /\ r < Mat!Rows /\ c < s /\ m_pc = "walk"
  BY <1>1, <1>2 DEF MatInv, Mat!Walk
<1> SUFFICES ASSUME s * s < Wrap, DoubleSize * Mat!Squared(m_program, m_size) < SizeWrap,
                    m_mapped # 0, ~(m_program = "sparse_mm" /\ m_rows > m_size)
             PROVE  FALSE
  <2>1. s * s \in Nat /\ Mat!Squared(m_program, m_size) \in Nat
    BY <1>1 DEF Mat!Squared
  <2>2. DoubleSize * Mat!Squared(m_program, m_size) \in Nat
    BY <2>1
  <2> QED BY <1>1, <2>1, <2>2
<1>4. r < s
  BY <1>1, <1>3 DEF MatInv, Mat!Rows, Mat!Side
<1>5. r * s + c < s * s /\ r * s + c \in Nat /\ s * s \in Nat
  BY <1>3, <1>4, InSquare
<1>6. Mat!Squared(m_program, m_size) = s * s
  BY <1>1, <1>5, SmallMod DEF Mat!Squared
<1>7. DoubleSize * (s * s) < SizeWrap /\ DoubleSize * (s * s) \in Nat
  BY <1>5, <1>6
<1>8. Mat!Bytes(m_program, m_size) = DoubleSize * (s * s)
  BY <1>6, <1>7, SmallMod DEF Mat!Bytes
<1>9. m_mapped = s * s
  BY <1>3, <1>5, <1>8, DivTimes DEF MatInv
<1>10. Mat!Index = r * s + c
  <2>1. r * s + c < Wrap
    BY <1>5
  <2>2. (r * s + c) % Wrap = r * s + c
    BY <1>5, <2>1, SmallMod
  <2> QED BY <1>1, <1>2, <2>2 DEF Mat!Index
<1> QED BY <1>5, <1>9, <1>10 DEF Mat!Inside

LEMMA MatInductive == MatInv /\ [SumNext]_sumvars => MatInv'
<1> SUFFICES ASSUME MatInv, [SumNext]_sumvars PROVE MatInv'
  OBVIOUS
<1> USE MatConstants
<1>1. Mat!Next \/ UNCHANGED m_vars
  BY DEF SumNext, sumvars
<1>2. CASE Mat!Start
  BY <1>2 DEF Mat!Start, MatInv, FaultsOnlyWhenTooBig, Mat!FaultsOnlyWhenTooBig
<1>3. CASE Mat!Map
  BY <1>3 DEF Mat!Map, MatInv, FaultsOnlyWhenTooBig, Mat!FaultsOnlyWhenTooBig, Mat!Side,
     Mat!Bytes, Mat!Squared
<1>4. CASE Mat!Walk
  <2>1. /\ UNCHANGED <<m_program, m_size, m_rows, m_mapped>> /\ m_pc = "walk"
        /\ Mat!Side(m_program, m_size) \in Nat \ {0}
    BY <1>4 DEF Mat!Walk, MatInv, Mat!Side
  <2>2. CASE Mat!Inside(Mat!Index)
    <3>1. /\ m_pc' = m_pc /\ m_row' \in Nat /\ m_col' \in Nat
          /\ m_col' = 0 \/ m_col' < Mat!Side(m_program, m_size)
      BY <1>4, <2>1, <2>2 DEF Mat!Walk, MatInv, Mat!LastCol
    <3> QED BY <2>1, <3>1 DEF MatInv, FaultsOnlyWhenTooBig, Mat!FaultsOnlyWhenTooBig,
               Mat!Side, Mat!Bytes, Mat!Squared
  <2>3. CASE ~Mat!Inside(Mat!Index)
    <3>1. m_pc' = "fault" /\ UNCHANGED <<m_row, m_col>>
      BY <1>4, <2>3 DEF Mat!Walk
    <3>2. FaultsOnlyWhenTooBig'
      BY <1>4, <2>1, <2>3, WalkFaults
      DEF FaultsOnlyWhenTooBig, Mat!FaultsOnlyWhenTooBig, Mat!Side, Mat!Squared
    <3> QED BY <2>1, <3>1, <3>2 DEF MatInv, Mat!Bytes, Mat!Squared, Mat!Side
  <2> QED BY <2>2, <2>3
<1>5. CASE Mat!Finish
  BY <1>5 DEF Mat!Finish, MatInv, FaultsOnlyWhenTooBig, Mat!FaultsOnlyWhenTooBig
<1>6. CASE UNCHANGED m_vars
  BY <1>6 DEF m_vars, MatInv, FaultsOnlyWhenTooBig, Mat!FaultsOnlyWhenTooBig, Mat!Side,
     Mat!Bytes, Mat!Squared
<1> QED BY <1>1, <1>2, <1>3, <1>4, <1>5, <1>6 DEF Mat!Next

\* The size checks of dense_mm.c, sparse_mm.c and floyd_warshall.c: whatever
\* the ranges of the two unsigned types and the sizes asked for, a walk
\* leaves its matrix only when a product wrapped, a call failed or more rows
\* were asked for than there are.
THEOREM WalksStayInside == SumSpec => []FaultsOnlyWhenTooBig
<1>1. SumInit => MatInv
  BY DEF SumInit, Mat!Init, MatInv, FaultsOnlyWhenTooBig, Mat!FaultsOnlyWhenTooBig
<1>2. MatInv => FaultsOnlyWhenTooBig
  BY DEF MatInv
<1> QED BY <1>1, <1>2, MatInductive, PTL DEF SumSpec

-----------------------------------------------------------------------------
(***************************************************************************)
(* HPCC_starts of random_access.c, for every width and polynomial.  Words  *)
(* with XOR are a vector space over the field of two elements, on which    *)
(* the register's step is linear.                                          *)
(***************************************************************************)

\* Induction over the natural numbers.
LEMMA FromZeroOn ==
  ASSUME NEW X, 0 \in X, \A n \in Nat : n \in X => n + 1 \in X
  PROVE  Nat \subseteq X
<1> SUFFICES ASSUME Nat \ X # {} PROVE FALSE
  OBVIOUS
<1>1. IsWellFoundedOn(OpToRel(<, Nat), Nat)
  BY NatLessThanWellFounded
<1>2. PICK m \in Nat \ X : \A k \in Nat \ X : <<k, m>> \notin OpToRel(<, Nat)
  <2>1. Nat \ X \subseteq Nat
    OBVIOUS
  <2> QED BY <1>1, <2>1, WFMin
<1>3. m # 0
  OBVIOUS
<1>4. m - 1 \in Nat /\ (m - 1) + 1 = m
  BY <1>3
<1>5. <<m - 1, m>> \in OpToRel(<, Nat)
  BY <1>4 DEF OpToRel
<1>6. m - 1 \in X
  BY <1>2, <1>4, <1>5
<1> QED BY <1>4, <1>6

\* The first values of a sequence whose next is g of the last.
Begun(S, s, g, n, h) ==
  h \in [0 .. n -> S] /\ h[0] = s /\ \A k \in 0 .. n : k < n => h[k + 1] = g[k][h[k]]

\* There is such a sequence ...
LEMMA BegunAll ==
  ASSUME NEW S, NEW s \in S, NEW g \in [Nat -> [S -> S]]
  PROVE  \A n \in Nat : \E h : Begun(S, s, g, n, h)
<1> DEFINE X == {n \in Nat : \E h : Begun(S, s, g, n, h)}
<1>1. 0 \in X
  <2>1. Begun(S, s, g, 0, [k \in 0 .. 0 |-> s])
    BY DEF Begun
  <2> QED BY <2>1
<1>2. ASSUME NEW n \in Nat, n \in X PROVE n + 1 \in X
  <2>1. PICK h : Begun(S, s, g, n, h)
    BY <1>2
  <2>2. PICK t \in S : t = g[n][h[n]]
    BY <2>1 DEF Begun
  <2> DEFINE e == [k \in 0 .. n + 1 |-> IF k = n + 1 THEN t ELSE h[k]]
  <2>3. \A k \in 0 .. n + 1 : k = n + 1 \/ (k \in 0 .. n /\ k # n + 1)
    OBVIOUS
  <2>4. e \in [0 .. n + 1 -> S]
    BY <2>1, <2>3 DEF Begun
  <2>5. e[n + 1] = t /\ \A k \in 0 .. n : e[k] = h[k]
    BY <2>3
  <2> HIDE DEF e
  <2>6. ASSUME NEW k \in 0 .. n + 1, k < n + 1 PROVE e[k + 1] = g[k][e[k]]
    <3>1. CASE k = n
      BY <2>2, <2>5, <3>1
    <3>2. CASE k # n
      <4>1. k \in 0 .. n /\ k < n /\ k + 1 \in 0 .. n
        BY <2>6, <3>2
      <4> QED BY <2>1, <2>5, <4>1 DEF Begun
    <3> QED BY <3>1, <3>2
  <2>7. e[0] = s
    BY <2>1, <2>5 DEF Begun
  <2>8. Begun(S, s, g, n + 1, e)
    BY <2>4, <2>6, <2>7 DEF Begun
  <2> QED BY <2>8
<1> HIDE DEF X
<1>3. Nat \subseteq X
  BY <1>1, <1>2, FromZeroOn
<1> QED BY <1>3 DEF X

\* ... and only one.
LEMMA BegunOnce ==
  ASSUME NEW S, NEW s \in S, NEW g \in [Nat -> [S -> S]], NEW n \in Nat, NEW m \in Nat,
         NEW h, Begun(S, s, g, n, h), NEW e, Begun(S, s, g, m, e)
  PROVE  \A k \in Nat : k <= n /\ k <= m => h[k] = e[k]
<1> DEFINE X == {k \in Nat : k <= n /\ k <= m => h[k] = e[k]}
<1>1. 0 \in X
  BY DEF Begun
<1>2. ASSUME NEW k \in Nat, k \in X PROVE k + 1 \in X
  <2> SUFFICES ASSUME k + 1 <= n, k + 1 <= m PROVE h[k + 1] = e[k + 1]
    OBVIOUS
  <2>1. k \in 0 .. n /\ k < n /\ k \in 0 .. m /\ k < m /\ k <= n /\ k <= m
    OBVIOUS
  <2>2. h[k] = e[k]
    BY <1>2, <2>1
  <2> QED BY <2>1, <2>2 DEF Begun
<1> HIDE DEF X
<1>3. Nat \subseteq X
  BY <1>1, <1>2, FromZeroOn
<1> QED BY <1>3 DEF X

\* So the infinite sequence exists.
Sequence(S, s, g, f) ==
  f \in [Nat -> S] /\ f[0] = s /\ \A n \in Nat : f[n + 1] = g[n][f[n]]

\* A sequence defined from its first value on exists.
LEMMA RecursionWorks ==
  ASSUME NEW S, NEW s \in S, NEW g \in [Nat -> [S -> S]]
  PROVE  \E f : Sequence(S, s, g, f)
<1> DEFINE H(n) == CHOOSE h : Begun(S, s, g, n, h)
           f    == [n \in Nat |-> H(n)[n]]
<1>1. \A n \in Nat : Begun(S, s, g, n, H(n))
  BY BegunAll
<1> HIDE DEF H
<1>2. ASSUME NEW n \in Nat PROVE H(n)[n] \in S
  <2>1. n \in 0 .. n
    OBVIOUS
  <2> QED BY <1>1, <2>1 DEF Begun
<1>3. f \in [Nat -> S]
  BY <1>2
<1>4. \A n \in Nat : f[n] = H(n)[n]
  OBVIOUS
<1> HIDE DEF f
<1>5. f[0] = s
  BY <1>1, <1>4 DEF Begun
<1>6. ASSUME NEW n \in Nat PROVE f[n + 1] = g[n][f[n]]
  <2>1. PICK m \in Nat : m = n + 1
    OBVIOUS
  <2>2. Begun(S, s, g, n, H(n)) /\ Begun(S, s, g, m, H(m))
    BY <1>1
  <2>3. n <= n /\ n <= m /\ n \in 0 .. m /\ n < m
    BY <2>1
  <2>4. H(m)[n] = H(n)[n]
    BY <2>2, <2>3, BegunOnce
  <2>5. H(m)[n + 1] = g[n][H(m)[n]]
    BY <2>2, <2>3 DEF Begun
  <2> QED BY <1>4, <2>1, <2>4, <2>5
<1>7. Sequence(S, s, g, f)
  BY <1>3, <1>5, <1>6 DEF Sequence
<1> QED BY <1>7

-----------------------------------------------------------------------------
\* XOR of words is a word, and does not depend on the order.
LEMMA XorWords ==
  ASSUME NEW a, NEW b
  PROVE  /\ a \in Rand!Words /\ b \in Rand!Words => Rand!Xor(a, b) \in Rand!Words
         /\ Rand!Xor(a, b) = Rand!Xor(b, a) /\ Rand!Xor({}, a) = a
<1>1. \A x : x \in Rand!Xor(a, b) <=> x \in Rand!Xor(b, a)
  BY DEF Rand!Xor
<1>2. \A x : x \in Rand!Xor({}, a) <=> x \in a
  BY DEF Rand!Xor
<1>3. a \in Rand!Words /\ b \in Rand!Words => Rand!Xor(a, b) \in Rand!Words
  BY DEF Rand!Xor, Rand!Words
<1>4. Rand!Xor(a, b) = Rand!Xor(b, a)
  BY <1>1
<1>5. Rand!Xor({}, a) = a
  BY <1>2
<1> QED BY <1>3, <1>4, <1>5

\* The middle two of four change places.
LEMMA XorFour ==
  ASSUME NEW a, NEW b, NEW c, NEW d
  PROVE  Rand!Xor(Rand!Xor(a, b), Rand!Xor(c, d)) = Rand!Xor(Rand!Xor(a, c), Rand!Xor(b, d))
<1>1. \A x : x \in Rand!Xor(Rand!Xor(a, b), Rand!Xor(c, d))
               <=> x \in Rand!Xor(Rand!Xor(a, c), Rand!Xor(b, d))
  BY DEF Rand!Xor
<1> QED BY <1>1

\* What the assumptions say of the register.
LEMMA Register ==
  /\ Width \in Nat /\ Width > 1 /\ Poly \in Rand!Words /\ Period \in Nat \ {0}
  /\ 0 \in 0 .. Width - 1 /\ Width - 1 \in 0 .. Width - 1
  /\ {} \in Rand!Words /\ \A j \in 0 .. Width - 1 : {j} \in Rand!Words
BY Parameters DEF Rand!RandomAccessAssumption, Rand!Words

\* A word shifted.
LEMMA ShiftedIs ==
  ASSUME NEW a \in Rand!Words
  PROVE  /\ \A x : x \in Rand!Shifted(a) <=> x \in 1 .. Width - 1 /\ x - 1 \in a
         /\ Rand!Shifted(a) \in Rand!Words
<1>1. ASSUME NEW x, x \in Rand!Shifted(a) PROVE x \in 1 .. Width - 1 /\ x - 1 \in a
  <2>1. PICK i \in a \ {Width - 1} : x = i + 1
    BY <1>1 DEF Rand!Shifted
  <2>2. i \in 0 .. Width - 1 /\ i # Width - 1
    BY DEF Rand!Words
  <2>3. x \in 1 .. Width - 1 /\ x - 1 = i
    BY <2>1, <2>2, Register
  <2> QED BY <2>3
<1>2. ASSUME NEW x, x \in 1 .. Width - 1, x - 1 \in a PROVE x \in Rand!Shifted(a)
  <2>1. x - 1 # Width - 1 /\ (x - 1) + 1 = x
    BY <1>2, Register
  <2> QED BY <1>2, <2>1 DEF Rand!Shifted
<1>3. Rand!Shifted(a) \in Rand!Words
  <2>1. \A x : x \in 1 .. Width - 1 => x \in 0 .. Width - 1
    BY Register
  <2> QED BY <1>1, <2>1 DEF Rand!Words
<1> QED BY <1>1, <1>2, <1>3

\* A step of the register is linear.
LEMMA StepLinear ==
  ASSUME NEW a \in Rand!Words, NEW b \in Rand!Words
  PROVE  /\ Rand!Step(a) \in Rand!Words
         /\ Rand!Step(Rand!Xor(a, b)) = Rand!Xor(Rand!Step(a), Rand!Step(b))
<1> DEFINE Tap(w) == IF Width - 1 \in w THEN Poly ELSE {}
<1>1. Rand!Xor(a, b) \in Rand!Words
  BY XorWords
<1>2. Rand!Shifted(Rand!Xor(a, b)) = Rand!Xor(Rand!Shifted(a), Rand!Shifted(b))
  <2>1. \A x : x \in Rand!Shifted(Rand!Xor(a, b))
                 <=> x \in 1 .. Width - 1 /\ x - 1 \in Rand!Xor(a, b)
    BY <1>1, ShiftedIs
  <2>2. \A x : /\ x \in Rand!Shifted(a) <=> x \in 1 .. Width - 1 /\ x - 1 \in a
               /\ x \in Rand!Shifted(b) <=> x \in 1 .. Width - 1 /\ x - 1 \in b
    BY ShiftedIs
  <2>3. \A x : x - 1 \in Rand!Xor(a, b) <=> (x - 1 \in a /\ x - 1 \notin b)
                                              \/ (x - 1 \in b /\ x - 1 \notin a)
    BY DEF Rand!Xor
  <2>4. \A x : x \in Rand!Xor(Rand!Shifted(a), Rand!Shifted(b))
                 <=> (x \in Rand!Shifted(a) /\ x \notin Rand!Shifted(b))
                      \/ (x \in Rand!Shifted(b) /\ x \notin Rand!Shifted(a))
    BY DEF Rand!Xor
  <2>5. \A x : x \in Rand!Shifted(Rand!Xor(a, b))
                 <=> x \in Rand!Xor(Rand!Shifted(a), Rand!Shifted(b))
    BY <2>1, <2>2, <2>3, <2>4
  <2> QED BY <2>5
<1>3. Tap(Rand!Xor(a, b)) = Rand!Xor(Tap(a), Tap(b))
  <2>1. Width - 1 \in Rand!Xor(a, b) <=> (Width - 1 \in a /\ Width - 1 \notin b)
                                           \/ (Width - 1 \in b /\ Width - 1 \notin a)
    BY DEF Rand!Xor
  <2>2. /\ Rand!Xor(Poly, Poly) = {} /\ Rand!Xor(Poly, {}) = Poly
        /\ Rand!Xor({}, Poly) = Poly /\ Rand!Xor({}, {}) = {}
    BY XorLaws, XorWords
  <2> QED BY <2>1, <2>2
<1>4. \A w : Rand!Step(w) = Rand!Xor(Rand!Shifted(w), Tap(w))
  BY DEF Rand!Step
<1>5. Tap(a) \in Rand!Words
  BY Register
<1> HIDE DEF Tap
<1>6. Rand!Step(a) \in Rand!Words
  BY <1>4, <1>5, ShiftedIs, XorWords
<1>7. Rand!Step(Rand!Xor(a, b))
        = Rand!Xor(Rand!Xor(Rand!Shifted(a), Rand!Shifted(b)), Rand!Xor(Tap(a), Tap(b)))
  BY <1>2, <1>3, <1>4
<1>8. @ = Rand!Xor(Rand!Xor(Rand!Shifted(a), Tap(a)), Rand!Xor(Rand!Shifted(b), Tap(b)))
  BY XorFour
<1> QED BY <1>4, <1>6, <1>7, <1>8

\* A bit moves up until it leaves the word.
LEMMA StepOfBit ==
  /\ Rand!Step({}) = {}
  /\ \A j \in 0 .. Width - 1 : Rand!Step({j}) = IF j = Width - 1 THEN Poly ELSE {j + 1}
<1>1. Rand!Step({}) = {}
  <2>1. Rand!Shifted({}) = {} /\ Width - 1 \notin {}
    BY DEF Rand!Shifted
  <2> QED BY <2>1, XorLaws DEF Rand!Step
<1>2. ASSUME NEW j \in 0 .. Width - 1
      PROVE  Rand!Step({j}) = IF j = Width - 1 THEN Poly ELSE {j + 1}
  <2>1. CASE j = Width - 1
    <3>1. Rand!Shifted({j}) = {} /\ Width - 1 \in {j}
      BY <2>1 DEF Rand!Shifted
    <3> QED BY <2>1, <3>1, XorWords DEF Rand!Step
  <2>2. CASE j # Width - 1
    <3>1. Rand!Shifted({j}) = {j + 1} /\ Width - 1 \notin {j}
      BY <2>2 DEF Rand!Shifted
    <3> QED BY <2>2, <3>1, XorLaws DEF Rand!Step
  <2> QED BY <2>1, <2>2
<1> QED BY <1>1, <1>2

-----------------------------------------------------------------------------
\* The words of the register, one after the other.
LEMMA IteratedIs ==
  /\ Rand!Iterated[0] = {0}
  /\ \A n \in Nat : /\ Rand!Iterated[n] \in Rand!Words
                    /\ Rand!Iterated[n + 1] = Rand!Step(Rand!Iterated[n])
<1> DEFINE S == Rand!Words
           g == [k \in Nat |-> [w \in S |-> Rand!Step(w)]]
<1>1. {0} \in S /\ g \in [Nat -> [S -> S]]
  BY Register, StepLinear
<1>2. \A k \in Nat : \A w \in S : g[k][w] = Rand!Step(w)
  OBVIOUS
<1> HIDE DEF g, S
<1>7. \E f : Sequence(S, {0}, g, f)
  BY <1>1, RecursionWorks
<1>3. PICK f \in [Nat -> S] : f[0] = {0} /\ \A n \in Nat : f[n + 1] = g[n][f[n]]
  BY <1>7 DEF Sequence
<1>4. f = [m \in Nat |-> IF m = 0 THEN {0} ELSE Rand!Step(f[m - 1])]
  <2>1. ASSUME NEW m \in Nat PROVE f[m] = IF m = 0 THEN {0} ELSE Rand!Step(f[m - 1])
    <3>1. CASE m = 0
      BY <1>3, <3>1
    <3>2. CASE m # 0
      <4>1. PICK k \in Nat : k = m - 1 /\ m = k + 1
        BY <3>2
      <4>2. f[k + 1] = Rand!Step(f[k])
        BY <1>2, <1>3
      <4> QED BY <3>2, <4>1, <4>2
    <3> QED BY <3>1, <3>2
  <2>2. f = [m \in Nat |-> f[m]]
    OBVIOUS
  <2> QED BY <2>1, <2>2
<1>5. Rand!Iterated = [m \in Nat |-> IF m = 0 THEN {0} ELSE Rand!Step(Rand!Iterated[m - 1])]
  BY <1>4 DEF Rand!Iterated
<1>6. /\ Rand!Iterated[0] = {0}
      /\ \A n \in Nat : Rand!Iterated[n + 1] = Rand!Step(Rand!Iterated[n])
  <2>1. \A m \in Nat : Rand!Iterated[m] = IF m = 0 THEN {0} ELSE Rand!Step(Rand!Iterated[m - 1])
    BY <1>5
  <2>2. ASSUME NEW n \in Nat PROVE Rand!Iterated[n + 1] = Rand!Step(Rand!Iterated[n])
    <3>1. PICK m \in Nat : m = n + 1 /\ m # 0 /\ m - 1 = n
      OBVIOUS
    <3> QED BY <2>1, <3>1
  <2>3. Rand!Iterated[0] = {0}
    BY <2>1
  <2> QED BY <2>2, <2>3
<1> DEFINE X == {n \in Nat : Rand!Iterated[n] \in S}
<1>10. Nat \subseteq X
  <2>1. 0 \in X
    BY <1>1, <1>6
  <2>2. ASSUME NEW n \in Nat, n \in X PROVE n + 1 \in X
    <3>1. Rand!Iterated[n] \in Rand!Words
      BY <2>2 DEF S
    <3>2. Rand!Step(Rand!Iterated[n]) \in Rand!Words
      BY <3>1, StepLinear
    <3> QED BY <1>6, <3>2 DEF S
  <2> HIDE DEF X
  <2> QED BY <2>1, <2>2, FromZeroOn
<1> QED BY <1>6, <1>10 DEF S

Maps == [Rand!Words -> Rand!Words]

Linear(t) ==
  t \in Maps /\ \A a, b \in Rand!Words : t[Rand!Xor(a, b)] = Rand!Xor(t[a], t[b])

\* The n-th power of the step.
Unmoved  == [w \in Rand!Words |-> w]
After(t) == [w \in Rand!Words |-> Rand!Step(t[w])]

ArePowers(f) ==
  f \in [Nat -> Maps] /\ f[0] = Unmoved /\ \A n \in Nat : f[n + 1] = After(f[n])

Steps == CHOOSE f : ArePowers(f)

\* The powers of the step, as functions.
LEMMA StepsAre ==
  \A n \in Nat : /\ Steps[n] \in Maps
                 /\ \A w \in Rand!Words : /\ Steps[n][w] \in Rand!Words /\ Steps[0][w] = w
                                          /\ Steps[n + 1][w] = Rand!Step(Steps[n][w])
<1> DEFINE g == [k \in Nat |-> [t \in Maps |-> After(t)]]
<1>1. ASSUME NEW t \in Maps PROVE After(t) \in Maps
  <2>1. \A w \in Rand!Words : t[w] \in Rand!Words
    BY DEF Maps
  <2>2. \A w \in Rand!Words : Rand!Step(t[w]) \in Rand!Words
    BY <2>1, StepLinear
  <2> QED BY <2>2 DEF Maps, After
<1>2. Unmoved \in Maps
  BY DEF Maps, Unmoved
<1>3. g \in [Nat -> [Maps -> Maps]] /\ \A k \in Nat : \A t \in Maps : g[k][t] = After(t)
  BY <1>1
<1> HIDE DEF g
<1>4. \E f : Sequence(Maps, Unmoved, g, f)
  BY <1>2, <1>3, RecursionWorks
<1>5. \E f : ArePowers(f)
  <2>1. PICK f \in [Nat -> Maps] :
          f[0] = Unmoved /\ \A n \in Nat : f[n + 1] = g[n][f[n]]
    BY <1>4 DEF Sequence
  <2>2. \A n \in Nat : f[n + 1] = After(f[n])
    BY <1>3, <2>1
  <2> QED BY <2>1, <2>2 DEF ArePowers
<1>6. /\ Steps \in [Nat -> Maps] /\ Steps[0] = Unmoved
      /\ \A n \in Nat : Steps[n + 1] = After(Steps[n])
  <2>1. ArePowers(Steps)
    BY <1>5 DEF Steps
  <2> QED BY <2>1 DEF ArePowers
<1>7. ASSUME NEW n \in Nat, NEW w \in Rand!Words
      PROVE  /\ Steps[n][w] \in Rand!Words /\ Steps[0][w] = w
             /\ Steps[n + 1][w] = Rand!Step(Steps[n][w])
  <2>1. Steps[n][w] \in Rand!Words
    BY <1>6 DEF Maps
  <2>2. Steps[0][w] = w
    BY <1>6 DEF Unmoved
  <2>3. Steps[n + 1][w] = Rand!Step(Steps[n][w])
    BY <1>6 DEF After
  <2> QED BY <2>1, <2>2, <2>3
<1> QED BY <1>6, <1>7

\* They are linear, commute with the step, and add their exponents.
LEMMA StepsWork ==
  \A n \in Nat :
    /\ Linear(Steps[n])
    /\ \A w \in Rand!Words : Steps[n][Rand!Step(w)] = Rand!Step(Steps[n][w])
    /\ Steps[n][{0}] = Rand!Iterated[n]
<1> DEFINE P(n) == /\ \A a, b \in Rand!Words :
                        Steps[n][Rand!Xor(a, b)] = Rand!Xor(Steps[n][a], Steps[n][b])
                   /\ \A w \in Rand!Words : Steps[n][Rand!Step(w)] = Rand!Step(Steps[n][w])
                   /\ Steps[n][{0}] = Rand!Iterated[n]
           X == {n \in Nat : P(n)}
<1>1. 0 \in X
  <2>1. \A w \in Rand!Words : Steps[0][w] = w
    BY StepsAre
  <2>2. \A a, b \in Rand!Words :
          Steps[0][Rand!Xor(a, b)] = Rand!Xor(Steps[0][a], Steps[0][b])
    BY <2>1, XorWords
  <2>3. \A w \in Rand!Words : Steps[0][Rand!Step(w)] = Rand!Step(Steps[0][w])
    BY <2>1, StepLinear
  <2>4. Steps[0][{0}] = Rand!Iterated[0]
    BY <2>1, IteratedIs, Register
  <2> QED BY <2>2, <2>3, <2>4
<1>2. ASSUME NEW n \in Nat, n \in X PROVE n + 1 \in X
  <2>1. ASSUME NEW a \in Rand!Words, NEW b \in Rand!Words
        PROVE  Steps[n + 1][Rand!Xor(a, b)] = Rand!Xor(Steps[n + 1][a], Steps[n + 1][b])
    <3>1. Rand!Xor(a, b) \in Rand!Words
      BY XorWords
    <3>2. Steps[n + 1][Rand!Xor(a, b)] = Rand!Step(Rand!Xor(Steps[n][a], Steps[n][b]))
      BY <1>2, <3>1, StepsAre
    <3> QED BY <3>2, StepsAre, StepLinear
  <2>2. ASSUME NEW w \in Rand!Words
        PROVE  Steps[n + 1][Rand!Step(w)] = Rand!Step(Steps[n + 1][w])
    <3>1. Rand!Step(w) \in Rand!Words
      BY StepLinear
    <3> QED BY <1>2, <3>1, StepsAre
  <2>3. Steps[n + 1][{0}] = Rand!Iterated[n + 1]
    <3>1. Steps[n + 1][{0}] = Rand!Step(Steps[n][{0}])
      BY StepsAre, Register
    <3> QED BY <1>2, <3>1, IteratedIs
  <2>4. P(n + 1)
    BY <2>1, <2>2, <2>3
  <2> HIDE DEF P
  <2> QED BY <2>4
<1> HIDE DEF X
<1>3. Nat \subseteq X
  BY <1>1, <1>2, FromZeroOn
<1> USE DEF X
<1> QED BY <1>3, StepsAre DEF Linear

\* The power of a sum is one power after the other.
LEMMA StepsAdd ==
  \A m, n \in Nat : \A w \in Rand!Words : Steps[m + n][w] = Steps[m][Steps[n][w]]
<1> SUFFICES ASSUME NEW n \in Nat, NEW w \in Rand!Words
             PROVE  \A m \in Nat : Steps[m + n][w] = Steps[m][Steps[n][w]]
  OBVIOUS
<1> DEFINE X == {m \in Nat : Steps[m + n][w] = Steps[m][Steps[n][w]]}
<1>0. PICK v \in Rand!Words : v = Steps[n][w]
  BY StepsAre
<1>1. 0 \in X
  <2>1. 0 + n = n
    OBVIOUS
  <2> QED BY <1>0, <2>1, StepsAre
<1>2. ASSUME NEW m \in Nat, m \in X PROVE m + 1 \in X
  <2>1. PICK k \in Nat : k = m + n /\ (m + 1) + n = k + 1
    OBVIOUS
  <2>2. Steps[k + 1][w] = Rand!Step(Steps[k][w])
    BY StepsAre
  <2>3. Steps[m + 1][v] = Rand!Step(Steps[m][v])
    BY StepsAre
  <2> QED BY <1>0, <1>2, <2>1, <2>2, <2>3
<1> HIDE DEF X
<1>3. Nat \subseteq X
  BY <1>1, <1>2, FromZeroOn
<1> QED BY <1>3 DEF X

\* The first words have one bit; the next is the polynomial.
LEMMA FirstWords ==
  /\ \A j \in 0 .. Width - 1 : Rand!Iterated[j] = {j}
  /\ Rand!Iterated[Width] = Poly
<1> DEFINE X == {j \in Nat : j <= Width - 1 => Rand!Iterated[j] = {j}}
<1>1. 0 \in X
  BY IteratedIs
<1>2. ASSUME NEW j \in Nat, j \in X PROVE j + 1 \in X
  <2> SUFFICES ASSUME j + 1 <= Width - 1 PROVE Rand!Iterated[j + 1] = {j + 1}
    OBVIOUS
  <2>1. j \in 0 .. Width - 1 /\ j # Width - 1 /\ j <= Width - 1
    BY Register
  <2>2. Rand!Iterated[j] = {j}
    BY <1>2, <2>1
  <2> QED BY <2>1, <2>2, StepOfBit, IteratedIs
<1> HIDE DEF X
<1>3. Nat \subseteq X
  BY <1>1, <1>2, FromZeroOn
<1> USE DEF X
<1>4. \A j \in 0 .. Width - 1 : Rand!Iterated[j] = {j}
  BY <1>3, Register
<1>5. PICK k \in 0 .. Width - 1 : k = Width - 1 /\ k + 1 = Width /\ k \in Nat
  BY Register
<1>6. Rand!Iterated[k + 1] = Poly
  BY <1>4, <1>5, StepOfBit, IteratedIs
<1> QED BY <1>4, <1>5, <1>6

-----------------------------------------------------------------------------
\* Twice a word is nothing, and what two sums share drops out.
LEMMA XorDrops ==
  ASSUME NEW a, NEW b, NEW c
  PROVE  /\ Rand!Xor(a, a) = {} /\ Rand!Xor(a, {}) = a
         /\ Rand!Xor(Rand!Xor(a, b), Rand!Xor(b, c)) = Rand!Xor(a, c)
<1>1. \A x : x \in Rand!Xor(Rand!Xor(a, b), Rand!Xor(b, c)) <=> x \in Rand!Xor(a, c)
  BY DEF Rand!Xor
<1>2. Rand!Xor(Rand!Xor(a, b), Rand!Xor(b, c)) = Rand!Xor(a, c)
  BY <1>1
<1>3. Rand!Xor(a, a) = {} /\ Rand!Xor(a, {}) = a
  BY DEF Rand!Xor
<1> QED BY <1>2, <1>3

\* Induction over the bits of a word, from the lowest up.
LEMMA BitByBit ==
  ASSUME NEW X, {} \in X,
         \A k \in 0 .. Width - 1 : \A a \in Rand!Words \cap X :
           k \notin a => Rand!Xor({k}, a) \in X
  PROVE  Rand!Words \subseteq X
<1> DEFINE Y == {k \in Nat : \A a \in Rand!Words : a \subseteq 0 .. k - 1 => a \in X}
<1>1. 0 \in Y
  <2>1. \A a : a \subseteq 0 .. 0 - 1 => a = {}
    OBVIOUS
  <2> QED BY <2>1
<1>2. ASSUME NEW k \in Nat, k \in Y PROVE k + 1 \in Y
  <2> SUFFICES ASSUME NEW a \in Rand!Words, a \subseteq 0 .. (k + 1) - 1 PROVE a \in X
    OBVIOUS
  <2>1. \A x \in a : x = k \/ x \in 0 .. k - 1
    OBVIOUS
  <2>2. CASE k \notin a
    <3>1. a \subseteq 0 .. k - 1
      BY <2>1, <2>2
    <3> QED BY <1>2, <3>1
  <2>3. CASE k \in a
    <3>1. PICK b : b = a \ {k}
      OBVIOUS
    <3>2. b \in Rand!Words /\ b \subseteq 0 .. k - 1 /\ k \notin b /\ k \in 0 .. Width - 1
      BY <2>1, <2>3, <3>1 DEF Rand!Words
    <3>3. b \in X
      BY <1>2, <3>2
    <3>4. Rand!Xor({k}, b) = a
      <4>1. \A x : x \in Rand!Xor({k}, b) <=> x \in a
        BY <2>3, <3>1 DEF Rand!Xor
      <4> QED BY <4>1
    <3>5. Rand!Xor({k}, b) \in X
      BY <3>2, <3>3
    <3> QED BY <3>4, <3>5
  <2> QED BY <2>2, <2>3
<1> HIDE DEF Y
<1>3. Nat \subseteq Y
  BY <1>1, <1>2, FromZeroOn
<1>4. Width \in Y
  BY <1>3, Register
<1>5. \A a \in Rand!Words : a \subseteq 0 .. Width - 1
  BY DEF Rand!Words
<1> QED BY <1>4, <1>5 DEF Y

\* M2 holds the words of even number.
LEMMA M2Is == \A j \in 0 .. Width - 1 : Rand!M2[j] = Rand!Iterated[2 * j]
<1> DEFINE f == [j \in 0 .. Width - 1 |-> Rand!Iterated[2 * j]]
<1>1. f = [j \in 0 .. Width - 1 |-> IF j = 0 THEN {0} ELSE Rand!Step(Rand!Step(f[j - 1]))]
  <2>1. ASSUME NEW j \in 0 .. Width - 1
        PROVE  f[j] = IF j = 0 THEN {0} ELSE Rand!Step(Rand!Step(f[j - 1]))
    <3>1. CASE j = 0
      BY <3>1, IteratedIs
    <3>2. CASE j # 0
      <4>1. PICK k \in Nat : k = 2 * (j - 1)
        BY <3>2
      <4>2. j - 1 \in 0 .. Width - 1 /\ k + 1 \in Nat /\ 2 * j = (k + 1) + 1
        BY <3>2, <4>1, Register
      <4>3. Rand!Iterated[(k + 1) + 1] = Rand!Step(Rand!Step(Rand!Iterated[k]))
        BY <4>2, IteratedIs
      <4> QED BY <3>2, <4>1, <4>2, <4>3
    <3> QED BY <3>1, <3>2
  <2>2. f = [j \in 0 .. Width - 1 |-> f[j]]
    OBVIOUS
  <2> HIDE DEF f
  <2> QED BY <2>1, <2>2
<1> HIDE DEF f
<1>2. Rand!M2 = [j \in 0 .. Width - 1 |->
                   IF j = 0 THEN {0} ELSE Rand!Step(Rand!Step(Rand!M2[j - 1]))]
  BY <1>1 DEF Rand!M2
<1>3. \A j \in 0 .. Width - 1 :
        Rand!M2[j] = IF j = 0 THEN {0} ELSE Rand!Step(Rand!Step(Rand!M2[j - 1]))
  BY <1>2
<1> DEFINE X == {j \in Nat : j <= Width - 1 => Rand!M2[j] = Rand!Iterated[2 * j]}
<1>4. 0 \in X
  <2>1. Rand!M2[0] = {0} /\ 2 * 0 = 0
    BY <1>3, Register
  <2> QED BY <2>1, IteratedIs
<1>5. ASSUME NEW j \in Nat, j \in X PROVE j + 1 \in X
  <2> SUFFICES ASSUME j + 1 <= Width - 1
               PROVE  Rand!M2[j + 1] = Rand!Iterated[2 * (j + 1)]
    OBVIOUS
  <2>1. PICK i \in 0 .. Width - 1 : i = j + 1 /\ i # 0 /\ i - 1 = j
    BY Register
  <2>2. Rand!M2[i] = Rand!Step(Rand!Step(Rand!M2[j]))
    BY <1>3, <2>1
  <2>3. Rand!M2[j] = Rand!Iterated[2 * j]
    <3>1. j <= Width - 1
      BY Register
    <3> QED BY <1>5, <3>1
  <2>4. PICK k \in Nat : k = 2 * j /\ k + 1 \in Nat /\ 2 * i = (k + 1) + 1
    BY <2>1
  <2>5. Rand!Iterated[(k + 1) + 1] = Rand!Step(Rand!Step(Rand!Iterated[k]))
    BY <2>4, IteratedIs
  <2> QED BY <2>1, <2>2, <2>3, <2>4, <2>5
<1> HIDE DEF X
<1>6. Nat \subseteq X
  BY <1>4, <1>5, FromZeroOn
<1>7. \A j \in 0 .. Width - 1 : j \in Nat /\ j <= Width - 1
  BY Register
<1> QED BY <1>6, <1>7 DEF X

\* What bit j of a word adds to its square, and the sum of the bits from j on.
Part(w, j) == IF j \in w THEN Rand!M2[j] ELSE {}

IsSum(w, t) ==
  /\ t[Width] = {}
  /\ \A j \in 0 .. Width - 1 : t[j] = Rand!Xor(Part(w, j), t[j + 1])

\* The part of a bit is a word, and linear.
LEMMA PartIs ==
  ASSUME NEW a \in Rand!Words, NEW b \in Rand!Words, NEW j \in 0 .. Width - 1
  PROVE  /\ Part(a, j) \in Rand!Words
         /\ Part(Rand!Xor(a, b), j) = Rand!Xor(Part(a, j), Part(b, j))
<1>1. Rand!M2[j] \in Rand!Words
  <2>1. 2 * j \in Nat
    BY Register
  <2> QED BY <2>1, M2Is, IteratedIs
<1>2. j \in Rand!Xor(a, b) <=> (j \in a /\ j \notin b) \/ (j \in b /\ j \notin a)
  BY DEF Rand!Xor
<1>3. /\ Rand!Xor(Rand!M2[j], Rand!M2[j]) = {} /\ Rand!Xor(Rand!M2[j], {}) = Rand!M2[j]
      /\ Rand!Xor({}, Rand!M2[j]) = Rand!M2[j] /\ Rand!Xor({}, {}) = {}
  BY XorDrops, XorWords
<1> QED BY <1>1, <1>2, <1>3, Register DEF Part

\* The sum exists, and Square is its value at 0.
LEMMA SquareIs ==
  ASSUME NEW w \in Rand!Words
  PROVE  \E t : IsSum(w, t) /\ Rand!Square(w) = t[0]
<1> DEFINE g == [k \in Nat |-> [v \in Rand!Words |-> Rand!Xor(Part(w, (Width - 1) - k), v)]]
<1>1. ASSUME NEW k \in Nat, NEW v \in Rand!Words
      PROVE  Rand!Xor(Part(w, (Width - 1) - k), v) \in Rand!Words
  <2>1. Part(w, (Width - 1) - k) \in Rand!Words
    <3>1. CASE (Width - 1) - k \in w
      <4>1. (Width - 1) - k \in 0 .. Width - 1
        BY <3>1 DEF Rand!Words
      <4> QED BY <4>1, PartIs
    <3>2. CASE (Width - 1) - k \notin w
      BY <3>2, Register DEF Part
    <3> QED BY <3>1, <3>2
  <2> QED BY <2>1, XorWords
<1>2. /\ g \in [Nat -> [Rand!Words -> Rand!Words]]
      /\ \A k \in Nat : \A v \in Rand!Words :
           g[k][v] = Rand!Xor(Part(w, (Width - 1) - k), v)
  BY <1>1
<1> HIDE DEF g
<1>3. \E f : Sequence(Rand!Words, {}, g, f)
  BY <1>2, Register, RecursionWorks
<1>4. PICK f \in [Nat -> Rand!Words] :
        f[0] = {} /\ \A k \in Nat : f[k + 1] = g[k][f[k]]
  BY <1>3 DEF Sequence
<1> DEFINE e == [j \in 0 .. Width |-> f[Width - j]]
<1>5. e = [j \in 0 .. Width |-> IF j = Width THEN {}
                                ELSE Rand!Xor(IF j \in w THEN Rand!M2[j] ELSE {}, e[j + 1])]
  <2>1. ASSUME NEW j \in 0 .. Width
        PROVE  e[j] = IF j = Width THEN {}
                      ELSE Rand!Xor(IF j \in w THEN Rand!M2[j] ELSE {}, e[j + 1])
    <3>1. CASE j = Width
      <4>1. Width - j = 0
        BY <3>1, Register
      <4> QED BY <1>4, <3>1, <4>1
    <3>2. CASE j # Width
      <4>1. PICK k \in Nat : k = Width - (j + 1)
        BY <3>2, Register
      <4>2. Width - j = k + 1 /\ (Width - 1) - k = j /\ j + 1 \in 0 .. Width
        BY <3>2, <4>1, Register
      <4>3. f[k + 1] = Rand!Xor(Part(w, j), f[k])
        BY <1>2, <1>4, <4>2
      <4>4. e[j] = f[k + 1] /\ e[j + 1] = f[k]
        BY <4>1, <4>2
      <4> QED BY <3>2, <4>3, <4>4 DEF Part
    <3> QED BY <3>1, <3>2
  <2>2. e = [j \in 0 .. Width |-> e[j]]
    OBVIOUS
  <2> HIDE DEF e
  <2> QED BY <2>1, <2>2
<1> HIDE DEF e
<1> DEFINE temp[j \in 0 .. Width] ==
             IF j = Width THEN {}
             ELSE Rand!Xor(IF j \in w THEN Rand!M2[j] ELSE {}, temp[j + 1])
<1>6. temp = [j \in 0 .. Width |-> IF j = Width THEN {}
                                   ELSE Rand!Xor(IF j \in w THEN Rand!M2[j] ELSE {},
                                                 temp[j + 1])]
  BY <1>5
<1>7. Rand!Square(w) = temp[0]
  BY DEF Rand!Square
<1> HIDE DEF temp
<1>8. \A j \in 0 .. Width :
        temp[j] = IF j = Width THEN {}
                  ELSE Rand!Xor(IF j \in w THEN Rand!M2[j] ELSE {}, temp[j + 1])
  BY <1>6
<1>9. IsSum(w, temp)
  <2>1. temp[Width] = {}
    BY <1>8, Register
  <2>2. ASSUME NEW j \in 0 .. Width - 1 PROVE temp[j] = Rand!Xor(Part(w, j), temp[j + 1])
    <3>1. j \in 0 .. Width /\ j # Width
      BY Register
    <3> QED BY <1>8, <3>1 DEF Part
  <2> QED BY <2>1, <2>2 DEF IsSum
<1> QED BY <1>7, <1>9

\* From the top bit down.
LEMMA FromWidthDown ==
  ASSUME NEW X, Width \in X, \A j \in 0 .. Width - 1 : j + 1 \in X => j \in X
  PROVE  0 \in X
<1> DEFINE Y == {k \in Nat : k <= Width => Width - k \in X}
<1>1. 0 \in Y
  BY Register
<1>2. ASSUME NEW k \in Nat, k \in Y PROVE k + 1 \in Y
  <2> SUFFICES ASSUME k + 1 <= Width PROVE Width - (k + 1) \in X
    OBVIOUS
  <2>1. PICK j \in 0 .. Width - 1 : j = Width - (k + 1) /\ j + 1 = Width - k /\ k <= Width
    BY Register
  <2> QED BY <1>2, <2>1
<1> HIDE DEF Y
<1>3. Nat \subseteq Y
  BY <1>1, <1>2, FromZeroOn
<1>4. Width \in Y /\ Width <= Width /\ Width - Width = 0
  BY <1>3, Register
<1> QED BY <1>4 DEF Y

\* Squaring is linear, and doubles the number of a single bit.
LEMMA SquareLinear ==
  /\ \A a, b \in Rand!Words : /\ Rand!Square(a) \in Rand!Words
                              /\ Rand!Square(Rand!Xor(a, b))
                                   = Rand!Xor(Rand!Square(a), Rand!Square(b))
  /\ Rand!Square({}) = {}
  /\ \A k \in 0 .. Width - 1 : Rand!Square({k}) = Rand!M2[k]
<1>1. ASSUME NEW a \in Rand!Words PROVE Rand!Square(a) \in Rand!Words
  <2>1. PICK t : IsSum(a, t) /\ Rand!Square(a) = t[0]
    BY SquareIs
  <2> DEFINE X == {j \in Int : t[j] \in Rand!Words}
  <2>2. Width \in X
    <3>1. t[Width] = {} /\ Width \in Int
      BY <2>1, Register DEF IsSum
    <3>2. t[Width] \in Rand!Words
      BY <3>1, Register
    <3> QED BY <3>1, <3>2
  <2>3. ASSUME NEW j \in 0 .. Width - 1, j + 1 \in X PROVE j \in X
    <3>1. t[j] = Rand!Xor(Part(a, j), t[j + 1]) /\ t[j + 1] \in Rand!Words
      BY <2>1, <2>3 DEF IsSum
    <3>2. Part(a, j) \in Rand!Words
      BY PartIs
    <3>3. t[j] \in Rand!Words /\ j \in Int
      BY <3>1, <3>2, XorWords
    <3> QED BY <3>3
  <2> HIDE DEF X
  <2>4. 0 \in X
    BY <2>2, <2>3, FromWidthDown
  <2> QED BY <2>1, <2>4 DEF X
<1>2. ASSUME NEW a \in Rand!Words, NEW b \in Rand!Words
      PROVE  Rand!Square(Rand!Xor(a, b)) = Rand!Xor(Rand!Square(a), Rand!Square(b))
  <2>1. PICK s : IsSum(a, s) /\ Rand!Square(a) = s[0]
    BY SquareIs
  <2>2. PICK t : IsSum(b, t) /\ Rand!Square(b) = t[0]
    BY SquareIs
  <2>3. PICK c \in Rand!Words : c = Rand!Xor(a, b)
    BY XorWords
  <2>4. PICK u : IsSum(c, u) /\ Rand!Square(c) = u[0]
    BY SquareIs
  <2> DEFINE X == {j \in Int : u[j] = Rand!Xor(s[j], t[j])}
  <2>5. Width \in X
    <3>1. Rand!Xor({}, {}) = {}
      BY XorDrops
    <3>2. u[Width] = {} /\ s[Width] = {} /\ t[Width] = {} /\ Width \in Int
      BY <2>1, <2>2, <2>4, Register DEF IsSum
    <3> QED BY <3>1, <3>2
  <2>6. ASSUME NEW j \in 0 .. Width - 1, j + 1 \in X PROVE j \in X
    <3>1. u[j] = Rand!Xor(Part(c, j), u[j + 1])
      BY <2>4 DEF IsSum
    <3>2. u[j + 1] = Rand!Xor(s[j + 1], t[j + 1])
      BY <2>6
    <3>3. Part(c, j) = Rand!Xor(Part(a, j), Part(b, j))
      BY <2>3, PartIs
    <3>4. s[j] = Rand!Xor(Part(a, j), s[j + 1]) /\ t[j] = Rand!Xor(Part(b, j), t[j + 1])
      BY <2>1, <2>2 DEF IsSum
    <3>5. u[j] = Rand!Xor(s[j], t[j])
      BY <3>1, <3>2, <3>3, <3>4, XorFour
    <3> QED BY <3>5
  <2> HIDE DEF X
  <2>7. 0 \in X
    BY <2>5, <2>6, FromWidthDown
  <2> QED BY <2>1, <2>2, <2>3, <2>4, <2>7 DEF X
<1>3. Rand!Square({}) = {}
  <2>1. Rand!Xor({}, {}) = {} /\ {} \in Rand!Words
    BY XorDrops, Register
  <2>2. Rand!Square({}) = Rand!Xor(Rand!Square({}), Rand!Square({}))
    BY <1>2, <2>1
  <2> QED BY <2>2, XorDrops
<1>4. ASSUME NEW k \in 0 .. Width - 1 PROVE Rand!Square({k}) = Rand!M2[k]
  <2>1. PICK t : IsSum({k}, t) /\ Rand!Square({k}) = t[0]
    BY SquareIs, Register
  <2> DEFINE X == {j \in Int : t[j] = IF j <= k THEN Rand!M2[k] ELSE {}}
  <2>2. Width \in X
    <3>1. ~(Width <= k)
      BY Register
    <3>2. t[Width] = {} /\ Width \in Int
      BY <2>1, Register DEF IsSum
    <3> QED BY <3>1, <3>2
  <2>3. ASSUME NEW j \in 0 .. Width - 1, j + 1 \in X PROVE j \in X
    <3>1. t[j] = Rand!Xor(Part({k}, j), t[j + 1]) /\ j \in Int
      BY <2>1 DEF IsSum
    <3>2. t[j + 1] = IF j + 1 <= k THEN Rand!M2[k] ELSE {}
      BY <2>3
    <3>3. CASE j = k
      <4>1. Part({k}, j) = Rand!M2[k] /\ ~(j + 1 <= k) /\ j <= k
        BY <3>3 DEF Part
      <4>2. t[j] = Rand!M2[k]
        BY <3>1, <3>2, <4>1, XorDrops
      <4> QED BY <3>1, <4>1, <4>2
    <3>4. CASE j # k
      <4>1. Part({k}, j) = {} /\ (j <= k <=> j + 1 <= k)
        BY <3>4 DEF Part
      <4>2. t[j] = t[j + 1]
        BY <3>1, <4>1, XorWords
      <4> QED BY <3>1, <3>2, <4>1, <4>2
    <3> QED BY <3>3, <3>4
  <2> HIDE DEF X
  <2>4. 0 \in X
    BY <2>2, <2>3, FromWidthDown
  <2>5. 0 <= k
    OBVIOUS
  <2> QED BY <2>1, <2>4, <2>5 DEF X
<1> QED BY <1>1, <1>2, <1>3, <1>4

\* The functions that commute with the step commute with its powers.
Commutes(t) ==
  t \in Maps /\ \A w \in Rand!Words : t[Rand!Step(w)] = Rand!Step(t[w])

\* By induction on the exponent.
LEMMA CommutesAlways ==
  ASSUME NEW t, Commutes(t)
  PROVE  \A n \in Nat : \A w \in Rand!Words : t[Steps[n][w]] = Steps[n][t[w]]
<1>0. \A w \in Rand!Words : t[w] \in Rand!Words
  BY DEF Commutes, Maps
<1> SUFFICES ASSUME NEW w \in Rand!Words
             PROVE  \A n \in Nat : t[Steps[n][w]] = Steps[n][t[w]]
  OBVIOUS
<1> DEFINE X == {n \in Nat : t[Steps[n][w]] = Steps[n][t[w]]}
<1>1. 0 \in X
  <2>1. Steps[0][w] = w /\ Steps[0][t[w]] = t[w]
    BY <1>0, StepsAre
  <2> QED BY <2>1
<1>2. ASSUME NEW n \in Nat, n \in X PROVE n + 1 \in X
  <2>1. /\ Steps[n][w] \in Rand!Words /\ Steps[n + 1][w] = Rand!Step(Steps[n][w])
        /\ Steps[n + 1][t[w]] = Rand!Step(Steps[n][t[w]])
    BY <1>0, StepsAre
  <2>2. t[Rand!Step(Steps[n][w])] = Rand!Step(t[Steps[n][w]])
    BY <2>1 DEF Commutes
  <2>3. t[Steps[n + 1][w]] = Steps[n + 1][t[w]]
    BY <1>2, <2>1, <2>2
  <2> QED BY <2>3
<1> HIDE DEF X
<1>3. Nat \subseteq X
  BY <1>1, <1>2, FromZeroOn
<1> QED BY <1>3 DEF X

\* The square of {k}: as many steps on from it as lead to it.
LEMMA SquareOfBit ==
  \A k \in 0 .. Width - 1 : /\ Steps[k][{0}] = {k} /\ Steps[k][{k}] = Rand!Square({k})
                            /\ Rand!Square({k}) = Rand!Iterated[2 * k]
<1> SUFFICES ASSUME NEW k \in 0 .. Width - 1
             PROVE  /\ Steps[k][{0}] = {k} /\ Steps[k][{k}] = Rand!Square({k})
                    /\ Rand!Square({k}) = Rand!Iterated[2 * k]
  OBVIOUS
<1>1. k \in Nat /\ {0} \in Rand!Words
  BY Register
<1>2. Steps[k][{0}] = {k}
  BY <1>1, StepsWork, FirstWords
<1>3. Steps[k][{k}] = Steps[k + k][{0}]
  <2>1. \A w \in Rand!Words : Steps[k + k][w] = Steps[k][Steps[k][w]]
    BY <1>1, StepsAdd
  <2>2. Steps[k + k][{0}] = Steps[k][Steps[k][{0}]]
    BY <1>1, <2>1
  <2> QED BY <1>2, <2>2
<1>4. k + k \in Nat /\ k + k = 2 * k
  BY <1>1
<1>5. Steps[k + k][{0}] = Rand!Iterated[k + k]
  BY <1>4, StepsWork
<1>6. Rand!Square({k}) = Rand!Iterated[2 * k]
  BY M2Is, SquareLinear
<1> QED BY <1>2, <1>3, <1>4, <1>5, <1>6

\* Every word is what some map that commutes with the step makes of the first
\* word, and the map makes the word's square of the word.
Multiplies(t, a) ==
  /\ Linear(t) /\ Commutes(t)
  /\ t[{0}] = a /\ t[a] = Rand!Square(a)

\* By induction on the bits.  For {k} added to a, the map of a is added to the
\* k-th power of the step: what each makes of the other's word cancels.
LEMMA Multiplier == \A a \in Rand!Words : \E t : Multiplies(t, a)
<1> DEFINE X == {a \in Rand!Words : \E t : Multiplies(t, a)}
<1>1. {} \in X
  <2>1. PICK t : t = [w \in Rand!Words |-> {}]
    OBVIOUS
  <2>2. (\A w \in Rand!Words : t[w] = {}) /\ t \in Maps
    BY <2>1, Register DEF Maps
  <2>3. Linear(t)
    <3>1. Rand!Xor({}, {}) = {}
      BY XorDrops
    <3> QED BY <2>2, <3>1, XorWords DEF Linear
  <2>4. Commutes(t)
    BY <2>2, StepOfBit, StepLinear DEF Commutes
  <2>5. t[{0}] = {} /\ t[{}] = Rand!Square({})
    BY <2>2, Register, SquareLinear
  <2>6. Multiplies(t, {})
    BY <2>3, <2>4, <2>5 DEF Multiplies
  <2> QED BY <2>6, Register
<1>2. ASSUME NEW k \in 0 .. Width - 1, NEW a \in Rand!Words, a \in X
      PROVE  Rand!Xor({k}, a) \in X
  <2>1. PICK s : Multiplies(s, a)
    BY <1>2
  <2>2. /\ k \in Nat /\ {0} \in Rand!Words /\ {k} \in Rand!Words
        /\ Steps[k] \in Maps /\ s \in Maps
    BY <2>1, Register, StepsAre DEF Multiplies, Linear
  <2>3. \A w \in Rand!Words : Steps[k][w] \in Rand!Words /\ s[w] \in Rand!Words
    BY <2>2 DEF Maps
  <2>4. PICK t : t = [w \in Rand!Words |-> Rand!Xor(Steps[k][w], s[w])]
    OBVIOUS
  <2>5. \A w \in Rand!Words : t[w] = Rand!Xor(Steps[k][w], s[w])
    BY <2>4
  <2>6. t \in Maps
    <3>1. \A w \in Rand!Words : Rand!Xor(Steps[k][w], s[w]) \in Rand!Words
      BY <2>3, XorWords
    <3> QED BY <2>4, <3>1 DEF Maps
  <2>7. Linear(t)
    <3>1. ASSUME NEW v \in Rand!Words, NEW w \in Rand!Words
          PROVE  t[Rand!Xor(v, w)] = Rand!Xor(t[v], t[w])
      <4>1. Rand!Xor(v, w) \in Rand!Words
        BY XorWords
      <4>2. /\ Steps[k][Rand!Xor(v, w)] = Rand!Xor(Steps[k][v], Steps[k][w])
            /\ s[Rand!Xor(v, w)] = Rand!Xor(s[v], s[w])
        BY <2>1, <2>2, StepsWork DEF Multiplies, Linear
      <4>3. t[Rand!Xor(v, w)]
              = Rand!Xor(Rand!Xor(Steps[k][v], Steps[k][w]), Rand!Xor(s[v], s[w]))
        BY <2>5, <4>1, <4>2
      <4> QED BY <2>5, <4>3, XorFour
    <3> QED BY <2>6, <3>1 DEF Linear
  <2>8. Commutes(t)
    <3>1. ASSUME NEW w \in Rand!Words PROVE t[Rand!Step(w)] = Rand!Step(t[w])
      <4>1. Rand!Step(w) \in Rand!Words
        BY StepLinear
      <4>2. /\ Steps[k][Rand!Step(w)] = Rand!Step(Steps[k][w])
            /\ s[Rand!Step(w)] = Rand!Step(s[w])
        BY <2>1, <2>2, StepsWork DEF Multiplies, Commutes
      <4>3. t[Rand!Step(w)] = Rand!Xor(Rand!Step(Steps[k][w]), Rand!Step(s[w]))
        BY <2>5, <4>1, <4>2
      <4> QED BY <2>3, <2>5, <4>3, StepLinear
    <3> QED BY <2>6, <3>1 DEF Commutes
  <2>9. PICK c \in Rand!Words : c = Rand!Xor({k}, a)
    BY <2>2, XorWords
  <2>10. t[{0}] = c
    <3>1. Steps[k][{0}] = {k} /\ s[{0}] = a
      BY <2>1, SquareOfBit DEF Multiplies
    <3> QED BY <2>2, <2>5, <2>9, <3>1
  <2>11. s[{k}] = Steps[k][a]
    <3>1. s[Steps[k][{0}]] = Steps[k][s[{0}]]
      BY <2>1, <2>2, CommutesAlways DEF Multiplies
    <3>2. Steps[k][{0}] = {k} /\ s[{0}] = a
      BY <2>1, SquareOfBit DEF Multiplies
    <3> QED BY <3>1, <3>2
  <2>12. t[c] = Rand!Square(c)
    <3>1. Steps[k][c] = Rand!Xor(Steps[k][{k}], Steps[k][a])
      BY <2>2, <2>9, StepsWork DEF Linear
    <3>2. s[c] = Rand!Xor(s[{k}], s[a])
      BY <2>1, <2>2, <2>9 DEF Multiplies, Linear
    <3>3. t[c] = Rand!Xor(Rand!Xor(Steps[k][{k}], Steps[k][a]),
                          Rand!Xor(Steps[k][a], s[a]))
      BY <2>5, <2>11, <3>1, <3>2
    <3>4. t[c] = Rand!Xor(Steps[k][{k}], s[a])
      BY <3>3, XorDrops
    <3>5. Steps[k][{k}] = Rand!Square({k}) /\ s[a] = Rand!Square(a)
      BY <2>1, SquareOfBit DEF Multiplies
    <3> QED BY <2>2, <2>9, <3>4, <3>5, SquareLinear
  <2>13. Multiplies(t, c)
    BY <2>7, <2>8, <2>10, <2>12 DEF Multiplies
  <2> QED BY <2>9, <2>13
<1> HIDE DEF X
<1>3. Rand!Words \subseteq X
  BY <1>1, <1>2, BitByBit
<1> QED BY <1>3 DEF X

\* The square of the polynomial is the word of number 2 * Width.
LEMMA SquareOfPoly == Rand!Square(Poly) = Rand!Iterated[2 * Width]
<1>1. Width \in Nat /\ Width + Width \in Nat /\ Width + Width = 2 * Width /\ {0} \in Rand!Words
  BY Register
<1>2. PICK t : Multiplies(t, Poly)
  BY Multiplier, Register
<1>3. Steps[Width][{0}] = Poly
  BY <1>1, StepsWork, FirstWords
<1>4. t[Steps[Width][{0}]] = Steps[Width][t[{0}]]
  BY <1>1, <1>2, CommutesAlways DEF Multiplies
<1>5. Rand!Square(Poly) = Steps[Width][Steps[Width][{0}]]
  BY <1>2, <1>3, <1>4 DEF Multiplies
<1>6. \A w \in Rand!Words : Steps[Width + Width][w] = Steps[Width][Steps[Width][w]]
  BY <1>1, StepsAdd
<1>7. Steps[Width + Width][{0}] = Rand!Iterated[Width + Width]
  BY <1>1, StepsWork
<1> QED BY <1>1, <1>5, <1>6, <1>7

\* The square of the next word is two steps on.
LEMMA SquareOfStep ==
  \A w \in Rand!Words : Rand!Square(Rand!Step(w)) = Rand!Step(Rand!Step(Rand!Square(w)))
<1> DEFINE X == {w \in Rand!Words :
                   Rand!Square(Rand!Step(w)) = Rand!Step(Rand!Step(Rand!Square(w)))}
<1>1. {} \in X
  BY StepOfBit, SquareLinear, Register
<1>2. \A m \in Nat : Rand!Iterated[m + 2] = Rand!Step(Rand!Step(Rand!Iterated[m]))
  <2>1. \A m \in Nat : m + 1 \in Nat /\ m + 2 = (m + 1) + 1
    OBVIOUS
  <2> QED BY <2>1, IteratedIs
<1>3. ASSUME NEW k \in 0 .. Width - 1
      PROVE  Rand!Square(Rand!Step({k})) = Rand!Step(Rand!Step(Rand!Square({k})))
  <2>1. PICK m \in Nat : m = 2 * k
    BY Register
  <2>2. Rand!Step(Rand!Step(Rand!Square({k}))) = Rand!Iterated[m + 2]
    BY <1>2, <2>1, SquareOfBit
  <2>3. CASE k = Width - 1
    <3>1. m + 2 = 2 * Width
      BY <2>1, <2>3, Register
    <3>2. Rand!Step({k}) = Poly
      BY <2>3, StepOfBit
    <3> QED BY <2>2, <3>1, <3>2, SquareOfPoly
  <2>4. CASE k # Width - 1
    <3>1. PICK i \in 0 .. Width - 1 : i = k + 1 /\ 2 * i = m + 2
      BY <2>1, <2>4, Register
    <3>2. Rand!Step({k}) = {i}
      BY <2>4, <3>1, StepOfBit
    <3>3. Rand!Square({i}) = Rand!Iterated[2 * i]
      BY SquareOfBit
    <3> QED BY <2>2, <3>1, <3>2, <3>3
  <2> QED BY <2>3, <2>4
<1>4. ASSUME NEW k \in 0 .. Width - 1, NEW a \in Rand!Words, a \in X
      PROVE  Rand!Xor({k}, a) \in X
  <2>1. PICK b \in Rand!Words : b = {k}
    BY Register
  <2>2. PICK c \in Rand!Words : c = Rand!Xor(b, a)
    BY XorWords
  <2>3. PICK p \in Rand!Words : p = Rand!Step(b)
    BY StepLinear
  <2>4. PICK q \in Rand!Words : q = Rand!Step(a)
    BY StepLinear
  <2>5. PICK u \in Rand!Words : u = Rand!Square(b)
    BY SquareLinear
  <2>6. PICK v \in Rand!Words : v = Rand!Square(a)
    BY SquareLinear
  <2>7. Rand!Square(Rand!Step(c)) = Rand!Xor(Rand!Square(p), Rand!Square(q))
    <3>1. Rand!Step(c) = Rand!Xor(p, q)
      BY <2>2, <2>3, <2>4, StepLinear
    <3> QED BY <3>1, SquareLinear
  <2>8. Rand!Square(p) = Rand!Step(Rand!Step(u)) /\ Rand!Square(q) = Rand!Step(Rand!Step(v))
    BY <1>3, <1>4, <2>1, <2>3, <2>4, <2>5, <2>6
  <2>9. Rand!Square(c) = Rand!Xor(u, v)
    BY <2>2, <2>5, <2>6, SquareLinear
  <2>10. Rand!Step(Rand!Step(Rand!Xor(u, v)))
           = Rand!Xor(Rand!Step(Rand!Step(u)), Rand!Step(Rand!Step(v)))
    <3>1. /\ Rand!Step(Rand!Xor(u, v)) = Rand!Xor(Rand!Step(u), Rand!Step(v))
          /\ Rand!Step(u) \in Rand!Words /\ Rand!Step(v) \in Rand!Words
      BY StepLinear
    <3> QED BY <3>1, StepLinear
  <2>11. Rand!Square(Rand!Step(c)) = Rand!Step(Rand!Step(Rand!Square(c)))
    BY <2>7, <2>8, <2>9, <2>10
  <2> QED BY <2>1, <2>2, <2>11
<1> HIDE DEF X
<1>5. Rand!Words \subseteq X
  BY <1>1, <1>4, BitByBit
<1> QED BY <1>5 DEF X

\* Squaring doubles the number of a word.
LEMMA SquareDoubles == \A k \in Nat : Rand!Square(Rand!Iterated[k]) = Rand!Iterated[2 * k]
<1> DEFINE X == {k \in Nat : Rand!Square(Rand!Iterated[k]) = Rand!Iterated[2 * k]}
<1>1. 0 \in X
  <2>1. 0 \in 0 .. Width - 1 /\ 2 * 0 = 0 /\ Rand!Iterated[0] = {0}
    BY Register, IteratedIs
  <2>2. Rand!Square({0}) = Rand!Iterated[2 * 0]
    BY <2>1, SquareOfBit
  <2> QED BY <2>1, <2>2
<1>2. ASSUME NEW k \in Nat, k \in X PROVE k + 1 \in X
  <2>1. PICK m \in Nat : m = 2 * k /\ m + 1 \in Nat /\ 2 * (k + 1) = (m + 1) + 1
    OBVIOUS
  <2>2. Rand!Iterated[(m + 1) + 1] = Rand!Step(Rand!Step(Rand!Iterated[m]))
    BY <2>1, IteratedIs
  <2>3. Rand!Square(Rand!Step(Rand!Iterated[k])) = Rand!Step(Rand!Step(Rand!Iterated[m]))
    BY <1>2, <2>1, SquareOfStep, IteratedIs
  <2>4. Rand!Square(Rand!Iterated[k + 1]) = Rand!Iterated[2 * (k + 1)]
    BY <2>1, <2>2, <2>3, IteratedIs
  <2> QED BY <2>4
<1> HIDE DEF X
<1>3. Nat \subseteq X
  BY <1>1, <1>2, FromZeroOn
<1> QED BY <1>3 DEF X

\* Squaring and stepping: the word of every number up to the period.
LEMMA PowerIs == \A m \in 0 .. Period : Rand!Power[m] = Rand!Iterated[m]
<1> DEFINE Rule(f, m) == IF m = 0 THEN {0} ELSE IF m = 1 THEN {1}
                         ELSE Rand!AddBit(m, Rand!Square(f[m \div 2]))
<1>1. ASSUME NEW f, NEW m \in 0 .. Period, m > 1 => f[m \div 2] = Rand!Iterated[m \div 2]
      PROVE  Rule(f, m) = Rand!Iterated[m]
  <2>1. CASE m = 0
    BY <2>1, IteratedIs
  <2>2. CASE m = 1
    <3>1. 1 \in 0 .. Width - 1
      BY Register
    <3> QED BY <2>2, <3>1, FirstWords
  <2>3. CASE m > 1
    <3>1. PICK k \in Nat : k = m \div 2 /\ m = 2 * k + (m % 2) /\ m % 2 \in {0, 1}
      BY <2>3, Register
    <3>2. Rand!Square(f[m \div 2]) = Rand!Iterated[2 * k] /\ 2 * k \in Nat
      BY <1>1, <2>3, <3>1, SquareDoubles
    <3>3. Rand!AddBit(m, Rand!Iterated[2 * k]) = Rand!Iterated[m]
      <4>1. CASE m % 2 = 1
        BY <3>1, <3>2, <4>1, IteratedIs DEF Rand!AddBit
      <4>2. CASE m % 2 # 1
        <5>1. m = 2 * k
          BY <3>1, <4>2
        <5> QED BY <4>2, <5>1 DEF Rand!AddBit
      <4> QED BY <4>1, <4>2
    <3> QED BY <2>3, <3>2, <3>3
  <2> QED BY <2>1, <2>2, <2>3, Register
<1> HIDE DEF Rule
<1>2. \A m \in 0 .. Period : m > 1 => m \div 2 \in 0 .. Period /\ m \div 2 < m /\ m \div 2 \in Nat
  BY Register
<1> DEFINE e == [m \in 0 .. Period |-> Rand!Iterated[m]]
<1>3. e = [m \in 0 .. Period |-> Rule(e, m)]
  <2>1. \A m \in 0 .. Period : e[m] = Rand!Iterated[m]
    OBVIOUS
  <2> HIDE DEF e
  <2>2. \A m \in 0 .. Period : Rule(e, m) = Rand!Iterated[m]
    BY <1>1, <1>2, <2>1
  <2>3. e = [m \in 0 .. Period |-> Rand!Iterated[m]]
    BY DEF e
  <2> QED BY <2>2, <2>3
<1> HIDE DEF e
<1>4. Rand!Power = [m \in 0 .. Period |-> Rule(Rand!Power, m)]
  BY <1>3 DEF Rand!Power, Rule
<1>5. \A m \in 0 .. Period : Rand!Power[m] = Rule(Rand!Power, m)
  BY <1>4
<1> DEFINE X == {k \in Nat : \A m \in 0 .. Period : m <= k => Rand!Power[m] = Rand!Iterated[m]}
<1>6. 0 \in X
  <2> SUFFICES ASSUME NEW m \in 0 .. Period, m <= 0 PROVE Rand!Power[m] = Rand!Iterated[m]
    OBVIOUS
  <2>1. ~(m > 1)
    BY Register
  <2> QED BY <1>1, <1>5, <2>1
<1>7. ASSUME NEW k \in Nat, k \in X PROVE k + 1 \in X
  <2> SUFFICES ASSUME NEW m \in 0 .. Period, m <= k + 1
               PROVE  Rand!Power[m] = Rand!Iterated[m]
    OBVIOUS
  <2>1. m > 1 => m \div 2 \in 0 .. Period /\ m \div 2 <= k
    BY <1>2, Register
  <2>2. m > 1 => Rand!Power[m \div 2] = Rand!Iterated[m \div 2]
    BY <1>7, <2>1
  <2> QED BY <1>1, <1>5, <2>2
<1> HIDE DEF X
<1>8. Nat \subseteq X
  BY <1>6, <1>7, FromZeroOn
<1>9. Period \in X /\ \A m \in 0 .. Period : m <= Period
  BY <1>8, Register
<1> QED BY <1>9 DEF X

\* Division rounds down.
LEMMA Division ==
  ASSUME NEW a \in Int, NEW p \in Nat \ {0}
  PROVE  /\ a \div p \in Int /\ a % p \in 0 .. p - 1
         /\ a = p * (a \div p) + (a % p)
OBVIOUS

\* ... and its remainder is the only one below the divisor.
LEMMA RemainderIs ==
  ASSUME NEW p \in Nat \ {0}, NEW q \in Int, NEW r \in 0 .. p - 1
  PROVE  (p * q + r) % p = r
OBVIOUS

\* HPCC_starts reduces its argument to one of the same remainder.
LEMMA ReducedIs ==
  ASSUME NEW m \in Int
  PROVE  /\ Rand!Reduced(m) \in 0 .. Period
         /\ \/ Rand!Reduced(m) = m % Period
            \/ Rand!Reduced(m) = Period /\ m % Period = 0
<1>0. Period \in Nat \ {0}
  BY Register
<1>1. ASSUME NEW q \in Int, NEW d \in 0 .. Period, m = Period * q + d
      PROVE  d = m % Period \/ (d = Period /\ m % Period = 0)
  <2>1. CASE d # Period
    BY <1>0, <1>1, <2>1, RemainderIs
  <2>2. CASE d = Period
    <3>1. PICK i \in Int : i = q + 1
      OBVIOUS
    <3>2. m = Period * i + 0
      BY <1>0, <1>1, <2>2, <3>1
    <3> QED BY <1>0, <2>2, <3>2, RemainderIs
  <2> QED BY <2>1, <2>2
<1>2. CASE m < 0
  <2>1. PICK a \in Int : a = -m + Period - 1
    BY <1>0
  <2>2. PICK q \in Int : q = a \div Period
    BY <1>0, <2>1, Division
  <2>3. PICK d \in Int : d = m + Period * q
    BY <1>0
  <2>4. a % Period \in 0 .. Period - 1 /\ a = Period * q + (a % Period)
    BY <1>0, <2>1, <2>2, Division
  <2>5. d \in 0 .. Period /\ m = Period * (-q) + d
    BY <1>0, <2>1, <2>3, <2>4
  <2>6. Rand!Reduced(m) = d
    BY <1>2, <2>1, <2>2, <2>3 DEF Rand!Reduced
  <2> QED BY <1>1, <2>5, <2>6
<1>3. CASE m > Period
  <2>1. PICK a \in Int : a = m - 1
    OBVIOUS
  <2>2. PICK q \in Int : q = a \div Period
    BY <1>0, <2>1, Division
  <2>3. PICK d \in Int : d = m - Period * q
    BY <1>0
  <2>4. a % Period \in 0 .. Period - 1 /\ a = Period * q + (a % Period)
    BY <1>0, <2>1, <2>2, Division
  <2>5. d \in 0 .. Period /\ m = Period * q + d
    BY <1>0, <2>1, <2>3, <2>4
  <2>6. Rand!Reduced(m) = d
    BY <1>0, <1>3, <2>1, <2>2, <2>3 DEF Rand!Reduced
  <2> QED BY <1>1, <2>5, <2>6
<1>4. CASE m \in 0 .. Period
  <2>1. Rand!Reduced(m) = m
    BY <1>0, <1>4 DEF Rand!Reduced
  <2>2. m = Period * 0 + m
    BY <1>0
  <2> QED BY <1>1, <1>4, <2>1, <2>2
<1> QED BY <1>0, <1>2, <1>3, <1>4

\* HPCC_starts, for every argument.
LEMMA StartsIs == \A m \in Int : Rand!HPCC_starts(m) = Rand!Iterated[m % Period]
<1> SUFFICES ASSUME NEW m \in Int PROVE Rand!HPCC_starts(m) = Rand!Iterated[m % Period]
  OBVIOUS
<1>1. Rand!HPCC_starts(m) = Rand!Iterated[Rand!Reduced(m)]
  BY ReducedIs, PowerIs DEF Rand!HPCC_starts
<1>2. Rand!Iterated[Period] = {0}
  BY Parameters DEF Rand!PeriodAssumption
<1> QED BY <1>1, <1>2, ReducedIs, IteratedIs

\* HPCC_starts (random_access.c, lines 83 to 118), which squares and reduces
\* its argument, gives the word that as many steps of the register lead to.
THEOREM StartsAgreeAlways == SumSpec => []StartsAgrees
<1> DEFINE I == r_n \in Int
<1>1. SumInit => I
  BY DEF SumInit, Rand!Init
<1>2. I /\ [SumNext]_sumvars => I'
  <2> SUFFICES ASSUME I, [SumNext]_sumvars PROVE I'
    OBVIOUS
  <2>1. CASE Rand!Next
    <3>1. CASE Rand!Start
      <4>1. Furthest \in Nat
        BY Parameters DEF Rand!RandomAccessAssumption
      <4> QED BY <3>1, <4>1 DEF Rand!Start
    <3>2. CASE Rand!Update
      BY <3>2 DEF Rand!Update
    <3>3. CASE Rand!NextPass
      BY <3>3 DEF Rand!NextPass
    <3> QED BY <2>1, <3>1, <3>2, <3>3 DEF Rand!Next
  <2>2. CASE UNCHANGED r_vars
    BY <2>2 DEF r_vars
  <2> QED BY <2>1, <2>2 DEF SumNext, sumvars, r_vars
<1>3. I => StartsAgrees
  BY StartsIs DEF StartsAgrees, Rand!StartsAgrees
<1> QED BY <1>1, <1>2, <1>3, PTL DEF SumSpec
=============================================================================
