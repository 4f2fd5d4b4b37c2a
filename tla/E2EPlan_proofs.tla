--------------------------- MODULE E2EPlan_proofs ---------------------------
(***************************************************************************)
(* Proofs about E2EPlan, for every size of the tables, number of cores,    *)
(* speed of the board and jitter of its clock.                             *)
(***************************************************************************)
EXTENDS E2EPlan, FiniteSetTheorems, WellFoundedInduction, TLAPS

\* The periods and execution times of the tables are positive numbers.
LEMMA InputsNat == Periods \subseteq Nat \ {0} /\ ExeTimes \subseteq Nat \ {0}
<1>1. Uint \subseteq Nat
  BY PlanAssumption DEF Uint
<1>2. Periods \subseteq Uint \ {0} /\ ExeTimes \subseteq Uint \ {0}
  BY PlanAssumption
<1> QED BY <1>1, <1>2

\* A remainder is an integer.
LEMMA ModInt == ASSUME NEW a \in Int, NEW b \in Nat \ {0} PROVE a % b \in Int
OBVIOUS

(***************************************************************************)
(* Sums over finite sets: what SumFunctionOnSet, which chooses the order   *)
(* it adds in, gives for any order.                                        *)
(***************************************************************************)

\* A set of subsets that has every subset all whose smaller ones it has.
LEMMA SubsetInduction ==
  ASSUME NEW S, IsFiniteSet(S), NEW X,
         \A T \in SUBSET S : (\A x \in T : T \ {x} \in X) => T \in X
  PROVE  SUBSET S \subseteq X
<1> SUFFICES ASSUME (SUBSET S) \ X # {} PROVE FALSE
  OBVIOUS
<1>1. IsWellFoundedOn(StrictSubsetOrdering(S), FiniteSubsetsOf(S))
  BY FS_StrictSubsetOrderingWellFounded
<1>2. FiniteSubsetsOf(S) = SUBSET S
  BY FS_FiniteSubsetsOfFinite
<1>3. \E T \in (SUBSET S) \ X : \A U \in (SUBSET S) \ X : <<U, T>> \notin StrictSubsetOrdering(S)
  <2>1. (SUBSET S) \ X \subseteq FiniteSubsetsOf(S)
    BY <1>2
  <2> HIDE DEF FiniteSubsetsOf, StrictSubsetOrdering
  <2> QED BY <1>1, <2>1, WFMin
<1>4. PICK T \in (SUBSET S) \ X : \A U \in (SUBSET S) \ X : <<U, T>> \notin StrictSubsetOrdering(S)
  BY <1>3
<1>5. ASSUME NEW x \in T PROVE T \ {x} \in X
  <2>1. T \ {x} \in SUBSET S /\ T \ {x} \subseteq T /\ T \ {x} # T
    OBVIOUS
  <2>2. <<T \ {x}, T>> \in StrictSubsetOrdering(S)
    BY <2>1 DEF StrictSubsetOrdering
  <2> QED BY <1>4, <2>1, <2>2
<1> QED BY <1>4, <1>5

\* A member of s, always the same one.
First(s) == CHOOSE x \in s : TRUE

\* g sums s as SumFunctionOnSet does: the first member and the rest.
AddsUp(f, g, s) == g[s] = IF s = {} THEN 0 ELSE f[First(s)] + g[s \ {First(s)}]

\* g gives the sum of f over every subset of T.
Adds(f, T, g) == g \in [SUBSET T -> Int] /\ \A s \in SUBSET T : AddsUp(f, g, s)

\* The first member of a set is a member.
LEMMA FirstIn == ASSUME NEW s, s # {} PROVE First(s) \in s
  BY DEF First

\* What sums the subsets of a set sums those of a subset.
LEMMA AddsLess ==
  ASSUME NEW f, NEW T, NEW g, Adds(f, T, g), NEW U \in SUBSET T
  PROVE  Adds(f, U, [s \in SUBSET U |-> g[s]])
<1> DEFINE h == [s \in SUBSET U |-> g[s]]
<1>1. \A s \in SUBSET U : h[s] = g[s] /\ s \in SUBSET T
  OBVIOUS
<1>2. h \in [SUBSET U -> Int]
  BY <1>1 DEF Adds
<1>3. ASSUME NEW s \in SUBSET U PROVE AddsUp(f, h, s)
  <2>1. s \ {First(s)} \in SUBSET U
    OBVIOUS
  <2> QED BY <1>1, <2>1 DEF Adds, AddsUp
<1>4. Adds(f, U, h)
  <2> HIDE DEF h
  <2> QED BY <1>2, <1>3 DEF Adds
<1> QED BY <1>4

\* There is one way to sum the subsets of a finite set.
LEMMA AddsOnce ==
  ASSUME NEW f, NEW T, IsFiniteSet(T), NEW g, NEW h, Adds(f, T, g), Adds(f, T, h)
  PROVE  \A s \in SUBSET T : g[s] = h[s]
<1> DEFINE X == {s \in SUBSET T : g[s] = h[s]}
<1>1. ASSUME NEW s \in SUBSET T, \A x \in s : s \ {x} \in X PROVE s \in X
  <2>1. CASE s = {}
    BY <2>1 DEF Adds, AddsUp
  <2>2. CASE s # {}
    <3>1. g[s \ {First(s)}] = h[s \ {First(s)}]
      BY <1>1, <2>2, FirstIn
    <3> QED BY <2>2, <3>1 DEF Adds, AddsUp
  <2> QED BY <2>1, <2>2
<1>2. SUBSET T \subseteq X
  <2> HIDE DEF X
  <2> QED BY <1>1, SubsetInduction
<1> QED BY <1>2

\* The sums over the smaller subsets give those over all.
LEMMA AddsMore ==
  ASSUME NEW f, NEW T, IsFiniteSet(T), \A x \in T : f[x] \in Int,
         \A x \in T : \E g : Adds(f, T \ {x}, g)
  PROVE  \E g : Adds(f, T, g)
<1>1. CASE T = {}
  <2> DEFINE g == [s \in SUBSET T |-> 0]
  <2>1. Adds(f, T, g)
    BY <1>1 DEF Adds, AddsUp
  <2> QED BY <2>1
<1>2. CASE T # {}
  <2> DEFINE OfSet(s) == CHOOSE g : Adds(f, s, g)
             c == First(T)
             g == [s \in SUBSET T |-> IF s = T THEN f[c] + OfSet(T \ {c})[T \ {c}]
                                      ELSE OfSet(s)[s]]
  <2>1. ASSUME NEW s \in SUBSET T, s # T PROVE Adds(f, s, OfSet(s))
    <3>1. PICK x \in T : x \notin s
      BY <2>1
    <3>2. PICK h : Adds(f, T \ {x}, h)
      OBVIOUS
    <3>3. s \in SUBSET (T \ {x})
      BY <3>1
    <3>4. \E k : Adds(f, s, k)
      BY <3>2, <3>3, AddsLess
    <3> QED BY <3>4
  <2>2. c \in T
    BY <1>2, FirstIn
  <2> HIDE DEF OfSet, c
  <2>3. ASSUME NEW s \in SUBSET T, s # T
        PROVE  g[s] = OfSet(s)[s] /\ OfSet(s)[s] \in Int
    BY <2>1, <2>3 DEF Adds
  <2>4. g[T] = f[c] + g[T \ {c}] /\ g[T] \in Int
    <3>1. T \ {c} \in SUBSET T /\ T \ {c} # T
      BY <2>2
    <3>2. g[T \ {c}] = OfSet(T \ {c})[T \ {c}] /\ OfSet(T \ {c})[T \ {c}] \in Int
      BY <2>3, <3>1
    <3>3. g[T] = f[c] + OfSet(T \ {c})[T \ {c}]
      OBVIOUS
    <3> QED BY <2>2, <3>2, <3>3
  <2>5. g \in [SUBSET T -> Int]
    <3>1. \A s \in SUBSET T : g[s] \in Int
      BY <2>3, <2>4
    <3>2. g = [s \in SUBSET T |-> g[s]]
      OBVIOUS
    <3> HIDE DEF g
    <3> QED BY <3>1, <3>2
  <2>6. ASSUME NEW s \in SUBSET T PROVE AddsUp(f, g, s)
    <3>1. CASE s = T
      BY <1>2, <2>4, <3>1 DEF AddsUp, c
    <3>2. CASE s # T /\ s = {}
      BY <2>1, <2>3, <3>2 DEF Adds, AddsUp
    <3>3. CASE s # T /\ s # {}
      <4> DEFINE d == First(s)
                 U == s \ {d}
      <4>1. d \in s
        BY <3>3, FirstIn
      <4>2. U \in SUBSET T /\ U # T /\ U \in SUBSET s /\ U \in SUBSET U
        BY <4>1
      <4>3. OfSet(s)[s] = f[d] + OfSet(s)[U]
        BY <2>1, <3>3 DEF Adds, AddsUp
      <4>4. Adds(f, U, [t \in SUBSET U |-> OfSet(s)[t]])
        BY <2>1, <3>3, <4>2, AddsLess
      <4>5. Adds(f, U, OfSet(U)) /\ IsFiniteSet(U)
        BY <2>1, <4>2, FS_Subset
      <4>6. [t \in SUBSET U |-> OfSet(s)[t]][U] = OfSet(U)[U]
        <5> HIDE DEF U
        <5> QED BY <4>2, <4>4, <4>5, AddsOnce
      <4>7. OfSet(s)[U] = OfSet(U)[U]
        BY <4>2, <4>6
      <4>8. g[s] = f[d] + g[U]
        BY <2>3, <3>3, <4>2, <4>3, <4>7
      <4> HIDE DEF g
      <4> QED BY <3>3, <4>8 DEF AddsUp
    <3> QED BY <3>1, <3>2, <3>3
  <2> HIDE DEF g
  <2>7. Adds(f, T, g)
    BY <2>5, <2>6 DEF Adds
  <2> QED BY <2>7
<1> QED BY <1>1, <1>2

\* Every subset of a finite set of numbers has its sums.
LEMMA AddsAll ==
  ASSUME NEW f, NEW S, IsFiniteSet(S), \A x \in S : f[x] \in Int
  PROVE  \A T \in SUBSET S : \E g : Adds(f, T, g)
<1> DEFINE X == {T \in SUBSET S : \E g : Adds(f, T, g)}
<1>1. ASSUME NEW T \in SUBSET S, \A x \in T : T \ {x} \in X PROVE T \in X
  <2>1. IsFiniteSet(T) /\ \A x \in T : f[x] \in Int
    BY FS_Subset
  <2>2. \A x \in T : \E g : Adds(f, T \ {x}, g)
    BY <1>1
  <2> QED BY <2>1, <2>2, AddsMore
<1>2. SUBSET S \subseteq X
  <2> HIDE DEF X
  <2> QED BY <1>1, SubsetInduction
<1> QED BY <1>2

\* SumFunctionOnSet adds up.
LEMMA SumAdds ==
  ASSUME NEW f, NEW S, IsFiniteSet(S), \A x \in S : f[x] \in Int
  PROVE  \E g : Adds(f, S, g) /\ SumFunctionOnSet(f, S) = g[S]
<1> DEFINE Body(g) == [s \in SUBSET S |-> IF s = {} THEN 0 ELSE f[First(s)] + g[s \ {First(s)}]]
<1>1. PICK h : Adds(f, S, h)
  BY AddsAll
<1>2. h = Body(h)
  <2>1. \A s \in SUBSET S : h[s] = IF s = {} THEN 0 ELSE f[First(s)] + h[s \ {First(s)}]
    BY <1>1 DEF Adds, AddsUp
  <2>2. h = [s \in SUBSET S |-> h[s]]
    BY <1>1 DEF Adds
  <2> QED BY <2>1, <2>2
<1>3. PICK g : g = CHOOSE k : k = Body(k)
  OBVIOUS
<1>4. g = Body(g)
  <2> HIDE DEF Body
  <2> QED BY <1>2, <1>3
<1>5. SumFunctionOnSet(f, S) = g[S]
  BY <1>3 DEF SumFunctionOnSet, FoldFunctionOnSet, MapThenFoldSet, First
<1>6. \A s \in SUBSET S : AddsUp(f, g, s)
  BY <1>4 DEF AddsUp
<1>7. \A s \in SUBSET S : g[s] = h[s]
  <2> DEFINE X == {s \in SUBSET S : g[s] = h[s]}
  <2>1. ASSUME NEW s \in SUBSET S, \A x \in s : s \ {x} \in X PROVE s \in X
    <3>1. CASE s = {}
      BY <1>1, <1>6, <3>1 DEF Adds, AddsUp
    <3>2. CASE s # {}
      <4>1. g[s \ {First(s)}] = h[s \ {First(s)}]
        BY <2>1, <3>2, FirstIn
      <4> QED BY <1>1, <1>6, <3>2, <4>1 DEF Adds, AddsUp
    <3> QED BY <3>1, <3>2
  <2>2. SUBSET S \subseteq X
    <3> HIDE DEF X
    <3> QED BY <2>1, SubsetInduction
  <2> QED BY <2>2
<1> QED BY <1>1, <1>5, <1>7

\* A sum of no numbers is nothing.
LEMMA SumEmpty == ASSUME NEW f PROVE SumFunctionOnSet(f, {}) = 0
<1>1. PICK g : Adds(f, {}, g) /\ SumFunctionOnSet(f, {}) = g[{}]
  BY SumAdds, FS_EmptySet
<1> QED BY <1>1 DEF Adds, AddsUp

\* A sum is its first number and the sum of the others.
LEMMA SumFirst ==
  ASSUME NEW f, NEW S, IsFiniteSet(S), \A x \in S : f[x] \in Int, S # {}
  PROVE  /\ SumFunctionOnSet(f, S) \in Int
         /\ SumFunctionOnSet(f, S) = f[First(S)] + SumFunctionOnSet(f, S \ {First(S)})
<1>1. PICK c \in S : c = First(S)
  BY FirstIn
<1>2. PICK U : U = S \ {c}
  OBVIOUS
<1>3. U \in SUBSET S /\ IsFiniteSet(U) /\ \A x \in U : f[x] \in Int
  BY <1>2, FS_Subset
<1>4. PICK g : Adds(f, S, g) /\ SumFunctionOnSet(f, S) = g[S]
  BY SumAdds
<1>5. PICK h : Adds(f, U, h) /\ SumFunctionOnSet(f, U) = h[U]
  BY <1>3, SumAdds
<1>6. PICK k : k = [t \in SUBSET U |-> g[t]]
  OBVIOUS
<1>7. Adds(f, U, k)
  BY <1>3, <1>4, <1>6, AddsLess
<1>8. k[U] = h[U]
  BY <1>3, <1>5, <1>7, AddsOnce
<1>9. g[S] = f[c] + g[U] /\ g[S] \in Int
  BY <1>1, <1>2, <1>4 DEF Adds, AddsUp
<1>10. g[S] = f[c] + h[U]
  BY <1>6, <1>8, <1>9
<1> QED BY <1>1, <1>2, <1>4, <1>5, <1>9, <1>10

\* Any member may be the first.
LEMMA SumRemove ==
  ASSUME NEW f, NEW S, IsFiniteSet(S), \A x \in S : f[x] \in Int
  PROVE  \A x \in S : SumFunctionOnSet(f, S) = f[x] + SumFunctionOnSet(f, S \ {x})
<1> DEFINE Sum(T) == SumFunctionOnSet(f, T)
           X == {T \in SUBSET S : Sum(T) \in Int /\ \A x \in T : Sum(T) = f[x] + Sum(T \ {x})}
<1>1. ASSUME NEW T \in SUBSET S, \A x \in T : T \ {x} \in X PROVE T \in X
  <2>0. IsFiniteSet(T) /\ \A x \in T : f[x] \in Int
    BY FS_Subset
  <2>1. CASE T = {}
    BY <2>1, SumEmpty
  <2>2. CASE T # {}
    <3>1. PICK c \in T : c = First(T)
      BY <2>2, FirstIn
    <3>2. Sum(T) \in Int /\ Sum(T) = f[c] + Sum(T \ {c})
      BY <2>0, <2>2, <3>1, SumFirst
    <3>3. ASSUME NEW x \in T PROVE Sum(T) = f[x] + Sum(T \ {x})
      <4>1. CASE x = c
        BY <3>2, <4>1
      <4>2. CASE x # c
        <5>1. x \in T \ {c} /\ c \in T \ {x} /\ (T \ {c}) \ {x} = (T \ {x}) \ {c}
          BY <4>2
        <5>2. PICK R : R = (T \ {x}) \ {c}
          OBVIOUS
        <5>3. Sum(T \ {c}) = f[x] + Sum(R)
          BY <1>1, <5>1, <5>2
        <5>4. Sum(T \ {x}) = f[c] + Sum(R)
          BY <1>1, <5>1, <5>2
        <5>5. Sum(R) \in Int
          <6>1. CASE R = {}
            BY <6>1, SumEmpty
          <6>2. CASE R # {}
            <7>1. R \in SUBSET S
              BY <5>2
            <7>2. IsFiniteSet(R) /\ \A y \in R : f[y] \in Int
              BY <7>1, FS_Subset
            <7> QED BY <6>2, <7>2, SumFirst
          <6> QED BY <6>1, <6>2
        <5>6. f[x] \in Int /\ f[c] \in Int
          OBVIOUS
        <5> HIDE DEF Sum
        <5> QED BY <3>2, <5>3, <5>4, <5>5, <5>6
      <4> QED BY <4>1, <4>2
    <3> QED BY <3>2, <3>3
  <2> QED BY <2>1, <2>2
<1>2. SUBSET S \subseteq X
  <2> HIDE DEF X
  <2> QED BY <1>1, SubsetInduction
<1> QED BY <1>2

\* A sum depends on the summed values only.
LEMMA SumSame ==
  ASSUME NEW f, NEW g, NEW S, IsFiniteSet(S), \A x \in S : f[x] \in Int /\ g[x] = f[x]
  PROVE  SumFunctionOnSet(f, S) = SumFunctionOnSet(g, S)
<1> DEFINE X == {T \in SUBSET S : SumFunctionOnSet(f, T) = SumFunctionOnSet(g, T)}
<1>1. ASSUME NEW T \in SUBSET S, \A x \in T : T \ {x} \in X PROVE T \in X
  <2>1. CASE T = {}
    BY <2>1, SumEmpty
  <2>2. CASE T # {}
    <3>1. PICK c \in T : TRUE
      BY <2>2
    <3>2. IsFiniteSet(T) /\ (\A x \in T : f[x] \in Int) /\ (\A x \in T : g[x] \in Int)
      BY FS_Subset
    <3>3. SumFunctionOnSet(f, T) = f[c] + SumFunctionOnSet(f, T \ {c})
      BY <3>2, SumRemove
    <3>4. SumFunctionOnSet(g, T) = g[c] + SumFunctionOnSet(g, T \ {c})
      BY <3>2, SumRemove
    <3>5. SumFunctionOnSet(f, T \ {c}) = SumFunctionOnSet(g, T \ {c})
      BY <1>1
    <3> QED BY <3>3, <3>4, <3>5
  <2> QED BY <2>1, <2>2
<1>2. SUBSET S \subseteq X
  <2> HIDE DEF X
  <2> QED BY <1>1, SubsetInduction
<1> QED BY <1>2

\* Sums of numbers that are not negative grow with the set.
LEMMA SumGrows ==
  ASSUME NEW f, NEW S, IsFiniteSet(S), \A x \in S : f[x] \in Nat
  PROVE  \A T \in SUBSET S : SumFunctionOnSet(f, T) \in Nat
<1> DEFINE X == {T \in SUBSET S : SumFunctionOnSet(f, T) \in Nat}
<1>1. ASSUME NEW T \in SUBSET S, \A x \in T : T \ {x} \in X PROVE T \in X
  <2>1. CASE T = {}
    BY <2>1, SumEmpty
  <2>2. CASE T # {}
    <3>1. PICK c \in T : TRUE
      BY <2>2
    <3>2. IsFiniteSet(T) /\ \A x \in T : f[x] \in Int
      BY FS_Subset
    <3>3. SumFunctionOnSet(f, T) = f[c] + SumFunctionOnSet(f, T \ {c})
      BY <3>2, SumRemove
    <3>4. SumFunctionOnSet(f, T \ {c}) \in Nat /\ f[c] \in Nat
      BY <1>1
    <3> QED BY <3>3, <3>4
  <2> QED BY <2>1, <2>2
<1>2. SUBSET S \subseteq X
  <2> HIDE DEF X
  <2> QED BY <1>1, SubsetInduction
<1> QED BY <1>2

-----------------------------------------------------------------------------
(***************************************************************************)
(* What E2E_init leaves behind: a permutation of the subtasks in the order *)
(* of their cores, and for each core the index of its first subtask.       *)
(***************************************************************************)
BeforeRank == {"params", "sort", "assign"}

TablesOK ==
  /\ sub_ptr \in [SubIdx -> SubIdx]
  /\ \A i, j \in SubIdx : sub_ptr[i] = sub_ptr[j] => i = j
  /\ \A s \in SubIdx : \E i \in SubIdx : sub_ptr[i] = s
  /\ core \in [SubIdx -> Cores]
  /\ loader \in [step : Steps, at : Nat]
  /\ start_addr \in [Cores -> 0 .. SubtaskTot \cup {NoAddr}]

InCoreOrder ==
  \A i, j \in SubIdx : i < j => core[sub_ptr[i]] <= core[sub_ptr[j]]

\* The first i entries of sub_ptr come after the start of their core.
StartsKnown(n) ==
  \A i \in SubIdx : i < n => start_addr[core[sub_ptr[i]]] \in 0 .. i

StartsOnCore ==
  \A c \in Cores : start_addr[c] \in SubIdx => core[sub_ptr[start_addr[c]]] = c

PlanInv ==
  /\ TablesOK
  /\ StartsOnCore
  /\ loader.step \in BeforeRank => \A c \in Cores : start_addr[c] = NoAddr
  /\ loader.step \notin BeforeRank => InCoreOrder
  /\ loader.step = "rank" => StartsKnown(loader.at)
  /\ Planned => /\ start_addr \in [Cores -> 0 .. SubtaskTot]
                /\ StartsKnown(SubtaskTot)

\* E2E_init's sorts and loops (E2E.c:177-209) give each calibration thread
\* the first of its subtasks.
LEMMA PlanInvariant == Spec => []PlanInv
<1>1. Init => PlanInv
  BY PlanAssumption DEF Init, PlanInv, TablesOK, StartsOnCore, BeforeRank,
     Planned, Steps, Cores, SubIdx, NoAddr
<1>2. PlanInv /\ [Next]_vars => PlanInv'
  <2> SUFFICES ASSUME PlanInv, [Next]_vars PROVE PlanInv'
    OBVIOUS
  <2> USE DEF PlanInv
  <2>0. /\ SubtaskTot \in Nat /\ SubIdx = 0 .. SubtaskTot - 1
        /\ \A i \in SubIdx : i \in Nat
        /\ \A c \in Cores : c \in Nat
        /\ NoAddr \notin SubIdx
    BY PlanAssumption DEF SubIdx, Cores, NoAddr
  <2>1. CASE SetParameters
    BY <2>1 DEF SetParameters, plan, TablesOK, StartsOnCore, BeforeRank,
       Planned, Steps
  <2>2. CASE SortByUtil
    <3>1. /\ sub_ptr' \in [SubIdx -> SubIdx]
          /\ \A i, j \in SubIdx : sub_ptr'[i] = sub_ptr'[j] => i = j
          /\ \A s \in SubIdx : \E i \in SubIdx : sub_ptr'[i] = s
          /\ loader.step = "sort" /\ loader' = [step |-> "assign", at |-> 0]
          /\ UNCHANGED <<core, start_addr>>
      BY <2>2 DEF SortByUtil, SortedBy, Bijection, Injection, Surjection,
         IsInjective
    <3>2. loader'.step = "assign" /\ TablesOK'
      BY <3>1 DEF TablesOK, Steps
    <3>3. \A c \in Cores : start_addr'[c] = NoAddr
      BY <3>1 DEF BeforeRank
    <3> QED
      BY <2>0, <3>2, <3>3 DEF StartsOnCore, BeforeRank, Planned
  <2>3. CASE Assign
    <3>1. UNCHANGED <<sub_ptr, start_addr>>
      BY <2>3 DEF Assign
    <3>3. core' \in [SubIdx -> Cores]
      <4>1. \E c \in Cores : core' = [core EXCEPT ![sub_ptr[loader.at]] = c]
        BY <2>3, PlanAssumption, SMTT(30) DEF Assign, Cores
      <4> QED
        BY <4>1 DEF TablesOK
    <3>2. loader.step = "assign" /\ loader' \in [step : {"assign"}, at : Nat]
      BY <2>3 DEF Assign, TablesOK
    <3> QED
      BY <3>1, <3>2, <3>3 DEF TablesOK, StartsOnCore, BeforeRank, Planned,
         Steps, NoAddr, SubIdx
  <2>4. CASE SortByDeadline
    <3>1. /\ sub_ptr' \in [SubIdx -> SubIdx]
          /\ \A i, j \in SubIdx : sub_ptr'[i] = sub_ptr'[j] => i = j
          /\ \A s \in SubIdx : \E i \in SubIdx : sub_ptr'[i] = s
          /\ \A i, j \in SubIdx : i < j => ~RanksBefore(sub_ptr'[j], sub_ptr'[i])
          /\ loader.step = "assign" /\ loader' = [step |-> "rank", at |-> 0]
          /\ UNCHANGED <<core, start_addr>>
      BY <2>4 DEF SortByDeadline, SortedBy, Bijection, Injection,
         Surjection, IsInjective
    <3>2. \A i, j \in SubIdx : i < j => ~(core[sub_ptr'[j]] < core[sub_ptr'[i]])
      BY <3>1 DEF RanksBefore
    <3>3. \A i \in SubIdx : core[sub_ptr'[i]] \in Nat
      BY <2>0, <3>1 DEF TablesOK
    <3>4. InCoreOrder'
      BY <3>1, <3>2, <3>3 DEF InCoreOrder
    <3>5. loader'.at = 0 /\ StartsKnown(0)'
      BY <2>0, <3>1 DEF StartsKnown
    <3>6. loader'.step = "rank" /\ TablesOK'
      BY <3>1 DEF TablesOK, Steps
    <3>7. \A c \in Cores : start_addr'[c] = NoAddr
      BY <3>1 DEF BeforeRank
    <3> QED
      BY <2>0, <3>4, <3>5, <3>6, <3>7 DEF StartsOnCore, BeforeRank, Planned
  <2>5. CASE Rank
    <3> PICK i \in SubIdx : loader.at = i
      BY <2>0, <2>5 DEF Rank, TablesOK
    <3> PICK c \in Cores : c = core[sub_ptr[i]]
      BY DEF TablesOK
    <3>1. /\ loader.step = "rank"
          /\ loader' \in [step : Steps, at : Nat]
          /\ loader'.step = "rank" /\ loader'.at = i + 1
          /\ UNCHANGED <<sub_ptr, core>>
      <4>1. /\ loader.step = "rank"
            /\ loader' = [loader EXCEPT !.at = @ + 1]
            /\ UNCHANGED <<sub_ptr, core>>
        BY <2>5 DEF Rank
      <4>2. loader' = [step |-> "rank", at |-> i + 1]
        BY <4>1 DEF TablesOK
      <4>3. i + 1 \in Nat
        BY <2>0
      <4> QED
        BY <4>1, <4>2, <4>3 DEF Steps
    <3>2. \A k \in SubIdx : core[sub_ptr[k]] \in Nat
      BY <2>0 DEF TablesOK
    <3>4. CASE BeginsCore(i)
      <4>1. start_addr' = [start_addr EXCEPT ![c] = i]
        BY <2>5, <3>4 DEF Rank
      <4>2. \A k \in SubIdx : k < i => core[sub_ptr[k]] # c
        <5> SUFFICES ASSUME NEW k \in SubIdx, k < i PROVE core[sub_ptr[k]] # c
          OBVIOUS
        <5>1. i - 1 \in SubIdx /\ core[sub_ptr[i]] # core[sub_ptr[i - 1]]
          BY <2>0, <3>4 DEF BeginsCore
        <5>2. core[sub_ptr[k]] <= core[sub_ptr[i - 1]]
          BY <2>0, <3>1, <3>2, <5>1 DEF InCoreOrder, BeforeRank
        <5>3. core[sub_ptr[i - 1]] <= core[sub_ptr[i]]
          BY <2>0, <3>1, <5>1 DEF InCoreOrder, BeforeRank
        <5> QED
          BY <3>2, <5>1, <5>2, <5>3
      <4>3. ASSUME NEW k \in SubIdx, k < i + 1
            PROVE  start_addr'[core'[sub_ptr'[k]]] \in 0 .. k
        <5>1. CASE k = i
          BY <2>0, <3>1, <4>1, <5>1 DEF TablesOK
        <5>2. CASE k < i
          BY <2>0, <3>1, <4>1, <4>2, <5>2 DEF StartsKnown, TablesOK
        <5> QED
          BY <2>0, <4>3, <5>1, <5>2
      <4>4. StartsOnCore'
        BY <3>1, <4>1 DEF StartsOnCore, TablesOK
      <4>5. start_addr' \in [Cores -> 0 .. SubtaskTot \cup {NoAddr}]
        BY <2>0, <4>1 DEF TablesOK
      <4>6. StartsKnown(loader.at)'
        BY <3>1, <4>3 DEF StartsKnown
      <4>7. TablesOK' /\ InCoreOrder'
        BY <3>1, <4>5 DEF TablesOK, InCoreOrder, BeforeRank
      <4> QED
        BY <3>1, <4>4, <4>6, <4>7 DEF BeforeRank, Planned
    <3>5. CASE ~BeginsCore(i)
      <4>1. start_addr' = start_addr
        BY <2>5, <3>5 DEF Rank
      <4>2. i - 1 \in SubIdx /\ core[sub_ptr[i - 1]] = c
        BY <2>0, <3>5 DEF BeginsCore
      <4>3. start_addr[c] \in 0 .. i
        BY <2>0, <3>1, <4>2 DEF StartsKnown
      <4>4. StartsKnown(i + 1)
        BY <2>0, <3>1, <4>3 DEF StartsKnown
      <4> QED
        BY <3>1, <4>1, <4>4
        DEF TablesOK, StartsOnCore, InCoreOrder, StartsKnown, BeforeRank,
            Planned
    <3> QED
      BY <3>4, <3>5
  <2>6. CASE PointToSentinel
    <3>1. /\ start_addr' = [c \in Cores |-> StartOf(c)]
          /\ loader.step = "rank" /\ loader.at = SubtaskTot
          /\ loader' = [step |-> "spawn", at |-> 0]
          /\ UNCHANGED <<sub_ptr, core>>
      BY <2>6 DEF PointToSentinel
    <3>2. \A c \in Cores : /\ start_addr'[c] = StartOf(c)
                           /\ StartOf(c) \in 0 .. SubtaskTot
                           /\ StartOf(c) \in SubIdx => StartOf(c) = start_addr[c]
      BY <2>0, <3>1 DEF StartOf, TablesOK
    <3>3. \A i \in SubIdx : start_addr'[core[sub_ptr[i]]] \in 0 .. i
      <4> SUFFICES ASSUME NEW i \in SubIdx
                   PROVE  start_addr'[core[sub_ptr[i]]] \in 0 .. i
        OBVIOUS
      <4>1. core[sub_ptr[i]] \in Cores /\ start_addr[core[sub_ptr[i]]] \in 0 .. i
        <5>1. core[sub_ptr[i]] \in Cores
          BY DEF TablesOK
        <5> QED
          BY <2>0, <3>1, <5>1 DEF StartsKnown
      <4> QED
        BY <2>0, <3>2, <4>1 DEF StartOf, NoAddr
    <3>4. StartsOnCore'
      BY <3>1, <3>2 DEF StartsOnCore
    <3>5. start_addr' \in [Cores -> 0 .. SubtaskTot]
      BY <3>1, <3>2
    <3>6. loader'.step = "spawn" /\ TablesOK'
      BY <3>1, <3>5 DEF TablesOK, Steps
    <3>7. InCoreOrder'
      BY <3>1 DEF InCoreOrder, BeforeRank
    <3>8. StartsKnown(SubtaskTot)'
      BY <3>1, <3>3 DEF StartsKnown
    <3> QED
      BY <3>4, <3>5, <3>6, <3>7, <3>8 DEF BeforeRank, Planned
  <2>7. CASE UNCHANGED <<sub_ptr, core, start_addr>>
             /\ loader.step \in {"spawn", "up", "freed", "gone"}
             /\ loader' \in [step : {"spawn", "up", "freed", "gone"}, at : Nat]
    BY <2>7 DEF TablesOK, StartsOnCore, InCoreOrder, StartsKnown, BeforeRank,
       Planned, Steps
  <2>8. CASE Spawn \/ StartCal \/ FreeTable \/ CancelCal
    BY <2>7, <2>8
    DEF Spawn, StartCal, FreeTable, CancelCal, plan, TablesOK
  <2>9. CASE UNCHANGED <<sub_ptr, core, start_addr, loader>>
    BY <2>9 DEF TablesOK, StartsOnCore, InCoreOrder, StartsKnown, Planned
  <2>10. CASE CalTimerFunc \/ UNCHANGED vars
    BY <2>9, <2>10 DEF CalTimerFunc, vars, plan
  <2>11. ASSUME NEW c \in Cores, Thread(c) PROVE PlanInv'
    BY <2>9, <2>11 DEF Thread, ThreadEntry, Resume, NextSubtask, Probe,
       Settle, RunWild, plan
  <2> QED
    BY <2>1, <2>2, <2>3, <2>4, <2>5, <2>6, <2>8, <2>10, <2>11
    DEF Next, InitStep
<1> QED
  BY <1>1, <1>2, PTL DEF Spec

-----------------------------------------------------------------------------
(***************************************************************************)
(* The walk of the calibration threads.  A thread starts at the first      *)
(* subtask of its core, or at the sentinel when it has none, and leaves    *)
(* only subtasks it has calibrated behind.                                 *)
(***************************************************************************)
WalkTypes ==
  /\ exe_time \in [SubIdx -> ExeTimes]
  /\ pc \in [Cores -> Places]
  /\ my_core \in [Cores -> 0 .. CoreNum]
  /\ cur \in [Cores -> 0 .. SubtaskTot]
  /\ min_cnt \in [Cores -> Nat]
  /\ max_cnt \in [Cores -> Nat]
  /\ loop_count \in [SubIdx -> Nat]
  /\ searched_by \in [SubIdx -> SUBSET Cores]

Spawned ==
  /\ ~Planned => \A c \in Cores : pc[c] = "none"
  /\ loader.step = "spawn" => \A c \in Cores : c >= loader.at => pc[c] = "none"

WalkOK(c) ==
  /\ pc[c] \in {"new", "sched"} => cur[c] = start_addr[c]
  /\ pc[c] \in {"sched", "scan", "probe"} => my_core[c] = CoreAt(start_addr[c])
  /\ pc[c] \in {"scan", "probe"} =>
       /\ my_core[c] = c /\ start_addr[c] <= cur[c]
       /\ \A i \in SubIdx : start_addr[c] <= i /\ i < cur[c] =>
            searched_by[sub_ptr[i]] = {c}
  /\ pc[c] = "probe" => cur[c] \in SubIdx /\ core[sub_ptr[cur[c]]] = c
  /\ pc[c] = "done" =>
       \A s \in SubIdx : core[s] = c => searched_by[s] = {c}

SearchedOK(s) ==
  searched_by[s] # {} =>
    /\ searched_by[s] = {core[s]}
    /\ pc[core[s]] \notin {"none", "new", "sched"}
    /\ \E i \in SubIdx : sub_ptr[i] = s /\ i < cur[core[s]]

WalkInv ==
  /\ WalkTypes
  /\ Spawned
  /\ \A c \in Cores : WalkOK(c)
  /\ \A s \in SubIdx : SearchedOK(s)

\* Where a core's thread starts.
LEMMA StartCore ==
  ASSUME PlanInv, Planned, NEW c \in Cores
  PROVE  /\ start_addr[c] \in 0 .. SubtaskTot
         /\ CoreAt(start_addr[c]) = c <=> start_addr[c] \in SubIdx
         /\ CoreAt(start_addr[c]) # c <=> start_addr[c] = SubtaskTot
<1>1. start_addr[c] \in 0 .. SubtaskTot
  BY DEF PlanInv
<1>2. c # CoreNum
  BY PlanAssumption DEF Cores
<1>3. start_addr[c] \in SubIdx <=> start_addr[c] # SubtaskTot
  BY <1>1, PlanAssumption DEF SubIdx
<1> QED
  BY <1>1, <1>2, <1>3 DEF CoreAt, PlanInv, StartsOnCore

\* A thread probes only what nobody has calibrated yet.
LEMMA ProbesFresh ==
  ASSUME PlanInv, WalkInv, NEW c \in Cores, pc[c] = "probe"
  PROVE  /\ cur[c] \in SubIdx
         /\ sub_ptr[cur[c]] \in SubIdx
         /\ core[sub_ptr[cur[c]]] = c
         /\ searched_by[sub_ptr[cur[c]]] = {}
<1>1. cur[c] \in SubIdx /\ core[sub_ptr[cur[c]]] = c
  BY DEF WalkInv, WalkOK
<1>2. sub_ptr[cur[c]] \in SubIdx
  BY <1>1 DEF PlanInv, TablesOK
<1>3. ASSUME searched_by[sub_ptr[cur[c]]] # {} PROVE FALSE
  <2>1. PICK i \in SubIdx : sub_ptr[i] = sub_ptr[cur[c]] /\ i < cur[c]
    BY <1>1, <1>2, <1>3 DEF WalkInv, SearchedOK
  <2>2. i = cur[c]
    BY <1>1, <2>1 DEF PlanInv, TablesOK
  <2> QED
    BY <2>1, <2>2, PlanAssumption DEF SubIdx
<1> QED
  BY <1>1, <1>2, <1>3

\* A thread that meets another core, or the sentinel, has calibrated all of
\* its own.
LEMMA WalkedAll ==
  ASSUME PlanInv, WalkInv, Planned, NEW c \in Cores, NEW s \in SubIdx,
         core[s] = c,
         \/ pc[c] = "sched" /\ my_core[c] # c
         \/ pc[c] = "scan" /\ CoreAt(cur[c]) # c
  PROVE  searched_by[s] = {c}
<1>0. SubtaskTot \in Nat /\ SubIdx = 0 .. SubtaskTot - 1
  BY PlanAssumption DEF SubIdx
<1>1. PICK i \in SubIdx : sub_ptr[i] = s
  BY DEF PlanInv, TablesOK
<1>2. start_addr[c] \in 0 .. i
  BY <1>0, <1>1 DEF PlanInv, StartsKnown
<1>3. start_addr[c] \in SubIdx /\ CoreAt(start_addr[c]) = c
  BY <1>0, <1>2, StartCore
<1>4. pc[c] = "scan" /\ CoreAt(cur[c]) # c
  BY <1>3 DEF WalkInv, WalkOK
<1>5. /\ cur[c] \in 0 .. SubtaskTot /\ start_addr[c] <= cur[c]
      /\ \A k \in SubIdx : start_addr[c] <= k /\ k < cur[c] =>
           searched_by[sub_ptr[k]] = {c}
  BY <1>4 DEF WalkInv, WalkOK, WalkTypes
<1>6. CASE i < cur[c]
  <2>1. start_addr[c] <= i
    BY <1>0, <1>2
  <2> QED
    BY <1>1, <1>5, <1>6, <2>1
<1>7. CASE i >= cur[c]
  <2>1. cur[c] \in SubIdx /\ core[sub_ptr[cur[c]]] # c
    BY <1>0, <1>4, <1>5, <1>7 DEF CoreAt
  <2>2. /\ start_addr[c] < cur[c] /\ cur[c] < i
        /\ core[sub_ptr[start_addr[c]]] = c
    BY <1>0, <1>1, <1>3, <1>5, <1>7, <2>1 DEF CoreAt
  <2>3. InCoreOrder
    BY DEF PlanInv, Planned, BeforeRank
  <2>4. /\ core[sub_ptr[start_addr[c]]] <= core[sub_ptr[cur[c]]]
        /\ core[sub_ptr[cur[c]]] <= core[sub_ptr[i]]
    BY <1>3, <2>1, <2>2, <2>3 DEF InCoreOrder
  <2>5. core[sub_ptr[cur[c]]] \in Cores
    BY <2>1 DEF PlanInv, TablesOK
  <2>6. core[sub_ptr[cur[c]]] \in Nat /\ c \in Nat
    BY <2>5, PlanAssumption DEF Cores
  <2> QED
    BY <1>1, <2>1, <2>2, <2>4, <2>6
<1> QED
  BY <1>0, <1>5, <1>6, <1>7

\* While the tables are being made no thread runs and nothing is calibrated.
LEMMA PlanningStep ==
  ASSUME PlanInv, WalkInv,
         SetParameters \/ SortByUtil \/ Assign \/ SortByDeadline
           \/ Rank \/ PointToSentinel
  PROVE  /\ loader'.step = "spawn" \/ ~Planned'
         /\ UNCHANGED <<exe_time, thread, result>>
         /\ \A c \in Cores : pc'[c] = "none"
         /\ \A s \in SubIdx : searched_by'[s] = {}
<1>1. /\ ~Planned
      /\ loader'.step = "spawn" \/ ~Planned'
      /\ UNCHANGED <<exe_time, thread, result>>
  <2>1. CASE SetParameters
    BY <2>1 DEF SetParameters, Planned, PlanInv, TablesOK, inputs
  <2>2. CASE SortByUtil
    BY <2>2 DEF SortByUtil, Planned, inputs
  <2>3. CASE Assign
    BY <2>3 DEF Assign, Planned, PlanInv, TablesOK, inputs
  <2>4. CASE SortByDeadline
    BY <2>4 DEF SortByDeadline, Planned, inputs
  <2>5. CASE Rank
    BY <2>5 DEF Rank, Planned, PlanInv, TablesOK, inputs
  <2>6. CASE PointToSentinel
    BY <2>6 DEF PointToSentinel, Planned, inputs
  <2> QED
    BY <2>1, <2>2, <2>3, <2>4, <2>5, <2>6
<1>2. \A c \in Cores : pc'[c] = "none"
  BY <1>1 DEF WalkInv, Spawned, thread
<1>3. ASSUME NEW s \in SubIdx PROVE searched_by'[s] = {}
  <2>1. core[s] \in Cores
    BY DEF PlanInv, TablesOK
  <2>2. pc[core[s]] = "none"
    BY <1>1, <2>1 DEF WalkInv, Spawned
  <2> QED
    BY <1>1, <2>2 DEF WalkInv, SearchedOK, result
<1> QED
  BY <1>1, <1>2, <1>3

\* What a step of thread c leaves of the invariant when it calibrates nothing.
LEMMA ThreadFrame ==
  ASSUME PlanInv, WalkInv, NEW c \in Cores, NEW p \in Places \ {"none", "new"},
         pc[c] # "none", p = "sched" => pc[c] = "new",
         pc' = [pc EXCEPT ![c] = p],
         \A d \in Cores \ {c} : my_core'[d] = my_core[d],
         UNCHANGED <<inputs, plan, loader, cur, searched_by>>,
         WalkTypes', WalkOK(c)'
  PROVE  WalkInv'
<1>1. /\ \A d \in Cores \ {c} : pc'[d] = pc[d]
      /\ pc'[c] = p
      /\ UNCHANGED <<start_addr, sub_ptr, core>>
  BY DEF WalkInv, WalkTypes, plan
<1>2. Spawned'
  BY <1>1 DEF WalkInv, Spawned, Planned
<1>3. ASSUME NEW d \in Cores \ {c} PROVE WalkOK(d)'
  <2>1. WalkOK(d)
    BY DEF WalkInv
  <2> QED
    BY <1>1, <2>1 DEF WalkOK, CoreAt
<1>4. ASSUME NEW s \in SubIdx PROVE SearchedOK(s)'
  <2>1. SearchedOK(s)
    BY DEF WalkInv
  <2>2. core[s] \in Cores
    BY DEF PlanInv, TablesOK
  <2> QED
    BY <1>1, <2>1, <2>2 DEF SearchedOK
<1> QED
  BY <1>2, <1>3, <1>4 DEF WalkInv

\* The calibration threads' part in calibrate() and E2E_init (E2E.c:65-93,
\* 177-209) keeps that shape.
LEMMA WalkInvariant == Spec => []WalkInv
<1>1. Init => WalkInv
  <2> SUFFICES ASSUME Init PROVE WalkInv
    OBVIOUS
  <2>1. SubtaskTot \in Nat /\ CoreNum \in Nat
    BY PlanAssumption
  <2>2. WalkTypes
    BY <2>1 DEF Init, WalkTypes, Places
  <2>3. Spawned
    BY DEF Init, Spawned
  <2>4. \A c \in Cores : WalkOK(c)
    BY DEF Init, WalkOK
  <2>5. \A s \in SubIdx : SearchedOK(s)
    BY DEF Init, SearchedOK
  <2> QED
    BY <2>2, <2>3, <2>4, <2>5 DEF WalkInv
<1>2. PlanInv /\ WalkInv /\ [Next]_vars => WalkInv'
  <2> SUFFICES ASSUME PlanInv, WalkInv, [Next]_vars PROVE WalkInv'
    OBVIOUS
  <2>1. CASE SetParameters \/ SortByUtil \/ Assign \/ SortByDeadline
             \/ Rank \/ PointToSentinel
    <3>1. /\ loader'.step = "spawn" \/ ~Planned'
          /\ UNCHANGED <<exe_time, thread, result>>
          /\ \A c \in Cores : pc'[c] = "none"
          /\ \A s \in SubIdx : searched_by'[s] = {}
      BY <2>1, PlanningStep
    <3>2. WalkTypes'
      BY <3>1 DEF WalkInv, WalkTypes, thread, result
    <3> QED
      BY <3>1, <3>2 DEF WalkInv, Spawned, WalkOK, SearchedOK
  <2>2. CASE Spawn
    <3> PICK c \in Cores : c = loader.at
      BY <2>2, PlanAssumption DEF Spawn, PlanInv, TablesOK, Cores
    <3>1. /\ loader.step = "spawn"
          /\ pc' = [pc EXCEPT ![c] = "new"]
          /\ cur' = [cur EXCEPT ![c] = start_addr[c]]
          /\ loader' = [loader EXCEPT !.at = @ + 1]
          /\ UNCHANGED <<exe_time, start_addr, sub_ptr, core, woken, my_core,
                         min_cnt, max_cnt, loop_count, searched_by>>
      BY <2>2 DEF Spawn, inputs, plan, result
    <3>2. loader'.step = "spawn" /\ loader'.at = c + 1
      BY <3>1 DEF PlanInv, TablesOK
    <3>3. /\ \A d \in Cores \ {c} : pc'[d] = pc[d] /\ cur'[d] = cur[d]
          /\ pc'[c] = "new" /\ cur'[c] = start_addr[c]
      BY <3>1 DEF WalkInv, WalkTypes
    <3>4. WalkTypes'
      <4>1. start_addr[c] \in 0 .. SubtaskTot
        BY <3>1, StartCore DEF Planned
      <4> QED
        BY <3>1, <4>1 DEF WalkInv, WalkTypes, Places
    <3>5. pc[c] = "none"
      BY <3>1, PlanAssumption DEF WalkInv, Spawned, Cores
    <3>6. Spawned'
      <4>1. \A d \in Cores : d >= c + 1 => d # c /\ d >= c
        BY PlanAssumption DEF Cores
      <4> QED
        BY <3>1, <3>2, <3>3, <4>1 DEF WalkInv, Spawned, Planned
    <3>7. ASSUME NEW d \in Cores PROVE WalkOK(d)'
      <4>1. CASE d = c
        BY <3>1, <3>3, <4>1 DEF WalkOK
      <4>2. CASE d # c
        <5>1. WalkOK(d)
          BY DEF WalkInv
        <5> QED
          BY <3>1, <3>3, <4>2, <5>1 DEF WalkOK, CoreAt
      <4> QED
        BY <4>1, <4>2
    <3>8. ASSUME NEW s \in SubIdx PROVE SearchedOK(s)'
      <4>1. SearchedOK(s) /\ core[s] \in Cores
        BY DEF WalkInv, PlanInv, TablesOK
      <4> QED
        BY <3>1, <3>3, <3>5, <4>1 DEF SearchedOK
    <3> QED
      BY <3>4, <3>6, <3>7, <3>8 DEF WalkInv
  <2>3. CASE StartCal \/ FreeTable \/ CancelCal \/ CalTimerFunc
             \/ UNCHANGED vars
    <3>1. /\ UNCHANGED <<exe_time, start_addr, sub_ptr, core, pc, my_core,
                         cur, min_cnt, max_cnt, loop_count, searched_by>>
          /\ \/ UNCHANGED loader
             \/ Planned /\ loader'.step \in {"up", "freed", "gone"}
      BY <2>3 DEF StartCal, FreeTable, CancelCal, CalTimerFunc, vars, inputs,
         plan, thread, result, Planned, PlanInv, TablesOK
    <3>2. WalkTypes'
      BY <3>1 DEF WalkInv, WalkTypes
    <3>3. Spawned'
      BY <3>1 DEF WalkInv, Spawned, Planned
    <3>4. \A c \in Cores : WalkOK(c)'
      BY <3>1 DEF WalkInv, WalkOK, CoreAt
    <3>5. \A s \in SubIdx : SearchedOK(s)'
      BY <3>1 DEF WalkInv, SearchedOK
    <3> QED
      BY <3>2, <3>3, <3>4, <3>5 DEF WalkInv
  <2>4. ASSUME NEW c \in Cores, Thread(c) PROVE WalkInv'
    <3>0. /\ WalkTypes /\ WalkOK(c)
          /\ pc[c] # "none" => Planned
      BY DEF WalkInv, Spawned
    <3>1. CASE ThreadEntry(c)
      <4>1. /\ pc[c] = "new" /\ pc' = [pc EXCEPT ![c] = "sched"]
            /\ my_core' = [my_core EXCEPT ![c] = CoreAt(cur[c])]
            /\ UNCHANGED <<exe_time, start_addr, sub_ptr, core, cur, min_cnt,
                           max_cnt, loop_count, searched_by>>
        BY <3>1 DEF ThreadEntry, Goto, inputs, plan, result
      <4>2. CoreAt(cur[c]) \in 0 .. CoreNum /\ cur[c] = start_addr[c]
        <5>1. cur[c] = start_addr[c] /\ start_addr[c] \in 0 .. SubtaskTot
          BY <3>0, <4>1, StartCore DEF WalkOK
        <5>2. CASE cur[c] = SubtaskTot
          BY <5>1, <5>2, PlanAssumption DEF CoreAt
        <5>3. CASE cur[c] # SubtaskTot
          <6>1. cur[c] \in SubIdx
            BY <5>1, <5>3, PlanAssumption DEF SubIdx
          <6>2. core[sub_ptr[cur[c]]] \in Cores
            BY <6>1 DEF PlanInv, TablesOK
          <6> QED
            BY <5>1, <5>3, <6>2, PlanAssumption DEF CoreAt, Cores
        <5> QED
          BY <5>1, <5>2, <5>3
      <4>3. WalkTypes'
        BY <3>0, <4>1, <4>2 DEF WalkTypes, Places
      <4>4. WalkOK(c)'
        BY <3>0, <4>1, <4>2 DEF WalkOK, WalkTypes, CoreAt
      <4> QED
        BY <3>0, <3>1, <4>1, <4>3, <4>4, ThreadFrame
        DEF ThreadEntry, WalkTypes, Places, result
    <3>2. CASE Resume(c)
      <4>1. /\ pc[c] = "sched"
            /\ UNCHANGED <<exe_time, start_addr, sub_ptr, core, my_core, cur,
                           min_cnt, max_cnt, loop_count, searched_by>>
            /\ pc' = [pc EXCEPT ![c] = IF my_core[c] = CoreNum THEN "done"
                                                               ELSE "scan"]
        BY <3>2 DEF Resume, Goto, inputs, plan, result
      <4>2. my_core[c] = CoreAt(start_addr[c]) /\ cur[c] = start_addr[c]
        BY <3>0, <4>1 DEF WalkOK
      <4>3. c # CoreNum
        BY PlanAssumption DEF Cores
      <4>4. CASE my_core[c] = CoreNum
        <5>1. \A s \in SubIdx : core[s] = c => searched_by[s] = {c}
          BY <3>0, <4>1, <4>3, <4>4, WalkedAll
        <5>2. pc' = [pc EXCEPT ![c] = "done"]
          BY <4>1, <4>4
        <5>3. WalkTypes'
          BY <3>0, <4>1, <5>2 DEF WalkTypes, Places
        <5>4. WalkOK(c)'
          BY <3>0, <4>1, <5>1, <5>2 DEF WalkOK, WalkTypes
        <5> QED
          BY <3>2, <4>1, <5>2, <5>3, <5>4, ThreadFrame
          DEF Resume, Places, result
      <4>5. CASE my_core[c] # CoreNum
        <5>1. pc' = [pc EXCEPT ![c] = "scan"]
          BY <4>1, <4>5
        <5>2. start_addr[c] \in 0 .. SubtaskTot /\ my_core[c] = c
          <6>1. start_addr[c] # SubtaskTot
            BY <4>2, <4>5 DEF CoreAt
          <6> QED
            BY <3>0, <4>1, <4>2, <6>1, StartCore
        <5>3. WalkTypes'
          BY <3>0, <4>1, <5>1 DEF WalkTypes, Places
        <5>4. start_addr[c] <= cur[c]
              /\ \A i \in SubIdx : ~(start_addr[c] <= i /\ i < cur[c])
          BY <4>2, <5>2, PlanAssumption DEF SubIdx
        <5>5. WalkOK(c)'
          BY <3>0, <4>1, <4>2, <5>1, <5>2, <5>4 DEF WalkOK, WalkTypes, CoreAt
        <5> QED
          BY <3>2, <4>1, <5>1, <5>3, <5>5, ThreadFrame
          DEF Resume, Places, result
      <4> QED
        BY <4>4, <4>5
    <3>3. CASE NextSubtask(c)
      <4>1. /\ pc[c] = "scan"
            /\ UNCHANGED <<exe_time, start_addr, sub_ptr, core, my_core, cur,
                           loop_count, searched_by>>
            /\ my_core[c] = c
        BY <3>0, <3>3 DEF NextSubtask, inputs, plan, result, WalkOK
      <4>2. CASE CoreAt(cur[c]) = c
        <5>1. /\ pc' = [pc EXCEPT ![c] = "probe"]
              /\ min_cnt' = [min_cnt EXCEPT ![c] = 0]
              /\ max_cnt' = [max_cnt EXCEPT ![c] = MaxCnt]
          BY <3>3, <4>1, <4>2 DEF NextSubtask, Goto
        <5>2. WalkTypes'
          BY <3>0, <4>1, <5>1, PlanAssumption DEF WalkTypes, Places
        <5>3. cur[c] \in SubIdx /\ core[sub_ptr[cur[c]]] = c
          <6>1. c # CoreNum /\ cur[c] \in 0 .. SubtaskTot
            BY <3>0, PlanAssumption DEF Cores, WalkTypes
          <6> QED
            BY <4>2, <6>1, PlanAssumption DEF CoreAt, SubIdx
        <5>4. WalkOK(c)'
          BY <3>0, <4>1, <5>1, <5>3 DEF WalkOK, WalkTypes, CoreAt
        <5> QED
          BY <3>3, <4>1, <5>1, <5>2, <5>4, ThreadFrame
          DEF NextSubtask, Places, result
      <4>3. CASE CoreAt(cur[c]) # c
        <5>1. /\ pc' = [pc EXCEPT ![c] = "done"]
              /\ UNCHANGED <<min_cnt, max_cnt>>
          BY <3>3, <4>1, <4>3 DEF NextSubtask, Goto
        <5>2. \A s \in SubIdx : core[s] = c => searched_by[s] = {c}
          BY <3>0, <4>1, <4>3, WalkedAll
        <5>3. WalkTypes'
          BY <3>0, <4>1, <5>1 DEF WalkTypes, Places
        <5>4. WalkOK(c)'
          BY <3>0, <4>1, <5>1, <5>2 DEF WalkOK, WalkTypes
        <5> QED
          BY <3>3, <4>1, <5>1, <5>3, <5>4, ThreadFrame
          DEF NextSubtask, Places, result
      <4> QED
        BY <4>2, <4>3
    <3>4. CASE Probe(c)
      <4>1. Mid(c) \in Nat /\ Mid(c) + 1 \in Nat
        BY <3>0 DEF WalkTypes, Mid
      <4>2. /\ loop_count' = [loop_count EXCEPT ![sub_ptr[cur[c]]] = Mid(c)]
            /\ min_cnt' \in [Cores -> Nat] /\ max_cnt' \in [Cores -> Nat]
            /\ UNCHANGED <<inputs, plan, loader, pc, my_core, cur, searched_by>>
        BY <3>0, <3>4, <4>1 DEF Probe, WalkTypes
      <4>3. WalkTypes'
        BY <3>0, <4>1, <4>2 DEF WalkTypes, inputs
      <4>4. Spawned'
        BY <4>2 DEF WalkInv, Spawned, Planned
      <4>5. \A d \in Cores : WalkOK(d)'
        BY <4>2 DEF WalkInv, WalkOK, CoreAt, plan
      <4>6. \A s \in SubIdx : SearchedOK(s)'
        BY <4>2 DEF WalkInv, SearchedOK, plan
      <4> QED
        BY <4>3, <4>4, <4>5, <4>6 DEF WalkInv
    <3>5. CASE Settle(c)
      <4>1. PICK s \in SubIdx : s = sub_ptr[cur[c]]
        BY <3>5, ProbesFresh DEF Settle
      <4>2. /\ pc[c] = "probe" /\ pc' = [pc EXCEPT ![c] = "scan"]
            /\ loop_count' = [loop_count EXCEPT ![s] = max_cnt[c]]
            /\ searched_by' = [searched_by EXCEPT ![s] = @ \cup {c}]
            /\ cur' = [cur EXCEPT ![c] = @ + 1]
            /\ UNCHANGED <<exe_time, start_addr, sub_ptr, core, my_core,
                           min_cnt, max_cnt, loader>>
        BY <3>5, <4>1 DEF Settle, Goto, inputs, plan
      <4>3. /\ cur[c] \in SubIdx /\ core[s] = c /\ searched_by[s] = {}
            /\ cur[c] + 1 \in 0 .. SubtaskTot
            /\ start_addr[c] \in 0 .. SubtaskTot
        <5>1. cur[c] \in SubIdx /\ core[s] = c /\ searched_by[s] = {}
          BY <4>1, <4>2, ProbesFresh
        <5>2. start_addr[c] \in 0 .. SubtaskTot
          BY <3>0, <4>2, StartCore
        <5>3. \A n \in SubIdx : n + 1 \in 0 .. SubtaskTot
          BY PlanAssumption DEF SubIdx
        <5> QED
          BY <5>1, <5>2, <5>3
      <4>4. WalkTypes'
        BY <3>0, <4>2, <4>3 DEF WalkTypes, Places
      <4>5. /\ \A d \in Cores \ {c} : pc'[d] = pc[d] /\ cur'[d] = cur[d]
            /\ pc'[c] = "scan" /\ cur'[c] = cur[c] + 1
            /\ \A t \in SubIdx \ {s} : searched_by'[t] = searched_by[t]
            /\ searched_by'[s] = {c}
        BY <3>0, <4>2, <4>3 DEF WalkTypes
      <4>6. Spawned'
        BY <4>2, <4>5 DEF WalkInv, Spawned, Planned
      <4>7. \A i \in SubIdx : sub_ptr[i] \in SubIdx
        BY DEF PlanInv, TablesOK
      <4>8. ASSUME NEW d \in Cores \ {c} PROVE WalkOK(d)'
        <5>1. WalkOK(d)
          BY DEF WalkInv
        <5>2. \A t \in SubIdx : searched_by[t] = {d} => searched_by'[t] = {d}
          BY <4>3, <4>5
        <5> QED
          BY <4>2, <4>5, <4>7, <5>1, <5>2 DEF WalkOK, CoreAt
      <4>9. WalkOK(c)'
        <5>1. my_core[c] = c /\ my_core[c] = CoreAt(start_addr[c])
              /\ start_addr[c] <= cur[c] + 1
          BY <3>0, <4>2, <4>3, PlanAssumption DEF WalkOK, SubIdx
        <5>2. ASSUME NEW i \in SubIdx, start_addr[c] <= i, i < cur[c] + 1
              PROVE  searched_by'[sub_ptr[i]] = {c}
          <6>1. i < cur[c] \/ i = cur[c]
            BY <4>3, <5>2, PlanAssumption DEF SubIdx
          <6>2. CASE i < cur[c]
            <7>1. searched_by[sub_ptr[i]] = {c}
              BY <3>0, <4>2, <5>2, <6>2 DEF WalkOK
            <7> QED
              BY <4>3, <4>5, <4>7, <7>1
          <6> QED
            BY <4>1, <4>5, <6>1, <6>2
        <5>3. CoreAt(start_addr[c])' = CoreAt(start_addr[c])
          BY <4>2 DEF CoreAt
        <5> QED
          BY <4>2, <4>5, <5>1, <5>2, <5>3 DEF WalkOK
      <4>10. ASSUME NEW t \in SubIdx PROVE SearchedOK(t)'
        <5>1. CASE t = s
          <6>1. cur[c] < cur[c] + 1
            BY <4>3, PlanAssumption DEF SubIdx
          <6> QED
            BY <4>1, <4>2, <4>3, <4>5, <5>1, <6>1 DEF SearchedOK
        <5>2. CASE t # s
          <6>1. SearchedOK(t) /\ core[t] \in Cores
            BY DEF WalkInv, PlanInv, TablesOK
          <6>2. \A i \in SubIdx : i < cur[core[t]] => i < cur'[core[t]]
            <7>1. PICK n \in SubIdx : n = cur[c]
              BY <4>3
            <7>2. \A i \in SubIdx : i < n => i < n + 1
              BY PlanAssumption DEF SubIdx
            <7>3. \A i \in SubIdx : i < cur[c] => i < cur[c] + 1
              BY <7>1, <7>2
            <7> QED
              BY <4>5, <6>1, <7>3
          <6> QED
            BY <4>2, <4>5, <5>2, <6>1, <6>2 DEF SearchedOK
        <5> QED
          BY <5>1, <5>2
      <4> QED
        BY <4>4, <4>6, <4>8, <4>9, <4>10 DEF WalkInv
    <3>6. CASE RunWild(c)
      <4>1. /\ pc[c] # "none" /\ pc' = [pc EXCEPT ![c] = "wild"]
            /\ UNCHANGED <<inputs, plan, loader, my_core, cur, min_cnt,
                           max_cnt, loop_count, searched_by>>
        BY <3>6 DEF RunWild, Goto, result
      <4>2. WalkTypes' /\ pc'[c] = "wild"
        BY <3>0, <4>1 DEF WalkTypes, Places, inputs
      <4>3. WalkOK(c)'
        BY <4>2 DEF WalkOK
      <4> QED
        BY <4>1, <4>2, <4>3, ThreadFrame DEF Places
    <3> QED
      BY <2>4, <3>1, <3>2, <3>3, <3>4, <3>5, <3>6 DEF Thread
  <2> QED
    BY <2>1, <2>2, <2>3, <2>4 DEF Next, InitStep
<1> QED
  BY <1>1, <1>2, PlanInvariant, PTL DEF Spec

\* Only the thread of its core calibrates a subtask, and once all threads
\* have returned every subtask has been calibrated (E2E.c:75, 91, 200-209).
THEOREM CalibratedOnceHolds == Spec => []CalibratedOnce
<1>1. PlanInv /\ WalkInv => CalibratedOnce
  <2> SUFFICES ASSUME PlanInv, WalkInv PROVE CalibratedOnce
    OBVIOUS
  <2>1. \A s \in SubIdx : searched_by[s] \subseteq {core[s]}
    BY DEF WalkInv, SearchedOK
  <2>2. \A s \in SubIdx : core[s] \in Cores
    BY DEF PlanInv, TablesOK
  <2>3. ASSUME NEW s \in SubIdx, pc[core[s]] = "done"
        PROVE  searched_by[s] = {core[s]}
    BY <2>2, <2>3 DEF WalkInv, WalkOK
  <2> QED
    BY <2>1, <2>2, <2>3 DEF CalibratedOnce
<1> QED
  BY <1>1, PlanInvariant, WalkInvariant, PTL

-----------------------------------------------------------------------------
(***************************************************************************)
(* The bisection.  The bounds of a search hold whether or not sub_ptr has  *)
(* been freed; one that has been freed is not read again.                  *)
(***************************************************************************)
BoundsOK(c) ==
  LET s == sub_ptr[cur[c]] IN
    /\ min_cnt[c] <= max_cnt[c]
    /\ min_cnt[c] > 0 => (min_cnt[c] - 1) * LoopCost < Target(s)
    /\ max_cnt[c] < MaxCnt => max_cnt[c] * LoopCost + Jitter >= Target(s)

BandInv ==
  /\ \A c \in Cores : pc[c] = "probe" => BoundsOK(c)
  /\ \A s \in SubIdx : searched_by[s] # {} => InBand(loop_count[s], s)

LEMMA TargetInt ==
  ASSUME WalkInv, NEW s \in SubIdx PROVE Target(s) \in Int
<1>1. exe_time[s] \in ExeTimes
  BY DEF WalkInv, WalkTypes
<1>2. ExeTimes \subseteq Nat
  BY InputsNat
<1>3. exe_time[s] \in Nat
  BY <1>1, <1>2
<1>4. NsPerMs \in Nat /\ WordSize \in Nat \ {0}
  BY PlanAssumption
<1>5. exe_time[s] * NsPerMs \in Int
  BY <1>3, <1>4
<1> QED
  BY <1>4, <1>5, ModInt DEF Target

\* One probe halves the interval and keeps both of its ends right.
LEMMA ProbeKeepsBounds ==
  ASSUME NEW c \in Cores, PlanInv, WalkInv, Probe(c), BoundsOK(c)
  PROVE  BoundsOK(c)'
<1> DEFINE s == sub_ptr[cur[c]]
           lo == min_cnt[c]
           hi == max_cnt[c]
           mid == Mid(c)
<1>1. /\ pc[c] = "probe" /\ lo < hi
      /\ UNCHANGED <<exe_time, sub_ptr, cur>>
  BY DEF Probe, inputs, plan
<1>2. s \in SubIdx /\ lo \in Nat /\ hi \in Nat
  BY <1>1, ProbesFresh DEF WalkInv, WalkTypes
<1>3. mid \in Nat /\ lo <= mid /\ mid < hi
  BY <1>1, <1>2 DEF Mid
<1>4. Target(s) \in Int /\ (Target(s))' = Target(s)
  BY <1>1, <1>2, TargetInt DEF Target
<1>5. LoopCost \in Nat /\ Jitter \in Nat /\ MaxCnt \in Nat
      /\ mid * LoopCost \in Nat
  BY <1>3, PlanAssumption
<1>6. PICK elapsed \in Elapsed(mid) :
        IF LongEnough(elapsed, s)
          THEN max_cnt' = [max_cnt EXCEPT ![c] = mid] /\ UNCHANGED min_cnt
          ELSE min_cnt' = [min_cnt EXCEPT ![c] = mid + 1] /\ UNCHANGED max_cnt
  BY DEF Probe
<1>7. /\ elapsed \in Int
      /\ mid * LoopCost <= elapsed /\ elapsed <= mid * LoopCost + Jitter
  BY <1>5, <1>6 DEF Elapsed
<1>8. CASE LongEnough(elapsed, s)
  <2>1. max_cnt'[c] = mid /\ min_cnt'[c] = lo
    BY <1>6, <1>8 DEF WalkInv, WalkTypes
  <2>2. mid * LoopCost + Jitter >= Target(s)
    BY <1>4, <1>5, <1>7, <1>8 DEF LongEnough
  <2> QED
    BY <1>1, <1>3, <1>4, <2>1, <2>2 DEF BoundsOK
<1>9. CASE ~LongEnough(elapsed, s)
  <2>1. max_cnt'[c] = hi /\ min_cnt'[c] = mid + 1
    BY <1>6, <1>9 DEF WalkInv, WalkTypes
  <2>2. mid * LoopCost < Target(s)
    BY <1>4, <1>5, <1>7, <1>9 DEF LongEnough
  <2>3. mid + 1 <= hi /\ (mid + 1) - 1 = mid
    BY <1>2, <1>3
  <2> QED
    BY <1>1, <1>4, <2>1, <2>2, <2>3 DEF BoundsOK
<1> QED
  BY <1>8, <1>9

\* The bisection of calibrate() (E2E.c:78-88) keeps its ends on their sides
\* of the target and leaves a count that misses it by the jitter at most.
THEOREM SearchBandHolds == Spec => []SearchBand
<1>1. Init => BandInv
  BY DEF Init, BandInv
<1>2. PlanInv /\ WalkInv /\ BandInv /\ [Next]_vars => BandInv'
  <2> SUFFICES ASSUME PlanInv, WalkInv, BandInv, [Next]_vars PROVE BandInv'
    OBVIOUS
  <2>1. CASE SetParameters \/ SortByUtil \/ Assign \/ SortByDeadline
             \/ Rank \/ PointToSentinel
    BY <2>1, PlanningStep DEF BandInv
  <2>2. ASSUME UNCHANGED <<exe_time, sub_ptr, loop_count, searched_by>>,
               \A d \in Cores :
                 pc'[d] = "probe" =>
                   \/ BoundsOK(d)'
                   \/ /\ pc[d] = "probe" /\ cur'[d] = cur[d]
                      /\ min_cnt'[d] = min_cnt[d] /\ max_cnt'[d] = max_cnt[d]
        PROVE  BandInv'
    BY <2>2 DEF BandInv, BoundsOK, InBand, Target
  <2>3. CASE Spawn
    <3> PICK c \in Cores : c = loader.at
      BY <2>3, PlanAssumption DEF Spawn, PlanInv, TablesOK, Cores
    <3>1. /\ pc' = [pc EXCEPT ![c] = "new"]
          /\ cur' = [cur EXCEPT ![c] = start_addr[c]]
          /\ UNCHANGED <<exe_time, sub_ptr, min_cnt, max_cnt, loop_count,
                         searched_by>>
      BY <2>3 DEF Spawn, inputs, plan, result
    <3> QED
      BY <2>2, <3>1 DEF WalkInv, WalkTypes
  <2>4. CASE StartCal \/ FreeTable \/ CancelCal \/ CalTimerFunc
             \/ UNCHANGED vars
    <3>1. UNCHANGED <<exe_time, sub_ptr, pc, cur, min_cnt, max_cnt,
                      loop_count, searched_by>>
      BY <2>4 DEF StartCal, FreeTable, CancelCal, CalTimerFunc, vars, inputs,
         plan, thread, result
    <3> QED
      BY <2>2, <3>1
  <2>5. ASSUME NEW c \in Cores, ThreadEntry(c) \/ Resume(c) \/ RunWild(c)
        PROVE  BandInv'
    <3>1. /\ \E p \in Places \ {"probe"} : pc' = [pc EXCEPT ![c] = p]
          /\ UNCHANGED <<exe_time, sub_ptr, cur, min_cnt, max_cnt, loop_count,
                         searched_by>>
      BY <2>5 DEF ThreadEntry, Resume, RunWild, Goto, Places, inputs, plan,
         result
    <3> QED
      BY <2>2, <3>1 DEF WalkInv, WalkTypes
  <2>6. ASSUME NEW c \in Cores, NextSubtask(c) PROVE BandInv'
    <3>1. UNCHANGED <<exe_time, sub_ptr, cur, loop_count, searched_by>>
      BY <2>6 DEF NextSubtask, inputs, plan, result
    <3>2. \A d \in Cores \ {c} :
            /\ pc'[d] = pc[d]
            /\ min_cnt'[d] = min_cnt[d] /\ max_cnt'[d] = max_cnt[d]
      BY <2>6 DEF NextSubtask, Goto, WalkInv, WalkTypes
    <3>3. pc'[c] = "probe" => min_cnt'[c] = 0 /\ max_cnt'[c] = MaxCnt
      BY <2>6 DEF NextSubtask, Goto, WalkInv, WalkTypes
    <3>4. pc'[c] = "probe" => BoundsOK(c)'
      BY <3>3, PlanAssumption DEF BoundsOK
    <3> QED
      BY <2>2, <3>1, <3>2, <3>4
  <2>7. ASSUME NEW c \in Cores, Probe(c) PROVE BandInv'
    <3>1. PICK s \in SubIdx : s = sub_ptr[cur[c]] /\ searched_by[s] = {}
      BY <2>7, ProbesFresh DEF Probe
    <3>2. /\ pc[c] = "probe"
          /\ UNCHANGED <<exe_time, sub_ptr, pc, cur, searched_by>>
          /\ loop_count' = [loop_count EXCEPT ![s] = Mid(c)]
          /\ \A d \in Cores \ {c} :
               min_cnt'[d] = min_cnt[d] /\ max_cnt'[d] = max_cnt[d]
      BY <2>7, <3>1 DEF Probe, inputs, plan, WalkInv, WalkTypes
    <3>3. BoundsOK(c)'
      BY <2>7, <3>2, ProbeKeepsBounds DEF BandInv
    <3>4. ASSUME NEW d \in Cores, pc'[d] = "probe" PROVE BoundsOK(d)'
      <4>1. CASE d # c
        BY <3>2, <3>4, <4>1 DEF BandInv, BoundsOK, Target
      <4> QED
        BY <3>3, <4>1
    <3>5. ASSUME NEW t \in SubIdx, searched_by'[t] # {}
          PROVE  InBand(loop_count[t], t)'
      <4>1. loop_count'[t] = loop_count[t] /\ InBand(loop_count[t], t)
        BY <3>1, <3>2, <3>5 DEF BandInv, WalkInv, WalkTypes
      <4> QED
        BY <3>2, <4>1 DEF InBand, Target
    <3> QED
      BY <3>4, <3>5 DEF BandInv
  <2>8. ASSUME NEW c \in Cores, Settle(c) PROVE BandInv'
    <3>1. PICK s \in SubIdx : s = sub_ptr[cur[c]] /\ searched_by[s] = {}
      BY <2>8, ProbesFresh DEF Settle
    <3>2. /\ pc[c] = "probe" /\ min_cnt[c] >= max_cnt[c]
          /\ pc' = [pc EXCEPT ![c] = "scan"]
          /\ cur' = [cur EXCEPT ![c] = @ + 1]
          /\ loop_count' = [loop_count EXCEPT ![s] = max_cnt[c]]
          /\ searched_by' = [searched_by EXCEPT ![s] = @ \cup {c}]
          /\ UNCHANGED <<exe_time, sub_ptr, min_cnt, max_cnt>>
      BY <2>8, <3>1 DEF Settle, Goto, inputs, plan
    <3>3. InBand(max_cnt[c], s)
      <4>1. BoundsOK(c)
        BY <3>2 DEF BandInv
      <4>2. min_cnt[c] \in Nat /\ max_cnt[c] \in Nat
        BY DEF WalkInv, WalkTypes
      <4>3. min_cnt[c] = max_cnt[c]
        BY <3>2, <4>1, <4>2 DEF BoundsOK
      <4> QED
        BY <3>1, <4>1, <4>3 DEF BoundsOK, InBand
    <3>4. ASSUME NEW t \in SubIdx, searched_by'[t] # {}
          PROVE  InBand(loop_count[t], t)'
      <4>1. InBand(loop_count'[t], t)
        <5>1. CASE t = s
          BY <3>2, <3>3, <5>1 DEF WalkInv, WalkTypes
        <5>2. CASE t # s
          BY <3>2, <3>4, <5>2 DEF BandInv, WalkInv, WalkTypes
        <5> QED
          BY <5>1, <5>2
      <4> QED
        BY <3>2, <4>1 DEF InBand, Target
    <3>5. ASSUME NEW d \in Cores, pc'[d] = "probe" PROVE BoundsOK(d)'
      <4>1. d # c /\ pc[d] = "probe" /\ cur'[d] = cur[d]
        BY <3>2, <3>5 DEF WalkInv, WalkTypes
      <4> QED
        BY <3>2, <4>1 DEF BandInv, BoundsOK, Target
    <3> QED
      BY <3>4, <3>5 DEF BandInv
  <2> QED
    BY <2>1, <2>3, <2>4, <2>5, <2>6, <2>7, <2>8 DEF Next, InitStep, Thread
<1>3. BandInv => SearchBand
  BY DEF BandInv, BoundsOK, SearchBand
<1> QED
  BY <1>1, <1>2, <1>3, PlanInvariant, WalkInvariant, PTL DEF Spec

-----------------------------------------------------------------------------
(***************************************************************************)
(* What E2E_init computes from the headers' tables.                        *)
(***************************************************************************)

\* Of the numbers a function gives a finite set, one is the largest.
LEMMA LargestValue ==
  ASSUME NEW S, IsFiniteSet(S), S # {}, NEW f, \A x \in S : f[x] \in Nat
  PROVE  \E x \in S : \A y \in S : f[x] >= f[y]
<1> DEFINE X == {T \in SUBSET S : T = {} \/ \E x \in T : \A y \in T : f[x] >= f[y]}
<1>1. ASSUME NEW T \in SUBSET S, \A x \in T : T \ {x} \in X PROVE T \in X
  <2> SUFFICES ASSUME T # {} PROVE \E x \in T : \A y \in T : f[x] >= f[y]
    OBVIOUS
  <2>1. PICK c \in T : TRUE
    OBVIOUS
  <2>2. CASE T \ {c} = {}
    <3>1. \A y \in T : f[c] >= f[y]
      BY <2>2
    <3> QED BY <3>1
  <2>3. CASE T \ {c} # {}
    <3>1. PICK m \in T \ {c} : \A y \in T \ {c} : f[m] >= f[y]
      BY <1>1, <2>3
    <3>2. f[m] \in Nat /\ f[c] \in Nat /\ \A y \in T : f[y] \in Nat
      OBVIOUS
    <3>3. CASE f[c] >= f[m]
      <4>1. \A y \in T : f[c] >= f[y]
        BY <3>1, <3>2, <3>3
      <4> QED BY <4>1
    <3>4. CASE f[m] >= f[c]
      <4>1. \A y \in T : f[m] >= f[y]
        BY <3>1, <3>2, <3>4
      <4> QED BY <4>1
    <3> QED BY <3>2, <3>3, <3>4
  <2> QED BY <2>2, <2>3
<1>2. SUBSET S \subseteq X
  <2> HIDE DEF X
  <2> QED BY <1>1, SubsetInduction
<1> QED BY <1>2

\* The two tables are finite, and the first has an entry for every subtask.
LEMMA Indices ==
  /\ IsFiniteSet(SubIdx) /\ IsFiniteSet(TaskIdx) /\ TaskIdx # {}
  /\ SubIdx \subseteq Nat /\ SubtaskTot \in Nat
  /\ \A i \in SubIdx : 0 <= i /\ i < SubtaskTot
  /\ \A s \in SubIdx : task_id[s] \in TaskIdx
<1>1. TaskTot \in Nat \ {0} /\ SubtaskTot \in Nat \ {0} /\ task_id \in [SubIdx -> TaskIdx]
  BY PlanAssumption
<1>2. 0 \in Int /\ TaskTot - 1 \in Int /\ SubtaskTot - 1 \in Int
  BY <1>1
<1>3. IsFiniteSet(0 .. TaskTot - 1) /\ IsFiniteSet(0 .. SubtaskTot - 1)
  BY <1>2, FS_Interval
<1>4. 0 \in 0 .. TaskTot - 1
  BY <1>1
<1> QED BY <1>1, <1>3, <1>4 DEF SubIdx, TaskIdx

\* The keys of the second sort grow along a task, and no task is empty.
KeysOK ==
  /\ \A s, t \in SubIdx : task_id[s] = task_id[t] /\ s < t =>
       cumulative_exe_time[s] < cumulative_exe_time[t]
  /\ \A s \in SubIdx : task_exe_time[task_id[s]] > 0

DataTypes ==
  /\ period \in [TaskIdx -> Periods] /\ exe_time \in [SubIdx -> ExeTimes]
  /\ cumulative_exe_time \in [SubIdx -> Nat] /\ task_exe_time \in [TaskIdx -> Nat]
  /\ hyper_period \in Nat

DataInv == DataTypes /\ (loader.step # "params" => KeysOK)

\* The parameters are natural numbers, and the keys of the second sort grow.
LEMMA SetParametersWorks ==
  ASSUME DataTypes, SetParameters
  PROVE  DataTypes' /\ KeysOK'
<1> DEFINE Sum(T) == SumFunctionOnSet(exe_time, T)
<1>1. /\ hyper_period' = CHOOSE p \in Range(period) : \A q \in Range(period) : p >= q
      /\ cumulative_exe_time' = [s \in SubIdx |-> Sum(UpTo(s))]
      /\ task_exe_time' = [i \in TaskIdx |-> Sum({s \in SubIdx : task_id[s] = i})]
      /\ UNCHANGED <<period, exe_time>>
  BY DEF SetParameters, inputs
<1>2. IsFiniteSet(SubIdx) /\ \A x \in SubIdx : exe_time[x] \in Nat \ {0}
  BY Indices, InputsNat DEF DataTypes
<1>3. \A T \in SUBSET SubIdx : Sum(T) \in Nat
  BY <1>2, SumGrows
<1>4. \A T \in SUBSET SubIdx : \A x \in T : Sum(T) = exe_time[x] + Sum(T \ {x})
  <2> SUFFICES ASSUME NEW T \in SUBSET SubIdx
               PROVE  \A x \in T : Sum(T) = exe_time[x] + Sum(T \ {x})
    OBVIOUS
  <2>1. IsFiniteSet(T) /\ \A x \in T : exe_time[x] \in Int
    BY <1>2, FS_Subset
  <2> QED BY <2>1, SumRemove
<1>5. ASSUME NEW U \in SUBSET SubIdx, NEW T \in SUBSET U, T # U PROVE Sum(T) < Sum(U)
  <2> DEFINE X == {V \in SUBSET SubIdx : T \subseteq V /\ T # V => Sum(T) < Sum(V)}
  <2>1. ASSUME NEW V \in SUBSET SubIdx, \A x \in V : V \ {x} \in X PROVE V \in X
    <3> SUFFICES ASSUME T \subseteq V, T # V PROVE Sum(T) < Sum(V)
      OBVIOUS
    <3>1. PICK x \in V : x \notin T
      OBVIOUS
    <3>2. Sum(V) = exe_time[x] + Sum(V \ {x}) /\ exe_time[x] \in Nat \ {0}
      BY <1>2, <1>4
    <3>3. Sum(T) \in Nat /\ Sum(V \ {x}) \in Nat
      BY <1>3
    <3>4. Sum(T) < Sum(V \ {x}) \/ T = V \ {x}
      BY <2>1, <3>1
    <3> HIDE DEF Sum
    <3>5. CASE T = V \ {x}
      BY <3>2, <3>3, <3>5
    <3>6. CASE Sum(T) < Sum(V \ {x})
      BY <3>2, <3>3, <3>6
    <3> QED BY <3>4, <3>5, <3>6
  <2>2. SUBSET SubIdx \subseteq X
    <3> HIDE DEF X
    <3> QED BY <1>2, <2>1, SubsetInduction
  <2>3. U \in X
    <3> HIDE DEF X
    <3> QED BY <2>2
  <2> QED BY <1>5, <2>3
<1> HIDE DEF Sum
<1>6. hyper_period' \in Nat
  <2>1. \A i \in TaskIdx : period[i] \in Nat
    BY InputsNat DEF DataTypes
  <2>2. PICK i \in TaskIdx : \A j \in TaskIdx : period[i] >= period[j]
    BY <2>1, Indices, LargestValue
  <2>3. Range(period) = {period[j] : j \in TaskIdx}
    BY DEF Range, DataTypes
  <2>4. \E p \in Range(period) : \A q \in Range(period) : p >= q
    BY <2>2, <2>3
  <2>5. hyper_period' \in Range(period)
    BY <1>1, <2>4
  <2> QED BY <2>1, <2>3, <2>5
<1>7. /\ \A s \in SubIdx : UpTo(s) \in SUBSET SubIdx
      /\ \A i \in TaskIdx : {s \in SubIdx : task_id[s] = i} \in SUBSET SubIdx
  BY DEF UpTo
<1>8. DataTypes'
  BY <1>1, <1>3, <1>6, <1>7 DEF DataTypes
<1>9. ASSUME NEW s \in SubIdx, NEW t \in SubIdx, task_id[s] = task_id[t], s < t
      PROVE  cumulative_exe_time'[s] < cumulative_exe_time'[t]
  <2>1. UpTo(s) \in SUBSET UpTo(t) /\ t \in UpTo(t) /\ t \notin UpTo(s)
    <3>1. s \in Nat /\ t \in Nat /\ \A r \in SubIdx : r \in Nat
      BY Indices
    <3>2. \A r \in SubIdx : r <= s => r <= t
      BY <1>9, <3>1
    <3>3. t <= t /\ ~(t <= s)
      BY <1>9, <3>1
    <3> QED BY <1>9, <3>2, <3>3 DEF UpTo
  <2>2. UpTo(s) # UpTo(t)
    BY <2>1
  <2> QED BY <1>1, <1>5, <1>7, <2>1, <2>2
<1>10. ASSUME NEW s \in SubIdx PROVE task_exe_time'[task_id[s]] > 0
  <2>1. PICK i \in TaskIdx : i = task_id[s]
    BY Indices
  <2>2. PICK T \in SUBSET SubIdx : T = {r \in SubIdx : task_id[r] = i}
    OBVIOUS
  <2>3. s \in T
    BY <2>1, <2>2
  <2>4. Sum(T) = exe_time[s] + Sum(T \ {s}) /\ Sum(T \ {s}) \in Nat
    BY <1>3, <1>4, <2>3
  <2>5. Sum(T) > 0
    BY <1>2, <2>4
  <2> QED BY <1>1, <2>1, <2>2, <2>5
<1> QED BY <1>8, <1>9, <1>10 DEF KeysOK

\* E2E_init computes the parameters once, from tables it does not change.
LEMMA DataInvariant == Spec => []DataInv
<1>1. Init => DataInv
  BY DEF Init, DataInv, DataTypes
<1>2. DataInv /\ [Next]_vars => DataInv'
  <2> SUFFICES ASSUME DataInv, [Next]_vars PROVE DataInv'
    OBVIOUS
  <2>1. CASE SetParameters
    BY <2>1, SetParametersWorks DEF DataInv
  <2>2. CASE UNCHANGED <<inputs, params>> /\ (loader.step = "params" => loader'.step = "params")
    BY <2>2 DEF DataInv, DataTypes, KeysOK, inputs, params
  <2>3. CASE SortByUtil \/ Assign \/ SortByDeadline \/ Rank \/ PointToSentinel \/ Spawn
             \/ StartCal \/ FreeTable \/ CancelCal
    <3>1. UNCHANGED <<inputs, params>> /\ loader.step # "params"
      BY <2>3 DEF SortByUtil, Assign, SortByDeadline, Rank, PointToSentinel, Spawn, StartCal,
         FreeTable, CancelCal
    <3> QED BY <2>2, <3>1
  <2>4. CASE CalTimerFunc \/ UNCHANGED vars
    <3>1. UNCHANGED <<inputs, params, loader>>
      BY <2>4 DEF CalTimerFunc, vars
    <3> QED BY <2>2, <3>1
  <2>5. ASSUME NEW c \in Cores, Thread(c) PROVE DataInv'
    <3>1. UNCHANGED <<inputs, params, loader>>
      BY <2>5 DEF Thread, ThreadEntry, Resume, NextSubtask, Probe, Settle, RunWild
    <3> QED BY <2>2, <3>1
  <2> QED BY <2>1, <2>3, <2>4, <2>5 DEF Next, InitStep
<1> QED BY <1>1, <1>2, PTL DEF Spec

-----------------------------------------------------------------------------
(***************************************************************************)
(* The ranks.  After the second sort no subtask comes before one that      *)
(* ranks before it, and the ranking loop counts down along each core.      *)
(***************************************************************************)
Ranked ==
  \A i, j \in SubIdx : i < j => ~RanksBefore(sub_ptr[j], sub_ptr[i])

\* The first n entries of sub_ptr have their priorities.
RanksKnown(n) ==
  \A i \in SubIdx : i < n =>
    priority[sub_ptr[i]] = TopPriority - (i - start_addr[core[sub_ptr[i]]])

RankInv ==
  /\ priority \in [SubIdx -> Int]
  /\ loader.step \notin BeforeRank => Ranked
  /\ loader.step = "rank" => RanksKnown(loader.at)
  /\ Planned => RanksKnown(SubtaskTot)

\* The second sort leaves the subtasks of a core in the order of their ranks.
LEMMA SortByDeadlineWorks ==
  ASSUME SortByDeadline, RankInv
  PROVE  RankInv'
<1>1. /\ \A i, j \in SubIdx : i < j => ~RanksBefore(sub_ptr'[j], sub_ptr'[i])
      /\ loader' = [step |-> "rank", at |-> 0]
      /\ UNCHANGED <<core, period, cumulative_exe_time, task_exe_time, priority>>
  BY DEF SortByDeadline, SortedBy, inputs, params
<1>2. Ranked'
  BY <1>1 DEF Ranked, RanksBefore, DeadlineKey, PeriodOf
<1>3. RanksKnown(loader.at)'
  BY <1>1, Indices DEF RanksKnown
<1> QED BY <1>1, <1>2, <1>3 DEF RankInv, Planned

\* One round of the ranking loop goes on from the priority before.
LEMMA RankWorks ==
  ASSUME PlanInv, RankInv, Rank
  PROVE  RankInv'
<1> PICK i \in SubIdx : loader.at = i
  BY PlanAssumption DEF Rank, PlanInv, TablesOK, SubIdx
<1> PICK s \in SubIdx : s = sub_ptr[i]
  BY DEF PlanInv, TablesOK
<1> PICK c \in Cores : c = core[s]
  BY DEF PlanInv, TablesOK
<1>1. /\ loader.step = "rank" /\ loader' = [loader EXCEPT !.at = @ + 1]
      /\ UNCHANGED <<sub_ptr, core, period, cumulative_exe_time, task_exe_time>>
  BY DEF Rank, inputs, params
<1>2. loader'.step = "rank" /\ loader'.at = i + 1 /\ i \in Nat
  BY <1>1, Indices DEF PlanInv, TablesOK
<1>3. Ranked'
  BY <1>1 DEF RankInv, BeforeRank, Ranked, RanksBefore, DeadlineKey, PeriodOf
<1>4. /\ RanksKnown(i) /\ StartsKnown(i) /\ InCoreOrder
      /\ \A k \in SubIdx : sub_ptr[k] \in SubIdx /\ core[sub_ptr[k]] \in Cores
      /\ \A k \in SubIdx : sub_ptr[k] = s => k = i
      /\ start_addr \in [Cores -> 0 .. SubtaskTot \cup {NoAddr}]
      /\ priority \in [SubIdx -> Int]
  BY <1>1, <1>2 DEF RankInv, PlanInv, TablesOK, BeforeRank
<1>5. TopPriority \in Nat
  BY PlanAssumption
<1>6. CASE BeginsCore(i)
  <2>1. /\ priority' = [priority EXCEPT ![s] = TopPriority]
        /\ start_addr' = [start_addr EXCEPT ![c] = i]
    BY <1>6 DEF Rank
  <2>2. \A k \in SubIdx : k < i => core[sub_ptr[k]] # c
    <3> SUFFICES ASSUME NEW k \in SubIdx, k < i PROVE core[sub_ptr[k]] # c
      OBVIOUS
    <3>1. i - 1 \in SubIdx /\ core[sub_ptr[i]] # core[sub_ptr[i - 1]]
      BY <1>6, Indices DEF BeginsCore, SubIdx
    <3>2. k <= i - 1 /\ i - 1 < i
      BY Indices
    <3>3. /\ core[sub_ptr[k]] \in Int /\ core[sub_ptr[i - 1]] \in Int
          /\ core[sub_ptr[i]] \in Int
      BY <1>4, <3>1, PlanAssumption DEF Cores
    <3>4. core[sub_ptr[k]] <= core[sub_ptr[i - 1]]
      BY <1>4, <3>1, <3>2, <3>3, Indices DEF InCoreOrder
    <3>5. core[sub_ptr[i - 1]] <= core[sub_ptr[i]]
      BY <1>4, <3>1, <3>2 DEF InCoreOrder
    <3> QED BY <3>1, <3>3, <3>4, <3>5
  <2>3. ASSUME NEW k \in SubIdx, k < i + 1
        PROVE  priority'[sub_ptr[k]] = TopPriority - (k - start_addr'[core[sub_ptr[k]]])
    <3>1. CASE k = i
      <4>1. priority'[s] = TopPriority /\ start_addr'[c] = i
        BY <1>4, <2>1
      <4> QED BY <1>5, <3>1, <4>1, Indices
    <3>2. CASE k # i
      <4>1. k < i /\ sub_ptr[k] # s /\ core[sub_ptr[k]] # c
        BY <1>4, <2>2, <2>3, <3>2, Indices
      <4>2. /\ priority'[sub_ptr[k]] = priority[sub_ptr[k]]
            /\ start_addr'[core[sub_ptr[k]]] = start_addr[core[sub_ptr[k]]]
        BY <1>4, <2>1, <4>1
      <4> QED BY <1>4, <4>1, <4>2 DEF RanksKnown
    <3> QED BY <3>1, <3>2
  <2>4. priority' \in [SubIdx -> Int]
    BY <1>4, <1>5, <2>1
  <2> QED BY <1>1, <1>2, <1>3, <2>3, <2>4 DEF RankInv, RanksKnown, Planned
<1>7. CASE ~BeginsCore(i)
  <2>1. /\ priority' = [priority EXCEPT ![s] = priority[sub_ptr[i - 1]] - 1]
        /\ start_addr' = start_addr
    BY <1>7 DEF Rank
  <2>2. i - 1 \in SubIdx /\ i - 1 < i /\ core[sub_ptr[i - 1]] = c
    BY <1>7, Indices DEF BeginsCore, SubIdx
  <2>3. start_addr[c] \in Int
    <3>1. start_addr[c] \in 0 .. i - 1
      BY <1>4, <2>2 DEF StartsKnown
    <3> QED BY <3>1
  <2>4. priority[sub_ptr[i - 1]] = TopPriority - ((i - 1) - start_addr[c])
    BY <1>4, <2>2 DEF RanksKnown
  <2>5. priority'[s] = TopPriority - (i - start_addr[c])
    <3>1. priority'[s] = priority[sub_ptr[i - 1]] - 1
      BY <1>4, <2>1
    <3> QED BY <1>2, <1>5, <2>3, <2>4, <3>1
  <2>6. ASSUME NEW k \in SubIdx, k < i + 1
        PROVE  priority'[sub_ptr[k]] = TopPriority - (k - start_addr'[core[sub_ptr[k]]])
    <3>1. CASE k = i
      BY <2>1, <2>5, <3>1
    <3>2. CASE k # i
      <4>1. k < i /\ sub_ptr[k] # s
        BY <1>4, <2>6, <3>2, Indices
      <4>2. priority'[sub_ptr[k]] = priority[sub_ptr[k]]
        BY <1>4, <2>1, <4>1
      <4> QED BY <1>4, <2>1, <4>1, <4>2 DEF RanksKnown
    <3> QED BY <3>1, <3>2
  <2>7. priority' \in [SubIdx -> Int]
    <3>1. priority[sub_ptr[i - 1]] - 1 \in Int
      BY <1>4, <2>2
    <3> QED BY <1>4, <2>1, <3>1
  <2> QED BY <1>1, <1>2, <1>3, <2>6, <2>7 DEF RankInv, RanksKnown, Planned
<1> QED BY <1>6, <1>7

\* The end of the ranking leaves every subtask ranked.
LEMMA PointToSentinelWorks ==
  ASSUME PlanInv, RankInv, PointToSentinel
  PROVE  RankInv'
<1>1. /\ start_addr' = [c \in Cores |-> StartOf(c)]
      /\ loader.step = "rank" /\ loader.at = SubtaskTot
      /\ loader' = [step |-> "spawn", at |-> 0]
      /\ UNCHANGED <<sub_ptr, core, period, cumulative_exe_time, task_exe_time, priority>>
  BY DEF PointToSentinel, inputs, params
<1>2. \A i \in SubIdx : start_addr'[core[sub_ptr[i]]] = start_addr[core[sub_ptr[i]]]
  <2> SUFFICES ASSUME NEW i \in SubIdx
               PROVE  start_addr'[core[sub_ptr[i]]] = start_addr[core[sub_ptr[i]]]
    OBVIOUS
  <2>1. PICK c \in Cores : c = core[sub_ptr[i]]
    BY DEF PlanInv, TablesOK
  <2>2. start_addr[c] \in 0 .. i
    BY <1>1, <2>1, Indices DEF PlanInv, StartsKnown
  <2> QED BY <1>1, <2>1, <2>2 DEF StartOf, NoAddr
<1>3. Ranked'
  BY <1>1 DEF RankInv, BeforeRank, Ranked, RanksBefore, DeadlineKey, PeriodOf
<1>4. RanksKnown(SubtaskTot)'
  BY <1>1, <1>2 DEF RankInv, RanksKnown
<1> QED BY <1>1, <1>3, <1>4 DEF RankInv

\* The ranking of E2E.c:199-206 gives every core decreasing priorities.
LEMMA RankInvariant == Spec => []RankInv
<1>1. Init => RankInv
  BY DEF Init, RankInv, BeforeRank, Planned
<1>2. PlanInv /\ RankInv /\ [Next]_vars => RankInv'
  <2> SUFFICES ASSUME PlanInv, RankInv, [Next]_vars PROVE RankInv'
    OBVIOUS
  <2>1. CASE SetParameters \/ SortByUtil \/ Assign
    <3>1. priority' = priority /\ loader'.step \in BeforeRank
      BY <2>1 DEF SetParameters, SortByUtil, Assign, plan, BeforeRank, PlanInv, TablesOK
    <3> QED BY <3>1 DEF RankInv, BeforeRank, Planned
  <2>2. CASE SortByDeadline \/ Rank \/ PointToSentinel
    BY <2>2, SortByDeadlineWorks, RankWorks, PointToSentinelWorks
  <2>3. CASE /\ UNCHANGED <<sub_ptr, core, period, cumulative_exe_time, task_exe_time,
                            priority, start_addr>>
             /\ \/ loader' = loader
                \/ Planned /\ Planned'
    BY <2>3 DEF RankInv, BeforeRank, Planned, Ranked, RanksKnown, RanksBefore, DeadlineKey,
       PeriodOf
  <2>4. CASE Spawn \/ StartCal \/ FreeTable \/ CancelCal
    <3>1. Planned /\ Planned'
      BY <2>4 DEF Spawn, StartCal, FreeTable, CancelCal, Planned, PlanInv, TablesOK
    <3>2. UNCHANGED <<inputs, params, plan>>
      BY <2>4 DEF Spawn, StartCal, FreeTable, CancelCal
    <3> QED BY <2>3, <3>1, <3>2 DEF inputs, params, plan
  <2>5. CASE CalTimerFunc \/ UNCHANGED vars
    <3>1. UNCHANGED <<inputs, params, plan, loader>>
      BY <2>5 DEF CalTimerFunc, vars
    <3> QED BY <2>3, <3>1 DEF inputs, params, plan
  <2>6. ASSUME NEW c \in Cores, Thread(c) PROVE RankInv'
    <3>1. UNCHANGED <<inputs, params, plan, loader>>
      BY <2>6 DEF Thread, ThreadEntry, Resume, NextSubtask, Probe, Settle, RunWild
    <3> QED BY <2>3, <3>1 DEF inputs, params, plan
  <2> QED BY <2>1, <2>2, <2>4, <2>5, <2>6 DEF Next, InitStep
<1> QED BY <1>1, <1>2, PlanInvariant, PTL DEF Spec

\* The smaller of two products of one number with others.
LEMMA LessTimes ==
  ASSUME NEW p \in Nat \ {0}, NEW a \in Nat, NEW b \in Nat, NEW e \in Nat \ {0}, a < b
  PROVE  (p * a) * e < (p * b) * e
<1>1. PICK d \in Nat : b = a + 1 + d
  OBVIOUS
<1>2. p * b = p * a + p + p * d /\ p * d \in Nat /\ p * a \in Nat
  BY <1>1
<1>3. PICK x \in Nat : x = p * a
  BY <1>2
<1>4. PICK y \in Nat : y = p * b
  BY <1>2
<1>5. PICK z \in Nat : y = x + 1 + z
  <2>1. y - x - 1 \in Nat /\ y = x + 1 + (y - x - 1)
    BY <1>2, <1>3, <1>4
  <2> QED BY <2>1
<1>6. y * e = x * e + e + z * e /\ z * e \in Nat
  BY <1>5
<1> QED BY <1>3, <1>4, <1>6

\* On one core the priorities differ, an earlier relative deadline has the
\* higher one, and a subtask outranks the later subtasks of its task: the two
\* sorts and the ranking of E2E.c:54-62, 199-206.
THEOREM PriorityOrderHolds == Spec => []PriorityOrder
<1>1. PlanInv /\ DataInv /\ RankInv => PriorityOrder
  <2> SUFFICES ASSUME PlanInv, DataInv, RankInv, Planned,
                      NEW s \in SubIdx, NEW t \in SubIdx, s # t, core[s] = core[t]
               PROVE  /\ priority[s] # priority[t]
                      /\ DeadlineKey(s, t) < DeadlineKey(t, s) => priority[s] > priority[t]
                      /\ task_id[s] = task_id[t] /\ s < t => priority[s] > priority[t]
    BY DEF PriorityOrder
  <2>1. PICK c \in Cores : c = core[s] /\ c = core[t]
    BY DEF PlanInv, TablesOK
  <2>2. PICK i \in SubIdx : sub_ptr[i] = s
    BY DEF PlanInv, TablesOK
  <2>3. PICK j \in SubIdx : sub_ptr[j] = t
    BY DEF PlanInv, TablesOK
  <2>4. /\ i # j /\ i \in Int /\ j \in Int
        /\ TopPriority \in Int /\ start_addr[c] \in Int
    <3>1. start_addr[c] \in 0 .. SubtaskTot
      BY DEF PlanInv
    <3> QED BY <2>2, <2>3, <3>1, Indices, PlanAssumption
  <2>5. /\ priority[s] = TopPriority - (i - start_addr[c])
        /\ priority[t] = TopPriority - (j - start_addr[c])
    BY <2>1, <2>2, <2>3, Indices DEF RankInv, RanksKnown
  <2>6. priority[s] # priority[t]
    BY <2>4, <2>5
  <2>7. ASSUME DeadlineKey(s, t) < DeadlineKey(t, s) PROVE priority[s] > priority[t]
    <3>1. RanksBefore(s, t)
      BY <2>1, <2>7 DEF RanksBefore
    <3>2. ~(j < i)
      BY <2>2, <2>3, <3>1 DEF RankInv, BeforeRank, Planned, Ranked
    <3> QED BY <2>4, <2>5, <3>2
  <2>8. ASSUME task_id[s] = task_id[t], s < t PROVE priority[s] > priority[t]
    <3>1. PICK p \in Nat \ {0} : p = PeriodOf(s) /\ p = PeriodOf(t)
      BY <2>8, Indices, InputsNat DEF PeriodOf, DataInv, DataTypes
    <3>2. PICK a \in Nat : a = cumulative_exe_time[s]
      BY DEF DataInv, DataTypes
    <3>3. PICK b \in Nat : b = cumulative_exe_time[t]
      BY DEF DataInv, DataTypes
    <3>4. PICK e \in Nat \ {0} : e = task_exe_time[task_id[s]] /\ e = task_exe_time[task_id[t]]
      BY <2>8, Indices DEF DataInv, DataTypes, KeysOK, Planned
    <3>5. a < b
      BY <2>8, <3>2, <3>3 DEF DataInv, KeysOK, Planned
    <3>6. DeadlineKey(s, t) = (p * a) * e /\ DeadlineKey(t, s) = (p * b) * e
      BY <3>1, <3>2, <3>3, <3>4 DEF DeadlineKey
    <3> QED BY <2>7, <3>5, <3>6, LessTimes
  <2> QED BY <2>6, <2>7, <2>8
<1> QED BY <1>1, PlanInvariant, DataInvariant, RankInvariant, PTL

-----------------------------------------------------------------------------
(***************************************************************************)
(* The admission test.  While subtasks are placed, agg_time of a core is   *)
(* the sum of the demands of those placed there.                           *)
(***************************************************************************)
DemandOf == [s \in SubIdx |-> Demand(s)]

NoWraps == \A s \in SubIdx : NoWrap(s)

\* The subtasks on c among the first n entries of sub_ptr.
Placed(n, c) ==
  {s \in SubIdx : core[s] = c /\ \E i \in SubIdx : i < n /\ sub_ptr[i] = s}

AdmitInv ==
  /\ agg_time \in [Cores -> Nat] /\ invalid \in BOOLEAN
  /\ loader.step \in {"params", "sort"} => \A c \in Cores : agg_time[c] = 0
  /\ loader.step = "assign" /\ ~invalid /\ NoWraps =>
       \A c \in Cores : /\ agg_time[c] = SumFunctionOnSet(DemandOf, Placed(loader.at, c))
                        /\ agg_time[c] <= hyper_period
  /\ loader.step \notin BeforeRank /\ ~invalid /\ NoWraps =>
       \A c \in Cores : SumFunctionOnSet(DemandOf, On(c)) <= hyper_period

\* A quotient of natural numbers is one.
LEMMA DivNat == ASSUME NEW x \in Nat, NEW p \in Nat \ {0} PROVE x \div p \in Nat
  OBVIOUS

\* What a subtask takes of a hyper period is a natural number.
LEMMA DemandNat ==
  ASSUME DataInv PROVE \A s \in SubIdx : Demand(s) \in Nat /\ DemandOf[s] = Demand(s)
<1> SUFFICES ASSUME NEW s \in SubIdx PROVE Demand(s) \in Nat
  BY DEF DemandOf
<1>1. PICK p \in Nat \ {0} : p = PeriodOf(s)
  BY Indices, InputsNat DEF PeriodOf, DataInv, DataTypes
<1>2. exe_time[s] * hyper_period \in Nat
  <2>1. exe_time[s] \in Nat /\ hyper_period \in Nat
    BY InputsNat DEF DataInv, DataTypes
  <2> QED BY <2>1
<1>3. (exe_time[s] * hyper_period) % UintSize \in Nat
  <2>1. PICK x \in Nat : x = exe_time[s] * hyper_period
    BY <1>2
  <2> QED BY <2>1, PlanAssumption
<1> QED BY <1>1, <1>3, DivNat DEF Demand

\* One round of the first-fit loop keeps every core's account.
LEMMA AssignWorks ==
  ASSUME PlanInv, DataInv, AdmitInv, Assign
  PROVE  AdmitInv'
<1>1. PICK n \in SubIdx : loader.at = n
  BY PlanAssumption DEF Assign, PlanInv, TablesOK, SubIdx
<1>2. PICK s \in SubIdx : s = sub_ptr[n]
  BY DEF PlanInv, TablesOK
<1>3. /\ loader.step = "assign" /\ loader' = [loader EXCEPT !.at = @ + 1]
      /\ UNCHANGED <<inputs, params, sub_ptr>>
  BY DEF Assign
<1>4. loader'.step = "assign" /\ loader'.at = n + 1 /\ n \in Nat
  BY <1>1, <1>3, Indices DEF PlanInv, TablesOK
<1>5. DemandOf' = DemandOf /\ hyper_period' = hyper_period /\ (NoWraps' <=> NoWraps)
  BY <1>3 DEF DemandOf, Demand, PeriodOf, inputs, params, NoWraps, NoWrap
<1>6. Demand(s) \in Nat /\ DemandOf[s] = Demand(s) /\ hyper_period \in Nat
  BY DemandNat DEF DataInv, DataTypes
<1>7. CASE \A c \in Cores : ~Fits(s, c)
  <2>1. /\ agg_time' = [agg_time EXCEPT ![0] = hyper_period] /\ invalid'
    BY <1>1, <1>2, <1>7 DEF Assign
  <2>2. agg_time' \in [Cores -> Nat]
    BY <1>6, <2>1 DEF AdmitInv
  <2> QED BY <1>4, <2>1, <2>2 DEF AdmitInv, BeforeRank
<1>8. CASE \E c \in Cores : Fits(s, c)
  <2>1. PICK c \in Cores : /\ Fits(s, c) /\ core' = [core EXCEPT ![s] = c]
                           /\ agg_time' = [agg_time EXCEPT ![c] = Load(s, c)]
                           /\ UNCHANGED invalid
    BY <1>1, <1>2, <1>8 DEF Assign
  <2>2. agg_time' \in [Cores -> Nat]
    <3>1. Load(s, c) \in Nat
      BY <1>6, PlanAssumption DEF AdmitInv, Load
    <3> QED BY <2>1, <3>1 DEF AdmitInv
  <2>3. ASSUME ~invalid, NoWraps, NEW d \in Cores
        PROVE  /\ agg_time'[d] = SumFunctionOnSet(DemandOf, Placed(n + 1, d)')
               /\ agg_time'[d] <= hyper_period
    <3>1. /\ agg_time[d] = SumFunctionOnSet(DemandOf, Placed(n, d))
          /\ agg_time[d] <= hyper_period /\ agg_time[d] \in Nat
      BY <1>1, <1>3, <2>3 DEF AdmitInv
    <3>2. \A i \in SubIdx : i < n + 1 <=> i < n \/ i = n
      BY <1>4, Indices
    <3>3. s \notin Placed(n, d)
      BY <1>2, <1>4, Indices DEF Placed, PlanInv, TablesOK
    <3>4. \A r \in SubIdx \ {s} : core'[r] = core[r]
      BY <2>1 DEF PlanInv, TablesOK
    <3>5. core'[s] = c
      BY <2>1 DEF PlanInv, TablesOK
    <3>6. CASE d = c
      <4>1. Placed(n + 1, d)' = Placed(n, d) \cup {s}
        BY <1>2, <1>3, <3>2, <3>4, <3>5, <3>6 DEF Placed
      <4>2. PICK T \in SUBSET SubIdx : T = Placed(n, d) \cup {s}
        BY DEF Placed
      <4>3. IsFiniteSet(T) /\ \A x \in T : DemandOf[x] \in Int
        <5>1. IsFiniteSet(T)
          BY Indices, FS_Subset
        <5>2. \A x \in SubIdx : DemandOf[x] \in Nat
          BY DemandNat
        <5> QED BY <5>1, <5>2
      <4>4. SumFunctionOnSet(DemandOf, T) = DemandOf[s] + SumFunctionOnSet(DemandOf, T \ {s})
        BY <4>2, <4>3, SumRemove
      <4>5. T \ {s} = Placed(n, d)
        BY <3>3, <4>2
      <4>a. Load(s, d) = agg_time[d] + Demand(s)
        <5>1. hyper_period + Demand(s) < UintSize
          BY <2>3 DEF NoWraps, NoWrap
        <5>2. agg_time[d] + Demand(s) \in 0 .. UintSize - 1
          BY <1>6, <3>1, <5>1, PlanAssumption
        <5> QED BY <5>2, PlanAssumption DEF Load
      <4>6. agg_time'[d] = agg_time[d] + Demand(s)
        BY <2>1, <3>6, <4>a DEF AdmitInv
      <4>7. agg_time[d] + Demand(s) <= hyper_period
        BY <2>1, <3>6, <4>a DEF Fits
      <4>8. PICK x \in Nat, y \in Nat : x = agg_time[d] /\ y = Demand(s)
        BY <1>6, <3>1
      <4>9. SumFunctionOnSet(DemandOf, Placed(n + 1, d)') = y + x
        BY <1>6, <3>1, <4>1, <4>2, <4>4, <4>5, <4>8
      <4>10. agg_time'[d] = x + y /\ x + y <= hyper_period /\ x + y = y + x
        BY <4>6, <4>7, <4>8
      <4> QED BY <4>9, <4>10
    <3>7. CASE d # c
      <4>1. Placed(n + 1, d)' = Placed(n, d)
        BY <1>2, <1>3, <3>2, <3>3, <3>4, <3>5, <3>7 DEF Placed
      <4>2. agg_time'[d] = agg_time[d]
        BY <2>1, <3>7 DEF AdmitInv
      <4> QED BY <3>1, <4>1, <4>2
    <3> QED BY <3>6, <3>7
  <2> QED BY <1>4, <1>5, <2>1, <2>2, <2>3 DEF AdmitInv, BeforeRank
<1> QED BY <1>7, <1>8

\* The first-fit loop (E2E.c:187-196) keeps every core's account.
LEMMA AdmitInvariant == Spec => []AdmitInv
<1>1. Init => AdmitInv
  <2> SUFFICES ASSUME Init PROVE AdmitInv
    OBVIOUS
  <2>1. loader.step = "params" /\ invalid = FALSE /\ agg_time = [c \in Cores |-> 0]
    BY DEF Init
  <2>2. agg_time \in [Cores -> Nat] /\ \A c \in Cores : agg_time[c] = 0
    BY <2>1
  <2> QED BY <2>1, <2>2 DEF AdmitInv, BeforeRank
<1>2. PlanInv /\ DataInv /\ AdmitInv /\ [Next]_vars => AdmitInv'
  <2> SUFFICES ASSUME PlanInv, DataInv, AdmitInv, [Next]_vars PROVE AdmitInv'
    OBVIOUS
  <2>1. CASE SetParameters
    <3>1. UNCHANGED <<agg_time, invalid>> /\ loader.step = "params" /\ loader'.step = "sort"
      BY <2>1 DEF SetParameters, plan, PlanInv, TablesOK
    <3> QED BY <3>1 DEF AdmitInv, BeforeRank
  <2>2. CASE SortByUtil
    <3>1. /\ UNCHANGED <<agg_time, invalid, hyper_period>> /\ loader.step = "sort"
          /\ loader' = [step |-> "assign", at |-> 0]
      BY <2>2 DEF SortByUtil, params
    <3>2. \A c \in Cores : Placed(0, c)' = {}
      BY Indices DEF Placed
    <3>3. hyper_period \in Nat /\ \A c \in Cores : agg_time[c] = 0
      BY <3>1 DEF AdmitInv, DataInv, DataTypes
    <3>4. \A c \in Cores : SumFunctionOnSet(DemandOf', Placed(0, c)') = 0
      BY <3>2, SumEmpty
    <3> QED BY <3>1, <3>3, <3>4 DEF AdmitInv, BeforeRank
  <2>3. CASE Assign
    BY <2>3, AssignWorks
  <2>4. CASE SortByDeadline
    <3>1. /\ UNCHANGED <<agg_time, invalid, hyper_period, inputs, core>>
          /\ loader.step = "assign" /\ loader.at = SubtaskTot
          /\ loader' = [step |-> "rank", at |-> 0]
      BY <2>4 DEF SortByDeadline, params
    <3>2. \A c \in Cores : Placed(SubtaskTot, c) = On(c)
      <4>1. \A s \in SubIdx : \E i \in SubIdx : i < SubtaskTot /\ sub_ptr[i] = s
        BY Indices DEF PlanInv, TablesOK
      <4> QED BY <4>1 DEF Placed, On
    <3>3. /\ DemandOf' = DemandOf /\ \A c \in Cores : On(c)' = On(c)
          /\ NoWraps' <=> NoWraps
      BY <3>1 DEF DemandOf, Demand, PeriodOf, inputs, On, NoWraps, NoWrap
    <3> QED BY <3>1, <3>2, <3>3 DEF AdmitInv, BeforeRank
  <2>5. CASE /\ UNCHANGED <<agg_time, invalid, inputs, params, core>>
             /\ \/ loader.step \notin BeforeRank /\ loader'.step \notin BeforeRank
                \/ UNCHANGED <<sub_ptr, loader>>
    <3>1. /\ DemandOf' = DemandOf /\ hyper_period' = hyper_period
          /\ \A c \in Cores : On(c)' = On(c)
          /\ NoWraps' <=> NoWraps
      BY <2>5 DEF DemandOf, Demand, PeriodOf, inputs, params, On, NoWraps, NoWrap
    <3>2. CASE loader.step \notin BeforeRank /\ loader'.step \notin BeforeRank
      BY <2>5, <3>1, <3>2 DEF AdmitInv, BeforeRank
    <3>3. CASE UNCHANGED <<sub_ptr, loader>>
      <4>1. \A c \in Cores : Placed(loader.at, c)' = Placed(loader.at, c)
        BY <2>5, <3>3 DEF Placed
      <4> QED BY <2>5, <3>1, <3>3, <4>1 DEF AdmitInv
    <3> QED BY <2>5, <3>2, <3>3
  <2>6. CASE Rank \/ PointToSentinel \/ Spawn \/ StartCal \/ FreeTable \/ CancelCal
    <3>1. /\ UNCHANGED <<agg_time, invalid, inputs, params, core>>
          /\ loader.step \notin BeforeRank /\ loader'.step \notin BeforeRank
      BY <2>6 DEF Rank, PointToSentinel, Spawn, StartCal, FreeTable, CancelCal, plan,
         BeforeRank, PlanInv, TablesOK
    <3> QED BY <2>5, <3>1
  <2>7. CASE CalTimerFunc \/ UNCHANGED vars
    <3>1. UNCHANGED <<inputs, params, plan, loader>>
      BY <2>7 DEF CalTimerFunc, vars
    <3> QED BY <2>5, <3>1 DEF plan
  <2>8. ASSUME NEW c \in Cores, Thread(c) PROVE AdmitInv'
    <3>1. UNCHANGED <<inputs, params, plan, loader>>
      BY <2>8 DEF Thread, ThreadEntry, Resume, NextSubtask, Probe, Settle, RunWild
    <3> QED BY <2>5, <3>1 DEF plan
  <2> QED BY <2>1, <2>2, <2>3, <2>4, <2>6, <2>7, <2>8 DEF Next, InitStep
<1> QED BY <1>1, <1>2, PlanInvariant, DataInvariant, PTL DEF Spec

\* Division undoes multiplication.
LEMMA DivTimes ==
  ASSUME NEW p \in Nat \ {0}, NEW k \in Nat
  PROVE  (p * k) \div p = k
<1>1. PICK x \in Nat : x = p * k
  <2>1. p * k \in Nat
    OBVIOUS
  <2> QED BY <2>1
<1>2. PICK d \in Int : d = x \div p
  OBVIOUS
<1>3. PICK r \in 0 .. p - 1 : r = x % p
  OBVIOUS
<1>4. x = p * d + r
  BY <1>2, <1>3
<1>5. d > k \/ d < k \/ d = k
  OBVIOUS
<1>6. CASE d > k
  <2>1. PICK e \in Nat : d = k + 1 + e
    BY <1>6
  <2>2. p * d = p * k + p + p * e /\ p * e >= 0
    BY <2>1
  <2> QED BY <1>1, <1>4, <2>2
<1>7. CASE d < k
  <2>1. PICK e \in Nat : k = d + 1 + e
    BY <1>7
  <2>2. p * k = p * d + p + p * e /\ p * e >= 0
    BY <2>1
  <2> QED BY <1>1, <1>4, <2>2
<1> QED BY <1>1, <1>2, <1>5, <1>6, <1>7

\* What is asked in a span that the period divides.
LEMMA DemandDivides ==
  ASSUME NEW a \in Nat, NEW h \in Nat, NEW p \in Nat \ {0}, h % p = 0
  PROVE  (a * h) \div p = a * (h \div p)
<1>1. h = p * (h \div p) + (h % p) /\ h \div p \in Nat
  BY DivNat
<1>2. PICK q \in Nat : q = h \div p
  BY <1>1
<1>3. h = p * q
  BY <1>1, <1>2
<1>4. a * h = p * (a * q) /\ a * q \in Nat
  BY <1>3
<1>5. (p * (a * q)) \div p = a * q
  BY <1>4, DivTimes
<1> QED BY <1>2, <1>4, <1>5

\* The admission test of E2E.c:187-196: where every period divides the
\* longest one and 32 bits hold the numbers it is made on, no core of a set that was not reported unschedulable has to
\* work longer than a hyper period in a hyper period.
THEOREM NotOverbookedHolds == Spec => []NotOverbooked
<1>1. PlanInv /\ DataInv /\ AdmitInv => NotOverbooked
  <2> SUFFICES ASSUME PlanInv, DataInv, AdmitInv, Planned, ~invalid,
                      NoWraps, \A i \in TaskIdx : hyper_period % period[i] = 0,
                      NEW c \in Cores
               PROVE  WorkIn(hyper_period, c) <= hyper_period
    BY DEF NotOverbooked, NoWraps
  <2> DEFINE w == [s \in SubIdx |-> exe_time[s] * (hyper_period \div PeriodOf(s))]
  <2>1. On(c) \in SUBSET SubIdx /\ IsFiniteSet(On(c))
    BY Indices, FS_Subset DEF On
  <2>2. ASSUME NEW s \in SubIdx PROVE w[s] = DemandOf[s]
    <3>1. PICK p \in Nat \ {0} : p = PeriodOf(s) /\ hyper_period % p = 0
      BY Indices, InputsNat DEF PeriodOf, DataInv, DataTypes
    <3>2. exe_time[s] \in Nat /\ hyper_period \in Nat
      BY InputsNat DEF DataInv, DataTypes
    <3>3. PICK a \in Nat, h \in Nat : a = exe_time[s] /\ h = hyper_period
      BY <3>2
    <3>4. w[s] = a * (h \div p) /\ DemandOf[s] = (a * h) \div p
      <4>1. a * h < UintSize /\ a * h \in Nat
        BY <3>3 DEF NoWraps, NoWrap
      <4>2. (a * h) % UintSize = a * h
        <5>1. PICK x \in Nat : x = a * h
          BY <4>1
        <5> QED BY <4>1, <5>1, PlanAssumption
      <4> QED BY <3>1, <3>3, <4>2 DEF DemandOf, Demand
    <3>5. (a * h) \div p = a * (h \div p)
      <4>1. h % p = 0
        BY <3>1, <3>3
      <4> QED BY <4>1, DemandDivides, ZenonT(30)
    <3> QED BY <3>4, <3>5
  <2>3. SumFunctionOnSet(DemandOf, On(c)) = SumFunctionOnSet(w, On(c))
    <3>1. \A s \in On(c) : DemandOf[s] \in Int /\ w[s] = DemandOf[s]
      BY <2>1, <2>2, DemandNat
    <3> HIDE DEF w
    <3> QED BY <2>1, <3>1, SumSame
  <2>4. SumFunctionOnSet(DemandOf, On(c)) <= hyper_period
    BY DEF AdmitInv, BeforeRank, Planned
  <2> QED BY <2>3, <2>4 DEF WorkIn
<1> QED BY <1>1, PlanInvariant, DataInvariant, AdmitInvariant, PTL

-----------------------------------------------------------------------------
(***************************************************************************)
(* The ranges of the variables: what the invariants above leave open.      *)
(***************************************************************************)
RangeInv ==
  /\ min_cnt \in [Cores -> 0 .. MaxCnt] /\ max_cnt \in [Cores -> 0 .. MaxCnt]
  /\ \A c \in Cores : pc[c] = "probe" => min_cnt[c] <= max_cnt[c]
  /\ loop_count \in [SubIdx -> 0 .. MaxCnt]
  /\ freed \in BOOLEAN
  /\ cal_timer \in {"raw", "armed", "idle"}
  /\ woken \in [Cores -> BOOLEAN]
  /\ loader.at \in 0 .. SubtaskTot \cup 0 .. CoreNum

\* The middle of a search lies between its ends.
LEMMA MidBetween ==
  ASSUME NEW a \in Nat, NEW b \in Nat, a < b
  PROVE  (a + b) \div 2 \in a .. b - 1
OBVIOUS

\* A step of a calibration thread keeps its bisection in its span.
LEMMA ThreadKeepsRanges ==
  ASSUME PlanInv, WalkInv, RangeInv, NEW c \in Cores, Thread(c)
  PROVE  RangeInv'
<1>1. UNCHANGED <<loader, freed, cal_timer>>
  BY DEF Thread, ThreadEntry, Resume, NextSubtask, Probe, Settle, RunWild
<1>2. MaxCnt \in Nat /\ pc \in [Cores -> Places]
  BY PlanAssumption DEF WalkInv, WalkTypes
<1>3. CASE ThreadEntry(c) \/ Resume(c) \/ RunWild(c)
  <2>1. /\ UNCHANGED <<min_cnt, max_cnt, loop_count>> /\ woken' \in [Cores -> BOOLEAN]
        /\ \E p \in Places \ {"probe"} : pc' = [pc EXCEPT ![c] = p]
    BY <1>3 DEF ThreadEntry, Resume, RunWild, result, RangeInv, Goto, Places
  <2>2. \A d \in Cores : pc'[d] = "probe" => pc[d] = "probe"
    BY <1>2, <2>1
  <2> QED BY <1>1, <2>1, <2>2 DEF RangeInv
<1>4. CASE NextSubtask(c)
  <2>1. UNCHANGED <<woken, loop_count>>
    BY <1>4 DEF NextSubtask, result
  <2>2. CASE CoreAt(cur[c]) = my_core[c]
    <3>1. /\ pc' = [pc EXCEPT ![c] = "probe"]
          /\ min_cnt' = [min_cnt EXCEPT ![c] = 0] /\ max_cnt' = [max_cnt EXCEPT ![c] = MaxCnt]
      BY <1>4, <2>2 DEF NextSubtask, Goto
    <3>2. min_cnt' \in [Cores -> 0 .. MaxCnt] /\ max_cnt' \in [Cores -> 0 .. MaxCnt]
      BY <1>2, <3>1 DEF RangeInv
    <3>3. \A d \in Cores : pc'[d] = "probe" => min_cnt'[d] <= max_cnt'[d]
      BY <1>2, <3>1 DEF RangeInv
    <3> QED BY <1>1, <2>1, <3>2, <3>3 DEF RangeInv
  <2>3. CASE CoreAt(cur[c]) # my_core[c]
    <3>1. pc' = [pc EXCEPT ![c] = "done"] /\ UNCHANGED <<min_cnt, max_cnt>>
      BY <1>4, <2>3 DEF NextSubtask, Goto
    <3>2. \A d \in Cores : pc'[d] = "probe" => pc[d] = "probe"
      BY <1>2, <3>1
    <3> QED BY <1>1, <2>1, <3>1, <3>2 DEF RangeInv
  <2> QED BY <2>2, <2>3
<1>5. CASE Probe(c)
  <2>1. PICK s \in SubIdx : s = sub_ptr[cur[c]]
    BY <1>5, ProbesFresh DEF Probe
  <2>2. PICK m \in Nat : /\ m = Mid(c) /\ m \in min_cnt[c] .. max_cnt[c] - 1
                         /\ m \in 0 .. MaxCnt /\ m + 1 \in 0 .. MaxCnt
    <3>1. PICK a \in 0 .. MaxCnt, b \in 0 .. MaxCnt : a = min_cnt[c] /\ b = max_cnt[c] /\ a < b
      BY <1>5 DEF Probe, RangeInv
    <3>2. (a + b) \div 2 \in a .. b - 1
      BY <1>2, <3>1, MidBetween
    <3> QED BY <1>2, <3>1, <3>2 DEF Mid
  <2>3. /\ loop_count' = [loop_count EXCEPT ![s] = m] /\ UNCHANGED <<pc, woken>>
        /\ \/ max_cnt' = [max_cnt EXCEPT ![c] = m] /\ UNCHANGED min_cnt
           \/ min_cnt' = [min_cnt EXCEPT ![c] = m + 1] /\ UNCHANGED max_cnt
    BY <1>5, <2>1, <2>2 DEF Probe
  <2>4. /\ min_cnt' \in [Cores -> 0 .. MaxCnt] /\ max_cnt' \in [Cores -> 0 .. MaxCnt]
        /\ loop_count' \in [SubIdx -> 0 .. MaxCnt]
    BY <2>2, <2>3 DEF RangeInv
  <2>5. ASSUME NEW d \in Cores, pc[d] = "probe" PROVE min_cnt'[d] <= max_cnt'[d]
    <3>1. CASE d # c
      <4>1. min_cnt'[d] = min_cnt[d] /\ max_cnt'[d] = max_cnt[d]
        BY <2>3, <3>1 DEF RangeInv
      <4> QED BY <2>5, <4>1 DEF RangeInv
    <3>2. CASE d = c
      <4>1. PICK a \in 0 .. MaxCnt, b \in 0 .. MaxCnt : a = min_cnt[c] /\ b = max_cnt[c]
        BY DEF RangeInv
      <4>2. \/ min_cnt'[c] = a /\ max_cnt'[c] = m
            \/ min_cnt'[c] = m + 1 /\ max_cnt'[c] = b
        BY <2>3, <4>1 DEF RangeInv
      <4> QED BY <1>2, <2>2, <3>2, <4>1, <4>2
    <3> QED BY <3>1, <3>2
  <2> QED BY <1>1, <2>3, <2>4, <2>5 DEF RangeInv
<1>6. CASE Settle(c)
  <2>1. PICK s \in SubIdx : s = sub_ptr[cur[c]]
    BY <1>6, ProbesFresh DEF Settle
  <2>2. /\ loop_count' = [loop_count EXCEPT ![s] = max_cnt[c]]
        /\ UNCHANGED <<woken, min_cnt, max_cnt>> /\ pc' = [pc EXCEPT ![c] = "scan"]
    BY <1>6, <2>1 DEF Settle, Goto
  <2>3. loop_count' \in [SubIdx -> 0 .. MaxCnt]
    BY <2>2 DEF RangeInv
  <2>4. \A d \in Cores : pc'[d] = "probe" => pc[d] = "probe"
    BY <1>2, <2>2
  <2> QED BY <1>1, <2>2, <2>3, <2>4 DEF RangeInv
<1> QED BY <1>3, <1>4, <1>5, <1>6 DEF Thread

\* The loops of E2E_init and the bisections end where they should.
LEMMA RangeInvariant == Spec => []RangeInv
<1>1. Init => RangeInv
  <2> SUFFICES ASSUME Init PROVE RangeInv
    OBVIOUS
  <2>1. 0 \in 0 .. MaxCnt /\ 0 \in 0 .. SubtaskTot
    BY PlanAssumption
  <2>2. /\ min_cnt = [c \in Cores |-> 0] /\ max_cnt = [c \in Cores |-> 0]
        /\ loop_count = [s \in SubIdx |-> 0] /\ loader.at = 0
        /\ freed = FALSE /\ cal_timer = "raw" /\ woken = [c \in Cores |-> FALSE]
        /\ \A c \in Cores : pc[c] = "none"
    BY DEF Init
  <2>3. min_cnt \in [Cores -> 0 .. MaxCnt] /\ max_cnt \in [Cores -> 0 .. MaxCnt]
    BY <2>1, <2>2
  <2>4. loop_count \in [SubIdx -> 0 .. MaxCnt] /\ woken \in [Cores -> BOOLEAN]
    BY <2>1, <2>2
  <2> QED BY <2>1, <2>2, <2>3, <2>4 DEF RangeInv
<1>2. PlanInv /\ WalkInv /\ RangeInv /\ [Next]_vars => RangeInv'
  <2> SUFFICES ASSUME PlanInv, WalkInv, RangeInv, [Next]_vars PROVE RangeInv'
    OBVIOUS
  <2>0. SubtaskTot \in Nat /\ CoreNum \in Nat /\ loader \in [step : Steps, at : Nat]
    BY PlanAssumption DEF PlanInv, TablesOK
  <2>1. CASE SetParameters \/ SortByUtil \/ Assign \/ SortByDeadline \/ Rank \/ PointToSentinel
    <3>1. UNCHANGED <<thread, result, freed, cal_timer>>
      BY <2>1 DEF SetParameters, SortByUtil, Assign, SortByDeadline, Rank, PointToSentinel
    <3>2. loader'.at \in 0 .. SubtaskTot \cup 0 .. CoreNum
      <4>1. CASE SetParameters
        BY <2>0, <4>1 DEF SetParameters, RangeInv
      <4>2. CASE SortByUtil \/ SortByDeadline \/ PointToSentinel
        <5>1. loader'.at = 0
          BY <4>2 DEF SortByUtil, SortByDeadline, PointToSentinel
        <5> QED BY <2>0, <5>1
      <4>3. CASE Assign \/ Rank
        <5>1. loader'.at = loader.at + 1 /\ loader.at < SubtaskTot
          BY <2>0, <4>3 DEF Assign, Rank
        <5>2. loader.at \in Nat
          BY <2>0
        <5> QED BY <2>0, <5>1, <5>2
      <4> QED BY <2>1, <4>1, <4>2, <4>3
    <3> QED BY <3>1, <3>2 DEF RangeInv, thread, result
  <2>2. CASE Spawn
    <3>1. /\ pc' = [pc EXCEPT ![loader.at] = "new"] /\ loader.at < CoreNum
          /\ loader'.at = loader.at + 1 /\ loader.at \in Nat
          /\ UNCHANGED <<woken, min_cnt, max_cnt, loop_count, freed, cal_timer>>
      BY <2>0, <2>2 DEF Spawn, result
    <3>2. loader'.at \in 0 .. CoreNum
      BY <2>0, <3>1
    <3>3. \A d \in Cores : pc'[d] = "probe" => pc[d] = "probe"
      BY <3>1 DEF WalkInv, WalkTypes
    <3> QED BY <3>1, <3>2, <3>3 DEF RangeInv
  <2>3. CASE StartCal \/ FreeTable \/ CancelCal
    <3>1. /\ loader'.at = loader.at /\ UNCHANGED <<thread, result>>
          /\ freed' \in BOOLEAN /\ cal_timer' \in {"raw", "armed", "idle"}
      BY <2>0, <2>3 DEF StartCal, FreeTable, CancelCal, RangeInv
    <3> QED BY <3>1 DEF RangeInv, thread, result
  <2>4. CASE CalTimerFunc
    <3>1. /\ UNCHANGED <<pc, min_cnt, max_cnt, result, loader, freed>>
          /\ cal_timer' = "idle" /\ woken' = [c \in Cores |-> pc[c] = "sched"]
      BY <2>4 DEF CalTimerFunc
    <3>2. woken' \in [Cores -> BOOLEAN]
      BY <3>1
    <3> QED BY <3>1, <3>2 DEF RangeInv, result
  <2>5. ASSUME NEW c \in Cores, Thread(c) PROVE RangeInv'
    BY <2>5, ThreadKeepsRanges
  <2>6. CASE UNCHANGED vars
    BY <2>6 DEF vars, thread, result, RangeInv
  <2> QED BY <2>1, <2>2, <2>3, <2>4, <2>5, <2>6 DEF Next, InitStep
<1> QED BY <1>1, <1>2, PlanInvariant, WalkInvariant, PTL DEF Spec

\* Every variable keeps to its range: the index of E2E_init's loops
\* (E2E.c:177-209) and the place of each calibration thread (E2E.c:75-93) end
\* at the sentinel, a loop count never leaves the span of the bisection, and
\* the parameters computed from the headers are natural numbers.
THEOREM TypeCorrect == Spec => []TypeOK
<1>1. PlanInv /\ WalkInv /\ DataInv /\ RankInv /\ AdmitInv /\ RangeInv => TypeOK
  <2> SUFFICES ASSUME PlanInv, WalkInv, DataInv, RankInv, AdmitInv, RangeInv PROVE TypeOK
    OBVIOUS
  <2>1. loader \in [step : Steps, at : 0 .. SubtaskTot \cup 0 .. CoreNum]
    BY DEF PlanInv, TablesOK, RangeInv
  <2>2. /\ cumulative_exe_time \in [SubIdx -> Nat] /\ task_exe_time \in [TaskIdx -> Nat]
        /\ hyper_period \in Nat
    BY DEF DataInv, DataTypes
  <2> QED BY <2>1, <2>2 DEF TypeOK, PlanInv, TablesOK, WalkInv, WalkTypes, RankInv,
             AdmitInv, RangeInv
<1> QED BY <1>1, PlanInvariant, WalkInvariant, DataInvariant, RankInvariant,
           AdmitInvariant, RangeInvariant, PTL
=============================================================================
