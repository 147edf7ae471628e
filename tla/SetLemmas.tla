------------------------------ MODULE SetLemmas ------------------------------
(* Facts that the proofs of the components share: about the extremes of     *)
(* finite sets of numbers, about the sums of the community module Functions *)
(* (SumFunctionOnSet), and about division and multiplication, which the     *)
(* provers know little of.                                                  *)
EXTENDS Integers, FiniteSets, FiniteSetsExt, Functions, FiniteSetTheorems,
        WellFoundedInduction, TLAPS

\* Max of a bounded non-empty set of naturals is its greatest element (the
\* newest event id of EventNotify).
LEMMA MaxIsGreatest ==
  ASSUME NEW N \in Nat, NEW S \in SUBSET (0..N), S # {}
  PROVE  Max(S) \in S /\ \A y \in S : Max(S) >= y
<1> DEFINE Above(x) == x..N
           T == {Above(x) : x \in S}
<1>1. T \subseteq FiniteSubsetsOf(Nat)
  BY FS_Interval DEF FiniteSubsetsOf
<1>2. T # {}
  OBVIOUS
<1>3. IsWellFoundedOn(StrictSubsetOrdering(Nat), FiniteSubsetsOf(Nat))
  BY FS_StrictSubsetOrderingWellFounded
<1> HIDE DEF T
<1>4. PICK I \in T : \A J \in T : ~ (<<J, I>> \in StrictSubsetOrdering(Nat))
  BY <1>1, <1>2, <1>3, WFMin
<1> USE DEF T
<1>5. PICK m \in S : I = Above(m)
  OBVIOUS
<1>6. ASSUME NEW y \in S PROVE m >= y
  <2> SUFFICES ASSUME y > m PROVE FALSE
    OBVIOUS
  <2>1. Above(y) \subseteq Above(m) /\ m \in Above(m) /\ m \notin Above(y)
    OBVIOUS
  <2>2. Above(y) \in SUBSET Nat /\ Above(m) \in SUBSET Nat
    OBVIOUS
  <2>3. <<Above(y), I>> \in StrictSubsetOrdering(Nat)
    BY <2>1, <2>2, <1>5 DEF StrictSubsetOrdering
  <2> QED BY <2>3, <1>4
<1> QED BY <1>6 DEF Max

\* Min of a non-empty set of naturals is its least element (the first open
\* slot of EventNotify).
LEMMA MinIsLeast ==
  ASSUME NEW S \in SUBSET Nat, S # {}
  PROVE  Min(S) \in S /\ \A y \in S : Min(S) <= y
<1> DEFINE Below(x) == 0..x
           T == {Below(x) : x \in S}
<1>1. T \subseteq FiniteSubsetsOf(Nat)
  <2>1. ASSUME NEW x \in S PROVE Below(x) \in FiniteSubsetsOf(Nat)
    <3>1. IsFiniteSet(0..x)
      BY FS_Interval
    <3> QED BY <3>1 DEF FiniteSubsetsOf
  <2> QED BY <2>1
<1>2. T # {}
  OBVIOUS
<1>3. IsWellFoundedOn(StrictSubsetOrdering(Nat), FiniteSubsetsOf(Nat))
  BY FS_StrictSubsetOrderingWellFounded
<1> HIDE DEF T
<1>4. PICK I \in T : \A J \in T : ~ (<<J, I>> \in StrictSubsetOrdering(Nat))
  BY <1>1, <1>2, <1>3, WFMin
<1> USE DEF T
<1>5. PICK m \in S : I = Below(m)
  OBVIOUS
<1>6. ASSUME NEW y \in S PROVE m <= y
  <2> SUFFICES ASSUME y < m PROVE FALSE
    OBVIOUS
  <2>1. Below(y) \subseteq Below(m) /\ m \in Below(m) /\ m \notin Below(y)
    OBVIOUS
  <2>2. Below(y) \in SUBSET Nat /\ Below(m) \in SUBSET Nat
    OBVIOUS
  <2>3. <<Below(y), I>> \in StrictSubsetOrdering(Nat)
    BY <2>1, <2>2, <1>5 DEF StrictSubsetOrdering
  <2> QED BY <2>3, <1>4
<1> QED BY <1>6 DEF Min

\* A set whose members have distinct numbers in 1..N has at most N members
\* (the rows of the event table).
LEMMA NumberedSetIsBounded ==
  ASSUME NEW N \in Nat, NEW S, NEW f \in [S -> 1..N],
         \A x, y \in S : f[x] = f[y] => x = y
  PROVE  IsFiniteSet(S) /\ Cardinality(S) \in 0..N
<1>1. f \in Injection(S, 1..N)
  BY DEF Injection, IsInjective
<1>2. IsFiniteSet(1..N) /\ Cardinality(1..N) = N
  BY FS_Interval
<1>3. IsFiniteSet(S) /\ Cardinality(S) <= N
  BY <1>1, <1>2, FS_Injection
<1> QED BY <1>3, FS_CardinalityType

-----------------------------------------------------------------------------
(* Sums.  SumFunctionOnSet is a fold, defined by a function that is chosen: *)
(* that one exists, and that each agrees with the others, is shown by the    *)
(* least subset for which it would not be so.                                *)

\* The element that the fold takes next, and its table of sums.
Pick(s) == CHOOSE x \in s : TRUE
IsSum(g, f, S) == g = [s \in SUBSET S |-> IF s = {} THEN 0 ELSE f[Pick(s)] + g[s \ {Pick(s)}]]
SumOf(f, S) == CHOOSE g : IsSum(g, f, S)

\* Of subsets of a finite set some are least.
LEMMA LeastSubset ==
  ASSUME NEW S, IsFiniteSet(S), NEW T, T \subseteq SUBSET S, T # {}
  PROVE  \E m \in T : \A t \in T : t \subseteq m => t = m
<1>1. T \subseteq FiniteSubsetsOf(S)
  BY FS_Subset DEF FiniteSubsetsOf
<1>2. IsWellFoundedOn(StrictSubsetOrdering(S), FiniteSubsetsOf(S))
  BY FS_StrictSubsetOrderingWellFounded
<1>3. PICK m \in T : \A t \in T : ~ (<<t, m>> \in StrictSubsetOrdering(S))
  BY <1>1, <1>2, WFMin
<1>4. ASSUME NEW t \in T, t \subseteq m, t # m PROVE FALSE
  <2>1. <<t, m>> \in StrictSubsetOrdering(S)
    BY <1>4 DEF StrictSubsetOrdering
  <2> QED BY <2>1, <1>3
<1> QED BY <1>4

LEMMA PickIn == \A s : s # {} => Pick(s) \in s
  BY DEF Pick

LEMMA IsSumAt ==
  ASSUME NEW g, NEW f, NEW S, IsSum(g, f, S), NEW s \in SUBSET S
  PROVE  g[s] = IF s = {} THEN 0 ELSE f[Pick(s)] + g[s \ {Pick(s)}]
  BY DEF IsSum

\* Two tables of sums agree.
LEMMA SumsAgree ==
  ASSUME NEW S, IsFiniteSet(S), NEW f, NEW g, NEW h, NEW U, IsSum(g, f, S), IsSum(h, f, U), S \subseteq U
  PROVE  \A s \in SUBSET S : g[s] = h[s]
<1> DEFINE Bad == {s \in SUBSET S : g[s] # h[s]}
<1> SUFFICES ASSUME Bad # {} PROVE FALSE
  OBVIOUS
<1>1. PICK s \in Bad : \A t \in Bad : t \subseteq s => t = s
  <2>1. Bad \subseteq SUBSET S
    OBVIOUS
  <2> HIDE DEF Bad
  <2> QED BY <2>1, LeastSubset
<1>2. s # {}
  BY IsSumAt
<1>3. s \ {Pick(s)} \in SUBSET S /\ s \ {Pick(s)} # s
  BY <1>2, PickIn
<1>4. s \ {Pick(s)} \notin Bad
  BY <1>1, <1>3
<1>5. g[s \ {Pick(s)}] = h[s \ {Pick(s)}]
  BY <1>3, <1>4
<1>6. g[s] = f[Pick(s)] + g[s \ {Pick(s)}] /\ h[s] = f[Pick(s)] + h[s \ {Pick(s)}]
  <2>1. s \in SUBSET S /\ s \in SUBSET U
    OBVIOUS
  <2>2. g[s] = f[Pick(s)] + g[s \ {Pick(s)}]
    <3> HIDE DEF Bad
    <3> QED BY <2>1, <1>2, IsSumAt
  <2>3. h[s] = f[Pick(s)] + h[s \ {Pick(s)}]
    <3> HIDE DEF Bad
    <3> QED BY <2>1, <1>2, IsSumAt
  <2> QED BY <2>2, <2>3
<1>7. g[s] = h[s]
  BY <1>5, <1>6
<1> QED BY <1>7

\* There is a table of sums.
LEMMA SumExists ==
  ASSUME NEW S, IsFiniteSet(S), NEW f
  PROVE  \A s \in SUBSET S : \E g : IsSum(g, f, s)
<1> DEFINE Bad == {s \in SUBSET S : ~ \E g : IsSum(g, f, s)}
<1> SUFFICES ASSUME Bad # {} PROVE FALSE
  OBVIOUS
<1>1. PICK s \in Bad : \A t \in Bad : t \subseteq s => t = s
  <2>1. Bad \subseteq SUBSET S
    OBVIOUS
  <2> HIDE DEF Bad
  <2> QED BY <2>1, LeastSubset
<1>2. \A t \in SUBSET s : t # s => IsSum(SumOf(f, t), f, t)
  BY <1>1 DEF SumOf
<1> DEFINE rest(t) == t \ {Pick(t)}
           g == [t \in SUBSET s |-> IF t = {} THEN 0 ELSE f[Pick(t)] + SumOf(f, rest(t))[rest(t)]]
<1>3. ASSUME NEW t \in SUBSET s, t # {}
      PROVE  g[t] = f[Pick(t)] + g[rest(t)]
  <2> DEFINE r == rest(t)
  <2>1. r \in SUBSET s /\ r # s /\ IsFiniteSet(r)
    <3>1. Pick(t) \in t
      BY <1>3, PickIn
    <3>2. r \subseteq s /\ r # s /\ IsFiniteSet(s)
      BY <3>1, FS_Subset
    <3> QED BY <3>2, FS_Subset
  <2>2. IsSum(SumOf(f, r), f, r)
    BY <2>1, <1>2
  <2>3. CASE r = {}
    <3>1. SumOf(f, r)[r] = 0 /\ g[r] = 0
      BY <2>2, <2>3, IsSumAt
    <3> QED BY <3>1, <1>3
  <2>4. CASE r # {}
    <3>1. rest(r) \in SUBSET r /\ rest(r) # r /\ rest(r) \in SUBSET s /\ rest(r) # s /\ IsFiniteSet(rest(r))
      <4>1. Pick(r) \in r
        BY <2>4, PickIn
      <4>2. rest(r) \subseteq r /\ rest(r) # r /\ rest(r) \subseteq s /\ rest(r) # s
        BY <4>1, <2>1
      <4>3. IsFiniteSet(rest(r))
        BY <4>2, <2>1, FS_Subset
      <4> QED BY <4>2, <4>3
    <3>2. SumOf(f, r)[r] = f[Pick(r)] + SumOf(f, r)[rest(r)]
      <4>1. r \in SUBSET r
        OBVIOUS
      <4> HIDE DEF g, r
      <4>2. SumOf(f, r)[r] = IF r = {} THEN 0 ELSE f[Pick(r)] + SumOf(f, r)[r \ {Pick(r)}]
        BY <4>1, <2>2, IsSumAt
      <4> QED BY <4>2, <2>4
    <3>3. IsSum(SumOf(f, rest(r)), f, rest(r))
      BY <3>1, <1>2
    <3>4. SumOf(f, rest(r))[rest(r)] = SumOf(f, r)[rest(r)]
      BY <3>1, <3>3, <2>2, SumsAgree
    <3>5. g[r] = f[Pick(r)] + SumOf(f, rest(r))[rest(r)]
      BY <2>1, <2>4
    <3>6. g[t] = f[Pick(t)] + SumOf(f, r)[r]
      BY <1>3
    <3> QED BY <3>2, <3>4, <3>5, <3>6
  <2> QED BY <2>3, <2>4
<1>4. IsSum(g, f, s)
  <2>1. \A t \in SUBSET s : g[t] = IF t = {} THEN 0 ELSE f[Pick(t)] + g[rest(t)]
    BY <1>3
  <2> QED BY <2>1 DEF IsSum
<1> QED BY <1>1, <1>4

LEMMA SumIs ==
  ASSUME NEW f, NEW S
  PROVE  SumFunctionOnSet(f, S) = SumOf(f, S)[S]
  BY Zenon DEF SumFunctionOnSet, FoldFunctionOnSet, MapThenFoldSet, IsSum, Pick, SumOf

\* A sum, one element taken off.
LEMMA SumPick ==
  ASSUME NEW S, IsFiniteSet(S), NEW f
  PROVE  /\ SumFunctionOnSet(f, {}) = 0
         /\ S # {} => SumFunctionOnSet(f, S) = f[Pick(S)] + SumFunctionOnSet(f, S \ {Pick(S)})
<1>1. \A s \in SUBSET S : IsSum(SumOf(f, s), f, s)
  BY SumExists DEF SumOf
<1>2. SumOf(f, {})[{}] = 0
  BY <1>1, IsSumAt
<1>3. ASSUME S # {} PROVE SumOf(f, S)[S] = f[Pick(S)] + SumOf(f, S \ {Pick(S)})[S \ {Pick(S)}]
  <2> DEFINE r == S \ {Pick(S)}
  <2>1. IsFiniteSet(r) /\ r \subseteq S
    BY FS_Subset
  <2>2. SumOf(f, S)[r] = SumOf(f, r)[r]
    BY <2>1, <1>1, SumsAgree
  <2>3. SumOf(f, S)[S] = f[Pick(S)] + SumOf(f, S)[r]
    BY <1>1, <1>3, IsSumAt
  <2> QED BY <2>2, <2>3
<1> QED BY <1>2, <1>3, SumIs

\* The least of the subsets of which something is not so.
LEMMA LeastBad ==
  ASSUME NEW S, IsFiniteSet(S), NEW Bad, Bad \subseteq SUBSET S, Bad # {}, {} \notin Bad
  PROVE  \E s \in Bad : /\ s \subseteq S /\ IsFiniteSet(s) /\ s # {} /\ Pick(s) \in s
                        /\ \A r \in SUBSET s : r # s => r \notin Bad
<1>1. PICK s \in Bad : \A t \in Bad : t \subseteq s => t = s
  BY LeastSubset
<1>2. s \subseteq S /\ IsFiniteSet(s) /\ s # {}
  BY FS_Subset
<1> QED BY <1>1, <1>2, PickIn

\* Sums of integers are integers, of naturals naturals.
LEMMA SumInt ==
  ASSUME NEW S, IsFiniteSet(S), NEW f, \A x \in S : f[x] \in Int
  PROVE  SumFunctionOnSet(f, S) \in Int
<1> DEFINE Bad == {s \in SUBSET S : SumFunctionOnSet(f, s) \notin Int}
<1> SUFFICES ASSUME Bad # {} PROVE FALSE
  OBVIOUS
<1>1. SumFunctionOnSet(f, {}) = 0
  BY SumPick
<1>2. {} \notin Bad /\ Bad \subseteq SUBSET S
  BY <1>1
<1>3. PICK s \in Bad : /\ s \subseteq S /\ IsFiniteSet(s) /\ s # {} /\ Pick(s) \in s
                       /\ \A r \in SUBSET s : r # s => r \notin Bad
  <2> HIDE DEF Bad
  <2> QED BY <1>2, LeastBad
<1>4. SumFunctionOnSet(f, s) = f[Pick(s)] + SumFunctionOnSet(f, s \ {Pick(s)})
  BY <1>3, SumPick
<1>5. SumFunctionOnSet(f, s \ {Pick(s)}) \in Int
  <2>1. s \ {Pick(s)} \in SUBSET s /\ s \ {Pick(s)} # s
    BY <1>3
  <2>2. s \ {Pick(s)} \notin Bad
    BY <2>1, <1>3
  <2> QED BY <2>1, <2>2, <1>3
<1> QED BY <1>3, <1>4, <1>5

LEMMA SumNat ==
  ASSUME NEW S, IsFiniteSet(S), NEW f, \A x \in S : f[x] \in Nat
  PROVE  SumFunctionOnSet(f, S) \in Nat
<1> DEFINE Bad == {s \in SUBSET S : SumFunctionOnSet(f, s) \notin Nat}
<1> SUFFICES ASSUME Bad # {} PROVE FALSE
  OBVIOUS
<1>1. SumFunctionOnSet(f, {}) = 0
  BY SumPick
<1>2. {} \notin Bad /\ Bad \subseteq SUBSET S
  BY <1>1
<1>3. PICK s \in Bad : /\ s \subseteq S /\ IsFiniteSet(s) /\ s # {} /\ Pick(s) \in s
                       /\ \A r \in SUBSET s : r # s => r \notin Bad
  <2> HIDE DEF Bad
  <2> QED BY <1>2, LeastBad
<1>4. SumFunctionOnSet(f, s) = f[Pick(s)] + SumFunctionOnSet(f, s \ {Pick(s)})
  BY <1>3, SumPick
<1>5. SumFunctionOnSet(f, s \ {Pick(s)}) \in Nat
  <2>1. s \ {Pick(s)} \in SUBSET s /\ s \ {Pick(s)} # s
    BY <1>3
  <2>2. s \ {Pick(s)} \notin Bad
    BY <2>1, <1>3
  <2> QED BY <2>1, <2>2, <1>3
<1> QED BY <1>3, <1>4, <1>5

\* Any element can be taken off.
LEMMA SumRemove ==
  ASSUME NEW S, IsFiniteSet(S), NEW f, \A x \in S : f[x] \in Int, NEW x \in S
  PROVE  SumFunctionOnSet(f, S) = f[x] + SumFunctionOnSet(f, S \ {x})
<1> DEFINE Sum(s) == SumFunctionOnSet(f, s)
           Bad == {s \in SUBSET S : \E y \in s : Sum(s) # f[y] + Sum(s \ {y})}
<1> SUFFICES ASSUME Bad # {} PROVE FALSE
  OBVIOUS
<1>1. {} \notin Bad /\ Bad \subseteq SUBSET S
  OBVIOUS
<1>2. PICK s \in Bad : /\ s \subseteq S /\ IsFiniteSet(s) /\ s # {} /\ Pick(s) \in s
                       /\ \A r \in SUBSET s : r # s => r \notin Bad
  <2> HIDE DEF Bad
  <2> QED BY <1>1, LeastBad
<1>3. PICK y \in s : Sum(s) # f[y] + Sum(s \ {y})
  OBVIOUS
<1> DEFINE p == Pick(s)
           r == s \ {p}
           t == s \ {y}
           u == r \ {y}
<1>4. IsFiniteSet(t) /\ IsFiniteSet(r) /\ IsFiniteSet(u) /\ t \subseteq S /\ r \subseteq S /\ u \subseteq S
  BY <1>2, FS_Subset
<1>5. \A v \in SUBSET S : IsFiniteSet(v) => Sum(v) \in Int
  BY SumInt
<1>6. Sum(s) = f[p] + Sum(r)
  BY <1>2, SumPick
<1>7. p # y
  BY <1>3, <1>6
<1>8. Sum(r) = f[y] + Sum(u)
  <2>1. r \notin Bad /\ y \in r
    BY <1>2, <1>7
  <2> QED BY <2>1, <1>4
<1>9. Sum(t) = f[p] + Sum(u)
  <2>1. t \notin Bad /\ p \in t /\ t \ {p} = u
    BY <1>2, <1>7
  <2> QED BY <2>1, <1>4
<1>10. f[p] \in Int /\ f[y] \in Int /\ Sum(u) \in Int
  BY <1>2, <1>4, <1>5
<1> HIDE DEF Sum, u, p
<1>11. Sum(s) = f[y] + Sum(t)
  BY <1>6, <1>8, <1>9, <1>10
<1> QED BY <1>11, <1>3

\* Sums of the same are the same.
LEMMA SumSame ==
  ASSUME NEW S, IsFiniteSet(S), NEW f, NEW g, \A x \in S : f[x] = g[x]
  PROVE  SumFunctionOnSet(f, S) = SumFunctionOnSet(g, S)
<1> DEFINE Bad == {s \in SUBSET S : SumFunctionOnSet(f, s) # SumFunctionOnSet(g, s)}
<1> SUFFICES ASSUME Bad # {} PROVE FALSE
  OBVIOUS
<1>1. SumFunctionOnSet(f, {}) = 0 /\ SumFunctionOnSet(g, {}) = 0
  BY SumPick
<1>2. {} \notin Bad /\ Bad \subseteq SUBSET S
  BY <1>1
<1>3. PICK s \in Bad : /\ s \subseteq S /\ IsFiniteSet(s) /\ s # {} /\ Pick(s) \in s
                       /\ \A r \in SUBSET s : r # s => r \notin Bad
  <2> HIDE DEF Bad
  <2> QED BY <1>2, LeastBad
<1>4. SumFunctionOnSet(f, s) = f[Pick(s)] + SumFunctionOnSet(f, s \ {Pick(s)})
      /\ SumFunctionOnSet(g, s) = g[Pick(s)] + SumFunctionOnSet(g, s \ {Pick(s)})
  BY <1>3, SumPick
<1>5. SumFunctionOnSet(f, s \ {Pick(s)}) = SumFunctionOnSet(g, s \ {Pick(s)})
  <2>1. s \ {Pick(s)} \in SUBSET s /\ s \ {Pick(s)} # s
    BY <1>3
  <2>2. s \ {Pick(s)} \notin Bad
    BY <2>1, <1>3
  <2> QED BY <2>1, <2>2, <1>3
<1>6. f[Pick(s)] = g[Pick(s)]
  BY <1>3
<1>7. SumFunctionOnSet(f, s) = SumFunctionOnSet(g, s)
  BY <1>4, <1>5, <1>6
<1> QED BY <1>3, <1>7

\* A sum of what is less is less.
LEMMA SumLess ==
  ASSUME NEW S, IsFiniteSet(S), NEW f, NEW g, \A x \in S : f[x] \in Int /\ g[x] \in Int /\ f[x] <= g[x]
  PROVE  SumFunctionOnSet(f, S) <= SumFunctionOnSet(g, S)
<1> DEFINE Bad == {s \in SUBSET S : ~ (SumFunctionOnSet(f, s) <= SumFunctionOnSet(g, s))}
<1> SUFFICES ASSUME Bad # {} PROVE FALSE
  OBVIOUS
<1>1. SumFunctionOnSet(f, {}) = 0 /\ SumFunctionOnSet(g, {}) = 0
  BY SumPick
<1>2. {} \notin Bad /\ Bad \subseteq SUBSET S
  BY <1>1
<1>3. PICK s \in Bad : /\ s \subseteq S /\ IsFiniteSet(s) /\ s # {} /\ Pick(s) \in s
                       /\ \A r \in SUBSET s : r # s => r \notin Bad
  <2> HIDE DEF Bad
  <2> QED BY <1>2, LeastBad
<1>4. SumFunctionOnSet(f, s) = f[Pick(s)] + SumFunctionOnSet(f, s \ {Pick(s)})
      /\ SumFunctionOnSet(g, s) = g[Pick(s)] + SumFunctionOnSet(g, s \ {Pick(s)})
  BY <1>3, SumPick
<1>5. SumFunctionOnSet(f, s \ {Pick(s)}) <= SumFunctionOnSet(g, s \ {Pick(s)})
  <2>1. s \ {Pick(s)} \in SUBSET s /\ s \ {Pick(s)} # s
    BY <1>3
  <2>2. s \ {Pick(s)} \notin Bad
    BY <2>1, <1>3
  <2> QED BY <2>1, <2>2, <1>3
<1>6. /\ f[Pick(s)] \in Int /\ g[Pick(s)] \in Int /\ f[Pick(s)] <= g[Pick(s)]
  BY <1>3
<1>7. SumFunctionOnSet(f, s \ {Pick(s)}) \in Int /\ SumFunctionOnSet(g, s \ {Pick(s)}) \in Int
  <2>1. IsFiniteSet(s \ {Pick(s)}) /\ s \ {Pick(s)} \subseteq S
    BY <1>3, FS_Subset
  <2> QED BY <2>1, SumInt
<1>8. SumFunctionOnSet(f, s) <= SumFunctionOnSet(g, s)
  BY <1>4, <1>5, <1>6, <1>7
<1> QED BY <1>3, <1>8

\* A sum of the same number.
LEMMA SumConst ==
  ASSUME NEW S, IsFiniteSet(S), NEW c \in Int, NEW f, \A x \in S : f[x] = c
  PROVE  SumFunctionOnSet(f, S) = Cardinality(S) * c
<1> DEFINE Bad == {s \in SUBSET S : SumFunctionOnSet(f, s) # Cardinality(s) * c}
<1> SUFFICES ASSUME Bad # {} PROVE FALSE
  OBVIOUS
<1>1. SumFunctionOnSet(f, {}) = 0 /\ Cardinality({}) = 0 /\ 0 * c = 0
  BY SumPick, FS_EmptySet
<1>2. {} \notin Bad /\ Bad \subseteq SUBSET S
  BY <1>1
<1>3. PICK s \in Bad : /\ s \subseteq S /\ IsFiniteSet(s) /\ s # {} /\ Pick(s) \in s
                       /\ \A r \in SUBSET s : r # s => r \notin Bad
  <2> HIDE DEF Bad
  <2> QED BY <1>2, LeastBad
<1>4. SumFunctionOnSet(f, s) = f[Pick(s)] + SumFunctionOnSet(f, s \ {Pick(s)})
  BY <1>3, SumPick
<1>5. SumFunctionOnSet(f, s \ {Pick(s)}) = Cardinality(s \ {Pick(s)}) * c
  <2>1. s \ {Pick(s)} \in SUBSET s /\ s \ {Pick(s)} # s
    BY <1>3
  <2>2. s \ {Pick(s)} \notin Bad
    BY <2>1, <1>3
  <2> QED BY <2>1, <2>2, <1>3
<1>6. f[Pick(s)] = c
  BY <1>3
<1>7. Cardinality(s) \in Nat /\ Cardinality(s \ {Pick(s)}) = Cardinality(s) - 1
  BY <1>3, FS_RemoveElement, FS_CardinalityType
<1>8. \A n \in Nat : c + (n - 1) * c = n * c
  OBVIOUS
<1>9. SumFunctionOnSet(f, s) = Cardinality(s) * c
  BY <1>4, <1>5, <1>6, <1>7, <1>8
<1> QED BY <1>3, <1>9

\* A part of a sum of naturals is no more than the sum.
LEMMA SumPart ==
  ASSUME NEW S, IsFiniteSet(S), NEW T, T \subseteq S, NEW f, \A x \in S : f[x] \in Nat
  PROVE  SumFunctionOnSet(f, T) <= SumFunctionOnSet(f, S)
<1> DEFINE Bad == {s \in SUBSET S : ~ (SumFunctionOnSet(f, s \cap T) <= SumFunctionOnSet(f, s))}
<1>0. S \cap T = T
  OBVIOUS
<1> SUFFICES ASSUME Bad # {} PROVE FALSE
  BY <1>0
<1>1. SumFunctionOnSet(f, {}) = 0 /\ {} \cap T = {}
  BY SumPick
<1>2. {} \notin Bad /\ Bad \subseteq SUBSET S
  BY <1>1
<1>3. PICK s \in Bad : /\ s \subseteq S /\ IsFiniteSet(s) /\ s # {} /\ Pick(s) \in s
                       /\ \A r \in SUBSET s : r # s => r \notin Bad
  <2> HIDE DEF Bad
  <2> QED BY <1>2, LeastBad
<1> DEFINE p == Pick(s)
           r == s \ {p}
<1>4. SumFunctionOnSet(f, s) = f[p] + SumFunctionOnSet(f, r)
  BY <1>3, SumPick
<1>5. SumFunctionOnSet(f, r \cap T) <= SumFunctionOnSet(f, r)
  <2>1. r \in SUBSET s /\ r # s
    BY <1>3
  <2>2. r \notin Bad
    BY <2>1, <1>3
  <2> QED BY <2>1, <2>2, <1>3
<1>6. f[p] \in Nat
  BY <1>3
<1>7. IsFiniteSet(r) /\ IsFiniteSet(r \cap T) /\ IsFiniteSet(s \cap T) /\ r \subseteq S
  BY <1>3, FS_Subset
<1>8. SumFunctionOnSet(f, r) \in Nat /\ SumFunctionOnSet(f, r \cap T) \in Nat
  BY <1>7, SumNat
<1>9. CASE p \in T
  <2>1. p \in s \cap T /\ (s \cap T) \ {p} = r \cap T /\ \A x \in s \cap T : f[x] \in Int
    BY <1>3, <1>9
  <2>2. SumFunctionOnSet(f, s \cap T) = f[p] + SumFunctionOnSet(f, r \cap T)
    <3> HIDE DEF p, r
    <3> QED BY <2>1, <1>7, SumRemove
  <2>3. SumFunctionOnSet(f, s \cap T) <= SumFunctionOnSet(f, s)
    <3> HIDE DEF p, r, Bad
    <3> QED BY <2>2, <1>4, <1>5, <1>6, <1>8
  <2> QED BY <2>3, <1>3
<1>10. CASE p \notin T
  <2>1. s \cap T = r \cap T
    BY <1>10
  <2>2. SumFunctionOnSet(f, s \cap T) <= SumFunctionOnSet(f, s)
    <3>1. SumFunctionOnSet(f, s \cap T) = SumFunctionOnSet(f, r \cap T)
      BY <2>1
    <3> HIDE DEF p, r, Bad
    <3>2. SumFunctionOnSet(f, r) <= SumFunctionOnSet(f, s)
      BY <1>4, <1>6, <1>8
    <3> QED BY <3>1, <3>2, <1>4, <1>5, <1>6, <1>8
  <2> QED BY <2>2, <1>3
<1> QED BY <1>9, <1>10

\* A multiple of a sum.
LEMMA SumTimes ==
  ASSUME NEW S, IsFiniteSet(S), NEW f, \A x \in S : f[x] \in Int, NEW u \in Int, NEW g, \A x \in S : g[x] = u * f[x]
  PROVE  SumFunctionOnSet(g, S) = u * SumFunctionOnSet(f, S)
<1> DEFINE Bad == {s \in SUBSET S : SumFunctionOnSet(g, s) # u * SumFunctionOnSet(f, s)}
<1> SUFFICES ASSUME Bad # {} PROVE FALSE
  OBVIOUS
<1>1. SumFunctionOnSet(f, {}) = 0 /\ SumFunctionOnSet(g, {}) = 0 /\ u * 0 = 0
  <2>1. u * 0 = 0
    OBVIOUS
  <2>2. SumFunctionOnSet(f, {}) = 0 /\ SumFunctionOnSet(g, {}) = 0
    <3> HIDE DEF Bad
    <3> QED BY SumPick
  <2> QED BY <2>1, <2>2
<1>2. {} \notin Bad /\ Bad \subseteq SUBSET S
  BY <1>1
<1>3. PICK s \in Bad : /\ s \subseteq S /\ IsFiniteSet(s) /\ s # {} /\ Pick(s) \in s
                       /\ \A r \in SUBSET s : r # s => r \notin Bad
  <2> HIDE DEF Bad
  <2> QED BY <1>2, LeastBad
<1>4. SumFunctionOnSet(f, s) = f[Pick(s)] + SumFunctionOnSet(f, s \ {Pick(s)})
      /\ SumFunctionOnSet(g, s) = g[Pick(s)] + SumFunctionOnSet(g, s \ {Pick(s)})
  BY <1>3, SumPick
<1>5. SumFunctionOnSet(g, s \ {Pick(s)}) = u * SumFunctionOnSet(f, s \ {Pick(s)})
  <2>1. s \ {Pick(s)} \in SUBSET s /\ s \ {Pick(s)} # s
    BY <1>3
  <2>2. s \ {Pick(s)} \notin Bad
    BY <2>1, <1>3
  <2> QED BY <2>1, <2>2, <1>3
<1>6. f[Pick(s)] \in Int /\ g[Pick(s)] = u * f[Pick(s)]
  BY <1>3
<1>7. SumFunctionOnSet(f, s \ {Pick(s)}) \in Int
  <2>1. IsFiniteSet(s \ {Pick(s)}) /\ s \ {Pick(s)} \subseteq S
    BY <1>3, FS_Subset
  <2> QED BY <2>1, SumInt
<1>8. \A a, b \in Int : u * (a + b) = u * a + u * b
  OBVIOUS
<1>9. SumFunctionOnSet(g, s) = u * SumFunctionOnSet(f, s)
  <2>1. u * SumFunctionOnSet(f, s) = u * f[Pick(s)] + u * SumFunctionOnSet(f, s \ {Pick(s)})
    BY <1>4, <1>6, <1>7, <1>8
  <2> QED BY <2>1, <1>4, <1>5, <1>6
<1> QED BY <1>3, <1>9

-----------------------------------------------------------------------------
(* Numbers *)

\* Max of a finite set of integers.
LEMMA MaxOfFinite ==
  ASSUME NEW S, S \subseteq Int, IsFiniteSet(S), S # {}
  PROVE  Max(S) \in S /\ \A y \in S : y <= Max(S)
<1> DEFINE Above(x) == {y \in S : y >= x}
           T == {Above(x) : x \in S}
<1>1. T \subseteq SUBSET S /\ T # {}
  OBVIOUS
<1>2. PICK I \in T : \A J \in T : J \subseteq I => J = I
  <2> HIDE DEF T
  <2>1. \E I \in T : \A J \in T : J \subseteq I => J = I
    BY ONLY <1>1, IsFiniteSet(S), LeastSubset
  <2> QED BY <2>1
<1>3. PICK m \in S : I = Above(m)
  OBVIOUS
<1>4. ASSUME NEW y \in S PROVE y <= m
  <2> SUFFICES ASSUME y > m PROVE FALSE
    OBVIOUS
  <2>1. Above(y) \subseteq Above(m) /\ m \in Above(m) /\ m \notin Above(y)
    <3> HIDE DEF T
    <3>1. y \in Int /\ m \in Int /\ y > m
      OBVIOUS
    <3>2. \A z \in Int : z >= y => z >= m
      BY <3>1
    <3>3. Above(y) \subseteq Above(m)
      BY <3>2
    <3>4. m \in Above(m) /\ m \notin Above(y)
      BY <3>1
    <3> QED BY <3>3, <3>4
  <2>2. Above(y) \in T
    OBVIOUS
  <2> QED BY <2>1, <2>2, <1>2, <1>3
<1> QED BY <1>4 DEF Max

LEMMA ImageFinite ==
  ASSUME NEW S, IsFiniteSet(S), NEW f
  PROVE  IsFiniteSet({f[x] : x \in S})
<1> DEFINE T == {f[x] : x \in S}
           g == [x \in S |-> f[x]]
<1>1. g \in Surjection(S, T)
  BY DEF Surjection
<1> QED BY <1>1, FS_Surjection

\* Division by any positive number.
LEMMA DivModIs ==
  ASSUME NEW n \in Int, NEW u \in Nat \ {0}
  PROVE  n \div u \in Int /\ n % u \in 0 .. u - 1 /\ n = u * (n \div u) + (n % u)
<1>1. n \div u \in Int /\ n % u \in 0 .. u - 1
  OBVIOUS
<1>2. n % u = n - u * (n \div u)
  OBVIOUS
<1>3. u * (n \div u) \in Int
  BY <1>1
<1> QED BY <1>1, <1>2, <1>3

LEMMA ModOfTimes ==
  ASSUME NEW q \in Int, NEW u \in Nat \ {0}
  PROVE  (u * q) % u = 0 /\ (u * q) \div u = q
<1>1. (u * q) % u = 0
  OBVIOUS
<1>2. (u * q) \div u = q
  OBVIOUS
<1> QED BY <1>1, <1>2

LEMMA TimesLess ==
  ASSUME NEW a \in Int, NEW b \in Int, NEW u \in Nat \ {0}
  PROVE  a <= b <=> u * a <= u * b
<1>1. a <= b => u * a <= u * b
  OBVIOUS
<1>2. u * a <= u * b => a <= b
  OBVIOUS
<1> QED BY <1>1, <1>2

LEMMA TimesIs ==
  ASSUME NEW a \in Int, NEW b \in Int, NEW u \in Int
  PROVE  /\ u * a \in Int /\ u * a = a * u
         /\ u * (a + b) = u * a + u * b /\ u * (a - b) = u * a - u * b
         /\ u * (a * b) = (u * a) * b
  OBVIOUS
=============================================================================
