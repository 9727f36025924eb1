----------------------------- MODULE OrderLemmas -----------------------------
(***************************************************************************)
(* Minimum and maximum of sets of naturals, which the library's induction  *)
(* principles cannot give to the provers: both follow from the fact that   *)
(* the finite subsets of Nat are well founded under strict inclusion.      *)
(***************************************************************************)
EXTENDS Integers, Sequences, FiniteSets, FiniteSetsExt, TLAPS, FiniteSetTheorems,
        WellFoundedInduction

\* A non-empty set of naturals has a least element, and Min is that element.
LEMMA MinOfNaturals ==
  ASSUME NEW S \in SUBSET Nat, S # {}
  PROVE  Min(S) \in S /\ \A x \in S : Min(S) <= x
<1> DEFINE Below == {0..x : x \in S}
           Order == StrictSubsetOrdering(Nat)
<1>1. IsWellFoundedOn(Order, FiniteSubsetsOf(Nat))
  BY FS_StrictSubsetOrderingWellFounded
<1>2. Below \subseteq FiniteSubsetsOf(Nat) /\ Below # {}
  <2>1. \A x \in S : IsFiniteSet(0..x) /\ 0..x \subseteq Nat
    BY FS_Interval
  <2> QED
    BY <2>1 DEF FiniteSubsetsOf
<1>3. PICK B \in Below : \A C \in Below : <<C, B>> \notin Order
  <2> HIDE DEF Below, Order
  <2> QED
    BY <1>1, <1>2, WFMin
<1>4. PICK m \in S : B = 0..m
  OBVIOUS
<1>5. ASSUME NEW x \in S, x < m
      PROVE  FALSE
  <2>1. 0..x \subseteq 0..m /\ 0..x # 0..m
    BY <1>5
  <2>2. <<0..x, 0..m>> \in Order
    BY <2>1 DEF StrictSubsetOrdering
  <2> QED
    BY <2>2, <1>3, <1>4
<1>6. \A x \in S : m <= x
  BY <1>5
<1> QED
  BY <1>6 DEF Min

\* A non-empty set of indices below n has a greatest element: Max.
LEMMA MaxOfIndices ==
  ASSUME NEW n \in Nat, NEW S \in SUBSET (0..(n - 1)), S # {}
  PROVE  Max(S) \in S /\ \A x \in S : x <= Max(S)
<1> DEFINE R == {n - x : x \in S}
<1>1. R \in SUBSET Nat /\ R # {}
  <2>1. PICK x \in S : TRUE
    OBVIOUS
  <2>2. n - x \in R
    BY <2>1
  <2> QED
    BY <2>2
<1>2. Min(R) \in R /\ \A y \in R : Min(R) <= y
  BY <1>1, MinOfNaturals
<1>3. PICK m \in S : Min(R) = n - m
  BY <1>2
<1>4. \A x \in S : n - x \in R
  OBVIOUS
<1>5. \A x \in S : n - m <= n - x
  <2> HIDE DEF R
  <2> QED BY <1>2, <1>3, <1>4
<1>6. \A x \in S : x <= m
  BY <1>5
<1> QED
  BY <1>6 DEF Max

\* Induction up to n, over a set instead of a formula.
LEMMA InductionUpTo ==
  ASSUME NEW n \in Nat, NEW S, 0 \in S, \A i \in 1..n : i - 1 \in S => i \in S
  PROVE  \A i \in 0..n : i \in S
<1> DEFINE D == {i \in 0..n : i \notin S}
<1>1. ASSUME D # {}
      PROVE  FALSE
  <2>1. PICK m \in D : \A y \in D : m <= y
    <3>1. D \in SUBSET Nat
      OBVIOUS
    <3> HIDE DEF D
    <3> QED BY <1>1, <3>1, MinOfNaturals
  <2>2. m # 0 /\ m \in 1..n /\ m - 1 \in 0..n /\ ~(m <= m - 1)
    BY <2>1
  <2>3. m - 1 \in S
    <3>1. m - 1 \notin D
      <4> HIDE DEF D
      <4> QED BY <2>1, <2>2
    <3> QED BY <2>2, <3>1
  <2> QED BY <2>1, <2>2, <2>3
<1> QED BY <1>1

\* A function of the numbers up to n may be defined by recursion.
Recurs(f, n, x, G) == f = [i \in 0..n |-> IF i = 0 THEN x ELSE G[i][f[i - 1]]]

LEMMA RecursiveFunction ==
  ASSUME NEW V, NEW x \in V, NEW n \in Nat, NEW G \in [1..n -> [V -> V]]
  PROVE  \E f \in [0..n -> V] : Recurs(f, n, x, G)
<1> DEFINE Rec(f, m) == \A i \in 0..m : f[i] = IF i = 0 THEN x ELSE G[i][f[i - 1]]
           S == {m \in 0..n : \E f \in [0..m -> V] : Rec(f, m)}
<1>1. 0 \in S
  <2> DEFINE f == [i \in 0..0 |-> x]
  <2>1. f \in [0..0 -> V] /\ Rec(f, 0)
    OBVIOUS
  <2> HIDE DEF f
  <2> QED BY <2>1
<1>2. ASSUME NEW m \in 1..n, m - 1 \in S
      PROVE  m \in S
  <2>1. PICK f \in [0..(m - 1) -> V] : Rec(f, m - 1)
    BY <1>2
  <2> DEFINE g == [i \in 0..m |-> IF i = m THEN G[m][f[m - 1]] ELSE f[i]]
  <2>2. g \in [0..m -> V]
    <3>1. m - 1 \in 0..(m - 1) /\ m \in Nat /\ f[m - 1] \in V
      OBVIOUS
    <3>2. G[m][f[m - 1]] \in V
      BY <3>1
    <3>3. \A i \in 0..m : i # m => i \in 0..(m - 1)
      OBVIOUS
    <3> QED BY <3>2, <3>3
  <2>3. ASSUME NEW i \in 0..m
        PROVE  g[i] = IF i = 0 THEN x ELSE G[i][g[i - 1]]
    <3>1. i # 0 => i - 1 \in 0..m /\ i - 1 # m /\ g[i - 1] = f[i - 1]
      OBVIOUS
    <3>2. CASE i = m
      <4>1. i # 0 /\ g[i] = G[m][f[m - 1]]
        BY <3>2
      <4> HIDE DEF g
      <4> QED BY <3>1, <3>2, <4>1
    <3>3. CASE i # m
      <4>1. i \in 0..(m - 1)
        BY <3>3
      <4> QED BY <2>1, <3>1, <3>3, <4>1
    <3> QED BY <3>2, <3>3
  <2> HIDE DEF g
  <2>4. Rec(g, m)
    BY <2>3
  <2> QED BY <2>2, <2>4
<1>3. n \in S
  <2> HIDE DEF S
  <2>1. \A i \in 0..n : i \in S
    BY <1>1, <1>2, InductionUpTo
  <2> QED BY <2>1
<1>4. PICK f \in [0..n -> V] : Rec(f, n)
  BY <1>3
<1> DEFINE g == [i \in 0..n |-> IF i = 0 THEN x ELSE G[i][f[i - 1]]]
<1>5. f = g
  <2>1. \A i \in 0..n : f[i] = g[i]
    BY <1>4
  <2>2. DOMAIN f = 0..n /\ f = [i \in 0..n |-> f[i]]
    OBVIOUS
  <2> HIDE DEF Rec
  <2> QED BY <2>1, <2>2
<1> QED BY <1>5 DEF Recurs

-----------------------------------------------------------------------------
(* Sequences.                                                              *)

LEMMA SeqFacts ==
    ASSUME NEW S, NEW s \in Seq(S)
    PROVE  /\ Len(s) \in Nat /\ DOMAIN s = 1..Len(s)
           /\ \A i \in 1..Len(s) : s[i] \in S
           /\ s # <<>> => Head(s) \in S /\ Tail(s) \in Seq(S)
           /\ \A x \in S : Append(s, x) \in Seq(S)
           /\ \A t \in Seq(S) : s \o t \in Seq(S)
           /\ <<>> \in Seq(S)
  OBVIOUS

LEMMA Tails ==
    ASSUME NEW x, NEW y, NEW z
    PROVE  /\ Head(<<x, y, z>>) = x /\ Tail(<<x, y, z>>) = <<y, z>>
           /\ Head(<<y, z>>) = y /\ Tail(<<y, z>>) = <<z>>
           /\ Head(<<z>>) = z /\ Tail(<<z>>) = <<>>
  OBVIOUS

-----------------------------------------------------------------------------
(* Permutations of 0..n-1.                                                 *)

OneToOne(f, n) == \A i, j \in 0..(n - 1) : f[i] = f[j] => i = j
Onto(f, n) == \A v \in 0..(n - 1) : \E i \in 0..(n - 1) : f[i] = v

\* t is f with entry p moved to the front.
MovesToFront(t, f, p, n) ==
    \A i \in 0..(n - 1) : t[i] = IF i = 0 THEN f[p]
                                 ELSE IF i <= p THEN f[i - 1] ELSE f[i]

\* Moving an entry of a permutation to the front gives a permutation.
LEMMA MoveToFront ==
  ASSUME NEW n \in Nat, NEW f, NEW t, NEW p \in 0..(n - 1),
         MovesToFront(t, f, p, n)
  PROVE  /\ OneToOne(f, n) => OneToOne(t, n)
         /\ Onto(f, n) => Onto(t, n)
<1>1. ASSUME OneToOne(f, n), NEW i \in 0..(n - 1), NEW j \in 0..(n - 1), t[i] = t[j]
      PROVE  i = j
  <2> DEFINE at(k) == IF k = 0 THEN p ELSE IF k <= p THEN k - 1 ELSE k
  <2>1. \A k \in 0..(n - 1) : at(k) \in 0..(n - 1)
    OBVIOUS
  <2>2. \A k \in 0..(n - 1) : t[k] = f[at(k)]
    BY DEF MovesToFront
  <2>3. at(i) = at(j)
    <3> HIDE DEF at
    <3> QED BY <1>1, <2>1, <2>2 DEF OneToOne
  <2> QED BY <2>3
<1>2. ASSUME Onto(f, n), NEW v \in 0..(n - 1)
      PROVE  \E i \in 0..(n - 1) : t[i] = v
  <2>1. PICK k \in 0..(n - 1) : f[k] = v
    BY <1>2 DEF Onto
  <2>2. CASE k = p
    <3>1. 0 \in 0..(n - 1) /\ t[0] = v
      BY <2>1, <2>2 DEF MovesToFront
    <3> QED BY <3>1
  <2>3. CASE k < p
    <3>1. k + 1 \in 0..(n - 1) /\ k + 1 # 0 /\ k + 1 <= p /\ (k + 1) - 1 = k
      BY <2>3
    <3>2. t[k + 1] = v
      BY <2>1, <3>1 DEF MovesToFront
    <3> QED BY <3>1, <3>2
  <2>4. CASE k > p
    <3>1. t[k] = v
      BY <2>1, <2>4 DEF MovesToFront
    <3> QED BY <3>1
  <2> QED
    BY <2>2, <2>3, <2>4
<1> QED
  BY <1>1, <1>2 DEF OneToOne, Onto

\* The values of f at the indices below i.
Before(f, i) == {f[j] : j \in 0..(i - 1)}

\* Moving an entry to the front adds it to what comes before the others, and
\* leaves nothing before itself.
LEMMA BeforeMovesToFront ==
  ASSUME NEW n \in Nat, NEW f, NEW t, NEW p \in 0..(n - 1),
         OneToOne(f, n), MovesToFront(t, f, p, n), NEW i \in 0..(n - 1)
  PROVE  /\ t[i] = f[p] => Before(t, i) = {}
         /\ \A k \in 0..(n - 1) :
               t[i] = f[k] /\ k # p => Before(t, i) = Before(f, k) \cup {f[p]}
<1>0. \A k \in 0..(n - 1) : t[k] = IF k = 0 THEN f[p] ELSE IF k <= p THEN f[k - 1] ELSE f[k]
  BY DEF MovesToFront
<1>1. ASSUME t[i] = f[p]
      PROVE  Before(t, i) = {}
  <2>1. i = 0
    <3>1. CASE i # 0 /\ i <= p
      <4>1. i - 1 \in 0..(n - 1) /\ f[i - 1] = f[p] /\ i - 1 # p
        BY <1>0, <1>1, <3>1
      <4> QED BY <4>1 DEF OneToOne
    <3>2. CASE i > p
      <4>1. f[i] = f[p] /\ i # p
        BY <1>0, <1>1, <3>2
      <4> QED BY <4>1 DEF OneToOne
    <3> QED BY <3>1, <3>2
  <2> QED
    BY <2>1 DEF Before
<1>2. ASSUME NEW k \in 0..(n - 1), t[i] = f[k], k # p
      PROVE  Before(t, i) = Before(f, k) \cup {f[p]}
  <2>1. i # 0
    BY <1>0, <1>2 DEF OneToOne
  <2>2. CASE i <= p
    <3>1. k = i - 1
      <4>1. i - 1 \in 0..(n - 1) /\ f[i - 1] = f[k]
        BY <1>0, <1>2, <2>1, <2>2
      <4> QED BY <4>1 DEF OneToOne
    <3>2. \A j \in 0..(i - 1) : t[j] = IF j = 0 THEN f[p] ELSE f[j - 1]
      BY <1>0, <2>2
    <3>3. ASSUME NEW x \in Before(t, i)
          PROVE  x \in Before(f, k) \cup {f[p]}
      <4>1. PICK j \in 0..(i - 1) : x = t[j]
        BY DEF Before
      <4>2. CASE j = 0
        BY <3>2, <4>1, <4>2
      <4>3. CASE j # 0
        <5>1. j - 1 \in 0..(k - 1) /\ x = f[j - 1]
          BY <3>1, <3>2, <4>1, <4>3
        <5> QED BY <5>1 DEF Before
      <4> QED BY <4>2, <4>3
    <3>4. f[p] \in Before(t, i)
      <4>1. 0 \in 0..(i - 1) /\ t[0] = f[p]
        BY <2>1, <3>2
      <4> QED BY <4>1 DEF Before
    <3>5. ASSUME NEW x \in Before(f, k)
          PROVE  x \in Before(t, i)
      <4>1. PICK j \in 0..(k - 1) : x = f[j]
        BY DEF Before
      <4>2. j + 1 \in 0..(i - 1) /\ j + 1 # 0 /\ (j + 1) - 1 = j
        BY <3>1
      <4>3. t[j + 1] = x
        BY <3>2, <4>1, <4>2
      <4> QED BY <4>2, <4>3 DEF Before
    <3> QED BY <3>3, <3>4, <3>5
  <2>3. CASE i > p
    <3>1. k = i
      <4>1. f[i] = f[k]
        BY <1>0, <1>2, <2>3
      <4> QED BY <4>1 DEF OneToOne
    <3>2. ASSUME NEW x \in Before(t, i)
          PROVE  x \in Before(f, k) \cup {f[p]}
      <4>1. PICK j \in 0..(i - 1) : x = t[j]
        BY DEF Before
      <4>2. x = f[p] \/ (j - 1 \in 0..(i - 1) /\ x = f[j - 1]) \/ x = f[j]
        BY <1>0, <4>1
      <4> QED BY <3>1, <4>2 DEF Before
    <3>3. f[p] \in Before(t, i)
      <4>1. 0 \in 0..(i - 1) /\ t[0] = f[p]
        BY <1>0, <2>1
      <4> QED BY <4>1 DEF Before
    <3>4. ASSUME NEW x \in Before(f, k)
          PROVE  x \in Before(t, i)
      <4>1. PICK j \in 0..(i - 1) : x = f[j]
        BY <3>1 DEF Before
      <4>2. CASE j < p
        <5>1. j + 1 \in 0..(i - 1) /\ j + 1 # 0 /\ j + 1 <= p /\ (j + 1) - 1 = j
          BY <2>3, <4>2
        <5>2. t[j + 1] = x
          BY <1>0, <4>1, <5>1
        <5> QED BY <5>1, <5>2 DEF Before
      <4>3. CASE j = p
        BY <3>3, <4>1, <4>3
      <4>4. CASE j > p
        <5>1. t[j] = x
          BY <1>0, <4>1, <4>4
        <5> QED BY <5>1 DEF Before
      <4> QED BY <4>2, <4>3, <4>4
    <3> QED BY <3>1, <3>2, <3>3, <3>4
  <2> QED
    BY <2>2, <2>3
<1> QED
  BY <1>1, <1>2
=============================================================================
