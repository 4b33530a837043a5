---------------------------- MODULE FoldTheorems ----------------------------
(***************************************************************************)
(* Induction for the proofs of this project, stated for sets instead of    *)
(* predicates, so that the provers can use it: over the natural numbers,   *)
(* over the subsets of a finite set, and what it takes to unfold FoldLeft. *)
(***************************************************************************)
EXTENDS Integers, FiniteSets, FiniteSetsExt, SequencesExt,
        FiniteSetTheorems, WellFoundedInduction, TLAPS

LEMMA LeastOf ==
    ASSUME NEW N \in SUBSET Nat, N # {}
    PROVE  \E i \in N : \A j \in N : i <= j
<1>1. PICK i \in N : \A j \in N : ~(<<j, i>> \in OpToRel(<, Nat))
  BY NatLessThanWellFounded, WFMin
<1>2. \A j \in N : ~(j < i)
  BY <1>1 DEF OpToRel
<1> QED
  BY <1>2

LEMMA SizesOfSubsets ==
    ASSUME NEW S, IsFiniteSet(S)
    PROVE  \A T \in SUBSET S :
              /\ IsFiniteSet(T) /\ Cardinality(T) \in Nat
              /\ Cardinality(T) <= Cardinality(S)
              /\ T # {} => Cardinality(T) > 0
              /\ \A x \in T : Cardinality(T \ {x}) = Cardinality(T) - 1
BY FS_Subset, FS_CardinalityType, FS_EmptySet, FS_RemoveElement

\* Induction over the subsets of a finite set.
LEMMA SubsetInduction ==
    ASSUME NEW S, IsFiniteSet(S), NEW B, {} \in B,
           \A T \in SUBSET S : T # {} /\ (\A x \in T : T \ {x} \in B) => T \in B
    PROVE  SUBSET S \subseteq B
<1> SUFFICES ASSUME NEW U \in SUBSET S, U \notin B PROVE FALSE
  OBVIOUS
<1> DEFINE N == {Cardinality(T) : T \in {V \in SUBSET S : V \notin B}}
<1>1. N \in SUBSET Nat /\ N # {}
  BY SizesOfSubsets
<1>2. PICK i \in N : \A j \in N : i <= j
  BY <1>1, LeastOf
<1>3. PICK T \in SUBSET S : T \notin B /\ i = Cardinality(T)
  OBVIOUS
<1>4. \A x \in T : T \ {x} \in B
  <2> SUFFICES ASSUME NEW x \in T, T \ {x} \notin B PROVE FALSE
    OBVIOUS
  <2>1. T \ {x} \in SUBSET S /\ Cardinality(T \ {x}) = Cardinality(T) - 1 /\ Cardinality(T) \in Nat
    BY SizesOfSubsets
  <2>2. Cardinality(T \ {x}) \in N
    BY <2>1
  <2>3. i <= Cardinality(T \ {x})
    BY <1>2, <2>2
  <2> QED
    BY <1>3, <2>1, <2>3
<1> QED
  BY <1>3, <1>4

\* Induction up to a number.
LEMMA UpTo ==
    ASSUME NEW n \in Nat, NEW B, 0 \in B, \A i \in 1..n : i - 1 \in B => i \in B
    PROVE  0..n \subseteq B
<1> SUFFICES ASSUME NEW k \in 0..n, k \notin B PROVE FALSE
  OBVIOUS
<1> DEFINE N == {j \in 0..n : j \notin B}
<1>1. N \in SUBSET Nat /\ N # {}
  OBVIOUS
<1>2. PICK i \in N : \A j \in N : i <= j
  BY <1>1, LeastOf
<1>3. i \in 1..n /\ i - 1 \in 0..n
  BY <1>2
<1>4. i - 1 \in B
  BY <1>2, <1>3
<1> QED
  BY <1>2, <1>3, <1>4

-----------------------------------------------------------------------------
(* FoldLeft is a recursive function over the sets of indices, which takes   *)
(* away the largest one.                                                    *)

LEMMA MaxIsElement ==
    ASSUME NEW n \in Nat, NEW s \in SUBSET (1..n), s # {}
    PROVE  Max(s) \in s
<1> DEFINE N == {n - i : i \in s}
<1>1. N \in SUBSET Nat /\ N # {}
  <2>1. \A i \in s : n - i \in Nat
    OBVIOUS
  <2>2. PICK i \in s : TRUE
    OBVIOUS
  <2>3. n - i \in N
    BY <2>2
  <2> QED
    BY <2>1, <2>3
<1>2. PICK k \in N : \A j \in N : k <= j
  BY <1>1, LeastOf
<1>3. PICK m \in s : k = n - m
  BY <1>2
<1>4. \A i \in s : n - m <= n - i
  BY <1>2, <1>3
<1>5. \A i \in s : m >= i
  BY <1>4
<1> QED
  BY <1>3, <1>5 DEF Max

LEMMA MaxOfInterval ==
    ASSUME NEW i \in Nat \ {0}
    PROVE  Max(1..i) = i /\ (1..i) \ {Max(1..i)} = 1..i - 1
<1>1. Max(1..i) \in 1..i /\ \A j \in 1..i : Max(1..i) >= j
  <2>1. i \in 1..i /\ \A j \in 1..i : i >= j
    OBVIOUS
  <2> QED
    BY <2>1 DEF Max
<1>2. Max(1..i) = i
  BY <1>1
<1> QED
  BY <1>2

Folds(f, base, n, Op) ==
    \A s \in SUBSET (1..n) :
        f[s] = IF s = {} THEN base ELSE Op[Max(s)][f[s \ {Max(s)}]]

LEMMA FoldExists ==
    ASSUME NEW V, NEW base \in V, NEW n \in Nat, NEW Op \in [1..n -> [V -> V]]
    PROVE  \E f \in [SUBSET (1..n) -> V] : Folds(f, base, n, Op)
<1> DEFINE S == 1..n
           F == [SUBSET S -> V]
           Step(f, s) == IF s = {} THEN base ELSE Op[Max(s)][f[s \ {Max(s)}]]
           Right(f, k) == \A s \in SUBSET S : Cardinality(s) <= k => f[s] = Step(f, s)
           B == {k \in Nat : \E f \in F : Right(f, k)}
<1>1. IsFiniteSet(S) /\ Cardinality(S) \in Nat
  BY FS_Interval, FS_CardinalityType
<1>2. ASSUME NEW f \in F, NEW s \in SUBSET S PROVE Step(f, s) \in V
  <2>1. CASE s = {}
    BY <2>1
  <2>2. CASE s # {}
    <3>1. Max(s) \in 1..n
      BY <2>2, MaxIsElement
    <3>2. f[s \ {Max(s)}] \in V
      OBVIOUS
    <3>3. Op[Max(s)] \in [V -> V]
      BY <3>1
    <3>4. Op[Max(s)][f[s \ {Max(s)}]] \in V
      BY <3>2, <3>3
    <3> QED
      BY <2>2, <3>4
  <2> QED
    BY <2>1, <2>2
<1>3. 0 \in B
  <2>1. [s \in SUBSET S |-> base] \in F
    OBVIOUS
  <2>2. \A s \in SUBSET S : Cardinality(s) <= 0 => s = {}
    <3> HIDE DEF S
    <3> QED
      BY <1>1, SizesOfSubsets
  <2>3. Right([s \in SUBSET S |-> base], 0)
    <3> HIDE DEF S
    <3> QED
      BY <2>2
  <2> QED
    BY <2>1, <2>3
<1>4. ASSUME NEW k \in 1..Cardinality(S), k - 1 \in B PROVE k \in B
  <2>1. PICK f \in F : Right(f, k - 1)
    BY <1>4
  <2> DEFINE g == [s \in SUBSET S |-> Step(f, s)]
  <2>2. g \in F
    BY <1>2
  <2>3. Right(g, k)
    <3> SUFFICES ASSUME NEW s \in SUBSET S, Cardinality(s) <= k
                 PROVE  Step(f, s) = Step(g, s)
      OBVIOUS
    <3>1. CASE s = {}
      BY <3>1
    <3>2. CASE s # {}
      <4> DEFINE r == s \ {Max(s)}
      <4>1. r \in SUBSET S /\ Cardinality(r) <= k - 1
        <5>1. Max(s) \in s
          BY <3>2, MaxIsElement
        <5>2. Cardinality(r) = Cardinality(s) - 1 /\ Cardinality(s) \in Nat
          <6> HIDE DEF S
          <6> QED
            BY <1>1, <5>1, SizesOfSubsets
        <5>3. Cardinality(s) <= k /\ k \in Int
          OBVIOUS
        <5> HIDE DEF r
        <5>4. Cardinality(r) <= k - 1
          BY <5>2, <5>3
        <5> QED
          BY <5>4 DEF r
      <4>2. f[r] = g[r]
        BY <2>1, <4>1
      <4> QED
        BY <3>2, <4>2
    <3> QED
      BY <3>1, <3>2
  <2>4. k \in Nat
    OBVIOUS
  <2> HIDE DEF Right, F, g
  <2> QED
    BY <2>2, <2>3, <2>4
<1>5. Cardinality(S) \in B
  <2>1. 0..Cardinality(S) \subseteq B
    <3> DEFINE c == Cardinality(S)
    <3>1. c \in Nat /\ \A k \in 1..c : k - 1 \in B => k \in B
      BY <1>1, <1>4
    <3> HIDE DEF B, c
    <3>2. 0..c \subseteq B
      BY <1>3, <3>1, UpTo
    <3> QED
      BY <3>2 DEF c
  <2>2. Cardinality(S) \in 0..Cardinality(S)
    BY <1>1
  <2> HIDE DEF B
  <2> QED
    BY <2>1, <2>2
<1>6. PICK f \in F : Right(f, Cardinality(S))
  BY <1>5
<1>7. \A s \in SUBSET S : f[s] = Step(f, s)
  BY <1>1, <1>6, SizesOfSubsets
<1> QED
  BY <1>7 DEF Folds
=============================================================================
