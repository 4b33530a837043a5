------------------------ MODULE UnconfirmedPoolProofs ------------------------
(***************************************************************************)
(* Proofs about UnconfirmedPool, for every set of transactions, accounts   *)
(* and bounds:                                                             *)
(*                                                                         *)
(*   Books        what the tables say: holds, balances, heights            *)
(*   Inv          what is confirmed, and at which height the pool's rows   *)
(*                are; it does not need any sum                            *)
(*   MemoryTyped  the collections in memory                                *)
(*                                                                         *)
(* Each is inductive, the third one together with the first.  The action   *)
(* properties at the end compare the memory with the tables, step by step. *)
(***************************************************************************)
EXTENDS UnconfirmedPool, FoldTheorems, SequenceTheorems

-----------------------------------------------------------------------------
(* Totals do not depend on the order of their terms, split over parts and    *)
(* grow with their terms.  They are folds: facts about them are shown for a  *)
(* smallest set that would not comply.                                       *)

(* The recursive function behind a total *)

Choice(s) == CHOOSE x \in s : TRUE

SumUp(w, f, s) == IF s = {} THEN 0 ELSE w[Choice(s)] + f[s \ {Choice(s)}]

Sums(w, S) == CHOOSE f : f = [s \in SUBSET S |-> SumUp(w, f, s)]

LEMMA ChoiceIsElement ==
    ASSUME NEW s, s # {}
    PROVE  Choice(s) \in s
BY DEF Choice

LEMMA TotalIsSum ==
    ASSUME NEW w, NEW S
    PROVE  Total(w, S) = Sums(w, S)[S]
BY DEF Total, MapThenSumSet, MapThenFoldSet, Sums, SumUp, Choice

\* The function is right for all subsets when it is right for those of any size.
LEMMA SumsExist ==
    ASSUME NEW w, NEW S, IsFiniteSet(S)
    PROVE  \A s \in SUBSET S : Sums(w, S)[s] = SumUp(w, Sums(w, S), s)
<1> DEFINE Right(f, n) == \A s \in SUBSET S : Cardinality(s) <= n => f[s] = SumUp(w, f, s)
           N == {n \in Nat : ~ \E f : Right(f, n)}
<1>1. N = {}
  <2> SUFFICES ASSUME N # {} PROVE FALSE
    OBVIOUS
  <2>1. PICK n \in N : \A m \in N : n <= m
    BY LeastOf
  <2>2. n # 0
    <3>1. Right([s \in SUBSET S |-> 0], 0)
      BY SizesOfSubsets DEF SumUp
    <3> QED
      BY <3>1
  <2>3. n - 1 \in Nat /\ n - 1 \notin N
    BY <2>1, <2>2
  <2>4. PICK f : Right(f, n - 1)
    BY <2>3
  <2> DEFINE g == [s \in SUBSET S |-> SumUp(w, f, s)]
  <2>5. Right(g, n)
    <3> SUFFICES ASSUME NEW s \in SUBSET S, Cardinality(s) <= n
                 PROVE  SumUp(w, f, s) = SumUp(w, g, s)
      OBVIOUS
    <3>1. CASE s = {}
      BY <3>1 DEF SumUp
    <3>2. CASE s # {}
      <4> DEFINE r == s \ {Choice(s)}
      <4>1. r \in SUBSET S /\ Cardinality(r) <= n - 1
        BY <3>2, ChoiceIsElement, SizesOfSubsets
      <4>2. f[r] = SumUp(w, f, r) /\ g[r] = SumUp(w, f, r)
        BY <2>4, <4>1
      <4> QED
        BY <3>2, <4>2 DEF SumUp
    <3> QED
      BY <3>1, <3>2
  <2> QED
    BY <2>5
<1>2. Cardinality(S) \in Nat /\ \A s \in SUBSET S : Cardinality(s) <= Cardinality(S)
  BY SizesOfSubsets
<1>3. PICK f : Right(f, Cardinality(S))
  BY <1>1, <1>2
<1> DEFINE g == [s \in SUBSET S |-> SumUp(w, f, s)]
<1>4. \A s \in SUBSET S : f[s] = g[s]
  BY <1>2, <1>3
<1>5. \A s \in SUBSET S : SumUp(w, f, s) = SumUp(w, g, s)
  BY <1>4, ChoiceIsElement DEF SumUp
<1>6. g = [s \in SUBSET S |-> SumUp(w, g, s)]
  BY <1>5
<1>7. Sums(w, S) = [s \in SUBSET S |-> SumUp(w, Sums(w, S), s)]
  BY <1>6 DEF Sums
<1> QED
  BY <1>7

LEMMA TotalOfNothing ==
    ASSUME NEW w
    PROVE  Total(w, {}) = 0
<1>1. ASSUME NEW S, S = {} PROVE Total(w, S) = 0
  <2>1. IsFiniteSet(S)
    BY <1>1, FS_EmptySet
  <2>2. Sums(w, S)[S] = SumUp(w, Sums(w, S), S)
    BY <2>1, SumsExist
  <2> QED
    BY <1>1, <2>2, TotalIsSum DEF SumUp
<1> QED
  BY <1>1

LEMMA TotalPicksOne ==
    ASSUME NEW w, NEW S, IsFiniteSet(S), S # {}
    PROVE  Total(w, S) = w[Choice(S)] + Total(w, S \ {Choice(S)})
<1> DEFINE R == S \ {Choice(S)}
           B == {T \in SUBSET R : Sums(w, S)[T] = Sums(w, R)[T]}
<1>1. IsFiniteSet(R) /\ R \in SUBSET S
  BY SizesOfSubsets
<1>2. /\ \A T \in SUBSET S : Sums(w, S)[T] = SumUp(w, Sums(w, S), T)
      /\ \A T \in SUBSET R : Sums(w, R)[T] = SumUp(w, Sums(w, R), T)
  <2> HIDE DEF R
  <2> QED
    BY <1>1, SumsExist
<1>3. {} \in B
  BY <1>1, <1>2 DEF SumUp
<1>4. ASSUME NEW T \in SUBSET R, T # {}, \A x \in T : T \ {x} \in B
      PROVE  T \in B
  <2>1. T \in SUBSET S /\ T \ {Choice(T)} \in B
    BY <1>1, <1>4, ChoiceIsElement
  <2>2. SumUp(w, Sums(w, S), T) = SumUp(w, Sums(w, R), T)
    BY <2>1 DEF SumUp
  <2> QED
    BY <1>2, <2>1, <2>2
<1>5. R \in B
  <2>1. SUBSET R \subseteq B
    <3> HIDE DEF B, R
    <3> QED
      BY <1>1, <1>3, <1>4, SubsetInduction
  <2> QED
    BY <2>1
<1> QED
  BY <1>2, <1>5, TotalIsSum DEF SumUp

-----------------------------------------------------------------------------
(* What totals add up to *)

LEMMA TotalIsInt ==
    ASSUME NEW w, NEW S, IsFiniteSet(S), \A x \in S : w[x] \in Int
    PROVE  \A T \in SUBSET S : Total(w, T) \in Int
<1> DEFINE B == {T \in SUBSET S : Total(w, T) \in Int}
<1>1. {} \in B
  BY TotalOfNothing
<1>2. ASSUME NEW T \in SUBSET S, T # {}, \A x \in T : T \ {x} \in B
      PROVE  T \in B
  <2>1. IsFiniteSet(T) /\ Choice(T) \in T
    BY <1>2, SizesOfSubsets, ChoiceIsElement
  <2>2. Total(w, T) = w[Choice(T)] + Total(w, T \ {Choice(T)})
    BY <1>2, <2>1, TotalPicksOne
  <2>3. w[Choice(T)] \in Int /\ Total(w, T \ {Choice(T)}) \in Int
    BY <1>2, <2>1
  <2> QED
    BY <2>2, <2>3
<1>3. SUBSET S \subseteq B
  <2> HIDE DEF B
  <2> QED
    BY <1>1, <1>2, SubsetInduction
<1> QED
  BY <1>3

\* Any summand may be taken out, whichever one the fold starts with.
LEMMA TotalTakesOut ==
    ASSUME NEW w, NEW S, IsFiniteSet(S), \A x \in S : w[x] \in Int
    PROVE  \A T \in SUBSET S : \A x \in T : Total(w, T) = w[x] + Total(w, T \ {x})
<1> DEFINE B == {T \in SUBSET S : \A x \in T : Total(w, T) = w[x] + Total(w, T \ {x})}
<1>1. {} \in B
  OBVIOUS
<1>2. ASSUME NEW T \in SUBSET S, T # {}, \A x \in T : T \ {x} \in B
      PROVE  T \in B
  <2> SUFFICES ASSUME NEW x \in T PROVE Total(w, T) = w[x] + Total(w, T \ {x})
    OBVIOUS
  <2> DEFINE c == Choice(T)
  <2>1. c \in T /\ Total(w, T) = w[c] + Total(w, T \ {c})
    BY <1>2, SizesOfSubsets, ChoiceIsElement, TotalPicksOne
  <2>2. CASE x = c
    BY <2>1, <2>2
  <2>3. CASE x # c
    <3>1. Total(w, T \ {c}) = w[x] + Total(w, (T \ {c}) \ {x})
      BY <1>2, <2>1, <2>3
    <3>2. Total(w, T \ {x}) = w[c] + Total(w, (T \ {x}) \ {c})
      BY <1>2, <2>1, <2>3
    <3>3. (T \ {c}) \ {x} = (T \ {x}) \ {c}
      OBVIOUS
    <3>4. w[c] \in Int /\ w[x] \in Int /\ Total(w, (T \ {x}) \ {c}) \in Int
      BY <2>1, TotalIsInt
    <3>5. Total(w, T) = w[c] + (w[x] + Total(w, (T \ {x}) \ {c}))
      BY <2>1, <3>1, <3>3
    <3> HIDE DEF c
    <3> QED
      BY <3>2, <3>4, <3>5
  <2> QED
    BY <2>2, <2>3
<1>3. SUBSET S \subseteq B
  <2> HIDE DEF B
  <2> QED
    BY <1>1, <1>2, SubsetInduction
<1> QED
  BY <1>3

LEMMA TotalSplits ==
    ASSUME NEW w, NEW S, IsFiniteSet(S), \A x \in S : w[x] \in Int, NEW R \in SUBSET S
    PROVE  Total(w, S) = Total(w, R) + Total(w, S \ R)
<1> DEFINE B == {T \in SUBSET S : Total(w, S) = Total(w, T) + Total(w, S \ T)}
<1>0. \A T \in SUBSET S : Total(w, T) \in Int
  BY TotalIsInt
<1>1. {} \in B
  <2>1. S \ {} = S
    OBVIOUS
  <2> QED
    BY <1>0, <2>1, TotalOfNothing
<1>2. ASSUME NEW T \in SUBSET S, T # {}, \A x \in T : T \ {x} \in B
      PROVE  T \in B
  <2>1. PICK x \in T : TRUE
    BY <1>2
  <2>2. Total(w, T) = w[x] + Total(w, T \ {x})
    BY TotalTakesOut
  <2>3. S \ (T \ {x}) = (S \ T) \cup {x} /\ ((S \ T) \cup {x}) \ {x} = S \ T
    BY <2>1
  <2>4. Total(w, (S \ T) \cup {x}) = w[x] + Total(w, S \ T)
    BY <2>3, TotalTakesOut
  <2>5. Total(w, S) = Total(w, T \ {x}) + Total(w, (S \ T) \cup {x})
    BY <1>2, <2>1, <2>3
  <2>6. w[x] \in Int /\ Total(w, T \ {x}) \in Int /\ Total(w, S \ T) \in Int
    BY <1>0, <2>1
  <2> QED
    BY <2>2, <2>4, <2>5, <2>6
<1>3. SUBSET S \subseteq B
  <2> HIDE DEF B
  <2> QED
    BY <1>1, <1>2, SubsetInduction
<1> QED
  BY <1>3

LEMMA TotalGrows ==
    ASSUME NEW w, NEW v, NEW S, IsFiniteSet(S),
           \A x \in S : w[x] \in Int /\ v[x] \in Int /\ w[x] <= v[x]
    PROVE  \A T \in SUBSET S : Total(w, T) <= Total(v, T)
<1> DEFINE B == {T \in SUBSET S : Total(w, T) <= Total(v, T)}
<1>1. {} \in B
  BY TotalOfNothing
<1>2. ASSUME NEW T \in SUBSET S, T # {}, \A x \in T : T \ {x} \in B
      PROVE  T \in B
  <2>1. PICK x \in T : TRUE
    BY <1>2
  <2>2. Total(w, T) = w[x] + Total(w, T \ {x}) /\ Total(v, T) = v[x] + Total(v, T \ {x})
    BY TotalTakesOut
  <2>3. Total(w, T \ {x}) \in Int /\ Total(v, T \ {x}) \in Int
    BY TotalIsInt
  <2>4. Total(w, T \ {x}) <= Total(v, T \ {x})
    BY <1>2, <2>1
  <2> QED
    BY <2>1, <2>2, <2>3, <2>4
<1>3. SUBSET S \subseteq B
  <2> HIDE DEF B
  <2> QED
    BY <1>1, <1>2, SubsetInduction
<1> QED
  BY <1>3

LEMMA TotalGrowsStrictly ==
    ASSUME NEW w, NEW v, NEW S, IsFiniteSet(S),
           \A x \in S : w[x] \in Int /\ v[x] \in Int /\ w[x] <= v[x],
           NEW y \in S, w[y] < v[y]
    PROVE  Total(w, S) < Total(v, S)
<1>1. Total(w, S) = w[y] + Total(w, S \ {y}) /\ Total(v, S) = v[y] + Total(v, S \ {y})
  BY TotalTakesOut
<1>2. Total(w, S \ {y}) \in Int /\ Total(v, S \ {y}) \in Int
  BY TotalIsInt
<1>3. Total(w, S \ {y}) <= Total(v, S \ {y})
  BY TotalGrows
<1> QED
  BY <1>1, <1>2, <1>3

LEMMA TotalIsNat ==
    ASSUME NEW w, NEW S, IsFiniteSet(S), \A x \in S : w[x] \in Nat
    PROVE  \A T \in SUBSET S : Total(w, T) \in Nat
<1> DEFINE B == {T \in SUBSET S : Total(w, T) \in Nat}
<1>1. {} \in B
  BY TotalOfNothing
<1>2. ASSUME NEW T \in SUBSET S, T # {}, \A x \in T : T \ {x} \in B
      PROVE  T \in B
  <2>1. PICK x \in T : TRUE
    BY <1>2
  <2>2. Total(w, T) = w[x] + Total(w, T \ {x})
    BY TotalTakesOut
  <2> QED
    BY <1>2, <2>1, <2>2
<1>3. SUBSET S \subseteq B
  <2> HIDE DEF B
  <2> QED
    BY <1>1, <1>2, SubsetInduction
<1> QED
  BY <1>3

-----------------------------------------------------------------------------
(* Account tables *)

AccountTable == [Account -> [balance : Int, unconfirmed : Int]]

\* What a block adds to the balance of an account.
Gain(a, S) == EarnedBy(a, S) - SpentBy(a, S)

LEMMA TotalsOfBlock ==
    ASSUME NEW a, NEW S \in SUBSET Tx
    PROVE  /\ HeldBy(a, S) \in Nat /\ SpentBy(a, S) \in Nat /\ EarnedBy(a, S) \in Nat
           /\ SpentBy(a, S) <= HeldBy(a, S)
           /\ Gain(a, S) \in Int
<1>1. /\ \A t \in Tx : Hold[t] \in Nat /\ Cost[t] \in Nat /\ Cost[t] <= Hold[t]
      /\ \A t \in Tx : Amount[t] \in Nat /\ Fee[t] \in Nat
  BY TxAssumption DEF Hold, Cost
<1>2. /\ {t \in S : Sender[t] = a} \in SUBSET Tx
      /\ {t \in S : Recipient[t] = a} \in SUBSET Tx
  OBVIOUS
<1>3. IsFiniteSet(Tx)
  BY TxAssumption
<1>4. HeldBy(a, S) \in Nat
  BY <1>1, <1>2, <1>3, TotalIsNat DEF HeldBy
<1>5. SpentBy(a, S) \in Nat
  BY <1>1, <1>2, <1>3, TotalIsNat DEF SpentBy
<1>6. Total(Amount, {t \in S : Recipient[t] = a}) \in Nat
  BY <1>1, <1>2, <1>3, TotalIsNat
<1>7. Total(Fee, S) \in Nat
  BY <1>1, <1>3, TotalIsNat
<1>8. SpentBy(a, S) <= HeldBy(a, S)
  BY <1>1, <1>2, <1>3, TotalGrows DEF SpentBy, HeldBy
<1> QED
  BY <1>4, <1>5, <1>6, <1>7, <1>8 DEF EarnedBy, Gain

LEMMA BlockApplied ==
    ASSUME NEW accounts \in AccountTable, NEW S \in SUBSET Tx
    PROVE  /\ ApplyBlock(accounts, S) \in AccountTable
           /\ \A a \in Account :
                 /\ ApplyBlock(accounts, S)[a].balance = accounts[a].balance + Gain(a, S)
                 /\ ApplyBlock(accounts, S)[a].unconfirmed
                        = accounts[a].unconfirmed + Gain(a, S)
<1>1. \A a \in Account : Gain(a, S) \in Int
  BY TotalsOfBlock
<1>2. ApplyBlock(accounts, S) =
         [a \in Account |-> [balance |-> accounts[a].balance + Gain(a, S),
                             unconfirmed |-> accounts[a].unconfirmed + Gain(a, S)]]
  BY DEF ApplyBlock, Gain
<1> QED
  BY <1>1, <1>2 DEF AccountTable

OnTop(l, S) == Append(l, ApplyBlock(l[Len(l)], S))

Builds(tables, blocks) ==
    CHOOSE f : f = [s \in SUBSET DOMAIN blocks |->
                      IF s = {} THEN tables ELSE OnTop(f[s \ {Max(s)}], blocks[Max(s)])]

\* Reapply leaves the tables below alone and adds one for each block.
LEMMA Reapplied ==
    ASSUME NEW tables \in Seq(AccountTable), Len(tables) > 0, NEW blocks \in Seq(SUBSET Tx)
    PROVE  /\ Reapply(tables, blocks) \in Seq(AccountTable)
           /\ Len(Reapply(tables, blocks)) = Len(tables) + Len(blocks)
           /\ \A i \in 1..Len(tables) : Reapply(tables, blocks)[i] = tables[i]
           /\ \A i \in 1..Len(blocks) :
                 Reapply(tables, blocks)[Len(tables) + i]
                     = ApplyBlock(Reapply(tables, blocks)[Len(tables) + i - 1], blocks[i])
<1> DEFINE n == Len(blocks)
           V == Seq(AccountTable) \ {<<>>}
           Op == [i \in 1..n |-> [l \in V |-> OnTop(l, blocks[i])]]
           R == Builds(tables, blocks)
<1>0. n \in Nat /\ DOMAIN blocks = 1..n /\ \A i \in 1..n : blocks[i] \in SUBSET Tx
  BY LenProperties, ElementOfSeq
<1>1. ASSUME NEW l \in V, NEW S \in SUBSET Tx
      PROVE  /\ OnTop(l, S) \in V
             /\ Len(OnTop(l, S)) = Len(l) + 1
             /\ \A i \in 1..Len(l) : OnTop(l, S)[i] = l[i]
             /\ OnTop(l, S)[Len(l) + 1] = ApplyBlock(l[Len(l)], S)
             /\ Len(l) \in Nat \ {0}
  <2>1. Len(l) \in Nat \ {0} /\ l[Len(l)] \in AccountTable
    BY LenProperties, EmptySeq, ElementOfSeq
  <2>2. ApplyBlock(l[Len(l)], S) \in AccountTable
    BY <2>1, BlockApplied
  <2> QED
    BY <2>1, <2>2, AppendProperties DEF OnTop
<1>2. Op \in [1..n -> [V -> V]]
  BY <1>0, <1>1
<1>3. PICK f \in [SUBSET (1..n) -> V] : Folds(f, tables, n, Op)
  <2>1. tables \in V /\ n \in Nat
    BY <1>0
  <2> HIDE DEF Op, V, n
  <2> QED
    BY <1>2, <2>1, FoldExists
<1>4. \A s \in SUBSET (1..n) :
          f[s] = IF s = {} THEN tables ELSE OnTop(f[s \ {Max(s)}], blocks[Max(s)])
  <2> SUFFICES ASSUME NEW s \in SUBSET (1..n), s # {}
               PROVE  Op[Max(s)][f[s \ {Max(s)}]] = OnTop(f[s \ {Max(s)}], blocks[Max(s)])
    BY <1>3 DEF Folds
  <2>1. Max(s) \in 1..n /\ f[s \ {Max(s)}] \in V
    BY <1>0, MaxIsElement
  <2> QED
    BY <2>1
<1>5. f = [s \in SUBSET DOMAIN blocks |->
              IF s = {} THEN tables ELSE OnTop(f[s \ {Max(s)}], blocks[Max(s)])]
  BY <1>0, <1>4
<1>6. R = [s \in SUBSET DOMAIN blocks |->
              IF s = {} THEN tables ELSE OnTop(R[s \ {Max(s)}], blocks[Max(s)])]
  BY <1>5 DEF Builds
<1>7. Reapply(tables, blocks) = R[1..n]
  BY <1>0 DEF Reapply, FoldLeft, MapThenFoldSet, Builds, OnTop
<1> DEFINE Built(i) ==
              /\ R[1..i] \in V /\ Len(R[1..i]) = Len(tables) + i
              /\ \A j \in 1..Len(tables) : R[1..i][j] = tables[j]
              /\ \A j \in 1..i : R[1..i][Len(tables) + j]
                                    = ApplyBlock(R[1..i][Len(tables) + j - 1], blocks[j])
           B == {i \in 0..n : Built(i)}
<1>8. 0 \in B
  <2>1. R[1..0] = tables
    BY <1>0, <1>6
  <2> QED
    BY <1>0, <2>1, LenProperties
<1>9. ASSUME NEW i \in 1..n, i - 1 \in B PROVE i \in B
  <2> DEFINE l == R[1..i - 1]
  <2>1. R[1..i] = OnTop(l, blocks[i])
    <3>1. 1..i \in SUBSET DOMAIN blocks /\ 1..i # {}
      <4>1. \A j \in 1..i : j \in 1..n
        BY <1>0
      <4>2. 1 \in 1..i
        OBVIOUS
      <4> QED
        BY <1>0, <4>1, <4>2
    <3>2. Max(1..i) = i /\ (1..i) \ {Max(1..i)} = 1..i - 1
      BY MaxOfInterval
    <3> QED
      BY <1>6, <3>1, <3>2
  <2>2. Built(i - 1)
    BY <1>9
  <2>3. l \in V /\ Len(l) = Len(tables) + (i - 1) /\ Len(tables) \in Nat
    BY <2>2, LenProperties
  <2>4. /\ R[1..i] \in V /\ Len(R[1..i]) = Len(tables) + i
        /\ \A j \in 1..Len(l) : R[1..i][j] = l[j]
        /\ R[1..i][Len(tables) + i] = ApplyBlock(l[Len(l)], blocks[i])
    <3>1. blocks[i] \in SUBSET Tx
      BY <1>0
    <3> QED
      BY <1>1, <2>1, <2>3, <3>1, SMTT(30)
  <2>5. \A j \in 1..Len(tables) : R[1..i][j] = tables[j]
    BY <2>2, <2>3, <2>4
  <2>6. ASSUME NEW j \in 1..i
        PROVE  R[1..i][Len(tables) + j] = ApplyBlock(R[1..i][Len(tables) + j - 1], blocks[j])
    <3>1. CASE j = i
      <4>1. Len(l) \in 1..Len(l) /\ Len(tables) + j - 1 = Len(l)
        BY <2>3, <3>1
      <4>2. R[1..i][Len(l)] = l[Len(l)]
        BY <2>4, <4>1
      <4> QED
        BY <2>4, <3>1, <4>1, <4>2
    <3>2. CASE j # i
      <4>1. /\ j \in 1..i - 1
            /\ Len(tables) + j \in 1..Len(l) /\ Len(tables) + j - 1 \in 1..Len(l)
        BY <2>3, <3>2
      <4> QED
        BY <2>2, <2>4, <4>1
    <3> QED
      BY <3>1, <3>2
  <2> QED
    BY <2>4, <2>5, <2>6
<1>10. Built(n)
  <2>1. 0..n \subseteq B
    <3> HIDE DEF B, n
    <3> QED
      BY <1>0, <1>8, <1>9, UpTo
  <2> QED
    BY <1>0, <2>1
<1> QED
  BY <1>7, <1>10

-----------------------------------------------------------------------------
(* Queues and holds *)

LEMMA QueueSize ==
    ASSUME NEW q \in Queues
    PROVE  Size(q) \in Nat
<1>1. \A t \in Tx : q[t] \in Nat
  BY BoundAssumption DEF Queues
<1> QED
  BY <1>1, TxAssumption, TotalIsNat DEF Size

\* What is added to a queue is there, as is what was there before, or else the
\* queue is full; and a full queue stays full.
LEMMA QueuedKeeps ==
    ASSUME NEW queue \in Queues, NEW S, NEW q \in Queued(queue, S)
    PROVE  /\ q \in Queues /\ Size(q) <= MaxUnconfirmed
           /\ \A t \in Tx : t \in S \/ queue[t] > 0 => q[t] > 0 \/ Size(q) = MaxUnconfirmed
           /\ Size(queue) = MaxUnconfirmed => Size(q) = MaxUnconfirmed
<1> DEFINE all == Added(queue, S)
<1>1. /\ q \in Queues /\ \A t \in Tx : q[t] <= all[t]
      /\ Size(q) = IF Size(all) > MaxUnconfirmed THEN MaxUnconfirmed ELSE Size(all)
  BY DEF Queued
<1>2. /\ \A t \in Tx : q[t] \in Nat /\ all[t] \in Nat /\ queue[t] \in Nat
      /\ \A t \in Tx : queue[t] <= all[t]
      /\ \A t \in Tx : t \in S \/ queue[t] > 0 => all[t] > 0
  BY <1>1, BoundAssumption DEF Queues, Added
<1> HIDE DEF all
<1>3. Size(all) \in Nat /\ Size(q) \in Nat /\ Size(queue) \in Nat
  BY <1>2, TxAssumption, TotalIsNat DEF Size
<1>4. Size(queue) <= Size(all)
  BY <1>2, TxAssumption, TotalGrows DEF Size
<1>5. ASSUME NEW t \in Tx, Size(all) <= MaxUnconfirmed PROVE q[t] = all[t]
  <2> SUFFICES ASSUME q[t] < all[t] PROVE FALSE
    BY <1>1, <1>2
  <2>1. Size(q) < Size(all)
    BY <1>1, <1>2, TxAssumption, TotalGrowsStrictly DEF Size
  <2> QED
    BY <1>1, <1>3, <1>5, <2>1, BoundAssumption
<1> QED
  BY <1>1, <1>2, <1>3, <1>4, <1>5, BoundAssumption

LEMMA WithoutOne ==
    ASSUME NEW q \in Queues, NEW t \in Tx, q[t] > 0
    PROVE  /\ Without(q, t) \in Queues /\ Size(Without(q, t)) <= Size(q)
           /\ \A u \in Tx : Without(q, t)[u] = IF u = t THEN q[u] - 1 ELSE q[u]
<1>1. \A u \in Tx : q[u] \in 0..MaxUnconfirmed
  BY DEF Queues
<1>2. /\ Without(q, t) \in Queues
      /\ \A u \in Tx : Without(q, t)[u] = IF u = t THEN q[u] - 1 ELSE q[u]
  BY <1>1, BoundAssumption DEF Queues, Without
<1>3. \A u \in Tx : /\ Without(q, t)[u] \in Int /\ q[u] \in Int
                    /\ Without(q, t)[u] <= q[u]
  BY <1>1, <1>2, BoundAssumption
<1>4. Size(Without(q, t)) <= Size(q)
  BY <1>3, TxAssumption, TotalGrows DEF Size
<1> QED
  BY <1>2, <1>4

LEMMA HeldSplits ==
    ASSUME NEW a, NEW P \in SUBSET Tx, NEW T \in SUBSET P
    PROVE  HeldBy(a, P) = HeldBy(a, T) + HeldBy(a, P \ T)
<1> DEFINE mine == {t \in P : Sender[t] = a}
           these == {t \in T : Sender[t] = a}
<1>1. \A t \in Tx : Hold[t] \in Int
  BY TxAssumption DEF Hold
<1>2. IsFiniteSet(mine) /\ these \in SUBSET mine /\ mine \in SUBSET Tx
  BY TxAssumption, FS_Subset
<1>3. {t \in P \ T : Sender[t] = a} = mine \ these
  OBVIOUS
<1>4. Total(Hold, mine) = Total(Hold, these) + Total(Hold, mine \ these)
  <2> HIDE DEF mine, these
  <2> QED
    BY <1>1, <1>2, TotalSplits
<1> QED
  BY <1>3, <1>4 DEF HeldBy

LEMMA NothingHeld ==
    ASSUME NEW a
    PROVE  HeldBy(a, {}) = 0
<1>1. {t \in {} : Sender[t] = a} = {}
  OBVIOUS
<1> QED
  BY <1>1, TotalOfNothing DEF HeldBy

-----------------------------------------------------------------------------
(* Types *)

DurableTyped ==
    /\ chain \in Seq(SUBSET Tx) /\ Height <= MaxHeight
    /\ ledger \in Seq(AccountTable) /\ Len(ledger) = Height + 1
    /\ Pooled \subseteq Tx /\ pool \in [Pooled -> 0..MaxHeight]

\* A sweep looks only at transactions that still wait.
MemoryTyped ==
    /\ cache \subseteq Tx /\ cacheInitialized \in BOOLEAN
    /\ waiting \in Queues /\ Size(waiting) <= MaxUnconfirmed
    /\ duplicates \subseteq KeysOf(Tx)
    /\ unswept \in Queues /\ \A t \in Tx : unswept[t] <= waiting[t]
    /\ condemned \subseteq Tx
    /\ culprits \subseteq Tx /\ Cardinality(culprits) <= 1

LEMMA TopIsTable ==
    ASSUME DurableTyped
    PROVE  /\ Height \in Nat /\ Accounts \in AccountTable
           /\ \A h \in 1..Height + 1 : ledger[h] \in AccountTable
           /\ \A h \in 1..Height : chain[h] \in SUBSET Tx
<1>1. Height \in Nat
  BY LenProperties DEF DurableTyped, Height
<1> QED
  BY <1>1, ElementOfSeq DEF DurableTyped, Accounts, Height

LEMMA TopReplaced ==
    ASSUME DurableTyped, NEW x \in AccountTable, ledger' = AtHeight(x)
    PROVE  /\ ledger' \in Seq(AccountTable) /\ Len(ledger') = Height + 1
           /\ ledger'[Height + 1] = x
           /\ \A h \in 1..Height : ledger'[h] = ledger[h]
<1>1. Height \in Nat /\ Height + 1 \in 1..Len(ledger)
  BY TopIsTable DEF DurableTyped
<1>2. ledger' = [ledger EXCEPT ![Height + 1] = x]
  BY DEF AtHeight
<1> QED
  BY <1>1, <1>2, ExceptSeq DEF DurableTyped

LEMMA HoldsTyped ==
    ASSUME NEW accounts \in AccountTable, NEW S \in SUBSET Tx
    PROVE  /\ Reserve(accounts, S) \in AccountTable
           /\ Release(accounts, S) \in AccountTable
           /\ \A a \in Account :
                 /\ Reserve(accounts, S)[a].balance = accounts[a].balance
                 /\ Release(accounts, S)[a].balance = accounts[a].balance
                 /\ Reserve(accounts, S)[a].unconfirmed
                        = accounts[a].unconfirmed - HeldBy(a, S)
                 /\ Release(accounts, S)[a].unconfirmed
                        = accounts[a].unconfirmed + HeldBy(a, S)
<1>1. \A a \in Account : HeldBy(a, S) \in Int
  BY TotalsOfBlock
<1> QED
  BY <1>1 DEF Reserve, Release, AccountTable

LEMMA Cut ==
    ASSUME NEW T, NEW s \in Seq(T), NEW m \in Nat \ {0}, NEW n \in Nat, n <= Len(s), m <= n + 1
    PROVE  /\ SubSeq(s, m, n) \in Seq(T) /\ Len(SubSeq(s, m, n)) = n - m + 1
           /\ \A i \in 1..n - m + 1 : SubSeq(s, m, n)[i] = s[m + i - 1]
<1>1. \A i \in m..n : s[i] \in T
  BY ElementOfSeq, LenProperties
<1> QED
  BY <1>1, SubSeqProperties

LEMMA GenesisTyped == Genesis \in AccountTable
BY AccountAssumption DEF Genesis, AccountTable

\* What a rescan leaves that applies the blocks from h on again.
LEMMA Rescanned ==
    ASSUME DurableTyped, NEW h \in 1..Height + 1,
           NEW tables \in Seq(AccountTable), Len(tables) = h,
           NEW b \in Seq(SUBSET Tx), Len(b) = Height - h + 1,
           \A i \in 1..Height - h + 1 : b[i] = chain[h + i - 1],
           ledger' = Reapply(tables, b)
    PROVE  /\ ledger' \in Seq(AccountTable) /\ Len(ledger') = Height + 1
           /\ \A i \in 1..h : ledger'[i] = tables[i]
           /\ \A i \in h + 1..Height + 1 : ledger'[i] = ApplyBlock(ledger'[i - 1], chain[i - 1])
<1>1. Height \in Nat
  BY TopIsTable
<1>2. Len(tables) > 0
  BY <1>1
<1>3. /\ ledger' \in Seq(AccountTable) /\ Len(ledger') = Len(tables) + Len(b)
      /\ \A i \in 1..Len(tables) : ledger'[i] = tables[i]
      /\ \A i \in 1..Len(b) : ledger'[Len(tables) + i] = ApplyBlock(ledger'[Len(tables) + i - 1], b[i])
  BY <1>2, Reapplied
<1>4. ASSUME NEW i \in h + 1..Height + 1
      PROVE  ledger'[i] = ApplyBlock(ledger'[i - 1], chain[i - 1])
  <2>1. i - h \in 1..Len(b) /\ h + (i - h) = i /\ h + (i - h) - 1 = i - 1
    BY <1>1
  <2>2. b[i - h] = chain[i - 1]
    BY <1>1, <2>1
  <2> QED
    BY <1>3, <2>1, <2>2
<1> QED
  BY <1>1, <1>3, <1>4

-----------------------------------------------------------------------------
(* Balances *)

\* Below the last block no holds are left.
Settled ==
    \A h \in 1..Height : \A a \in Account : ledger[h][a].unconfirmed = ledger[h][a].balance

\* The balances are what the blocks of the chain make of those at the genesis
\* block: to apply a block again gives what is there already.
Applied ==
    /\ \A a \in Account : ledger[1][a].balance = InitialBalance[a]
    /\ \A h \in 1..Height : \A a \in Account :
          ledger[h + 1][a].balance = ledger[h][a].balance + Gain(a, chain[h])

Books == DurableTyped /\ HoldsMatchPool /\ NoDoubleSpending /\ Settled /\ Applied

BalancesStay ==
    \A h \in 1..Height + 1, a \in Account : ledger'[h][a].balance = ledger[h][a].balance

LEMMA SameBooks ==
    ASSUME Books, UNCHANGED durable
    PROVE  Books' /\ BalancesStay
BY DEF Books, DurableTyped, HoldsMatchPool, NoDoubleSpending, Settled, Applied, BalancesStay,
       durable, Pooled, Height, Accounts, Gain, HeldBy, EarnedBy, SpentBy

LEMMA BooksAreInts ==
    ASSUME Books
    PROVE  /\ Height \in Nat
           /\ \A h \in 1..Height + 1, a \in Account :
                 /\ ledger[h][a].balance \in Nat /\ ledger[h][a].unconfirmed \in Nat
                 /\ ledger[h][a].unconfirmed <= ledger[h][a].balance
<1>1. /\ Height \in Nat
      /\ \A h \in 1..Height + 1 : ledger[h] \in AccountTable
  BY TopIsTable DEF Books
<1> QED
  BY <1>1 DEF AccountTable, Books, NoDoubleSpending

\* A step of the pool: the account table of the last block is all that changes.
LEMMA OnlyHoldsChange ==
    ASSUME Books, UNCHANGED chain, NEW x \in AccountTable, ledger' = AtHeight(x),
           Pooled' \subseteq Tx, pool' \in [Pooled' -> 0..MaxHeight],
           \A a \in Account :
               /\ x[a].balance = Accounts[a].balance
               /\ x[a].balance - x[a].unconfirmed = HeldBy(a, Pooled')
               /\ x[a].unconfirmed >= 0
    PROVE  Books' /\ BalancesStay
<1>1. /\ ledger' \in Seq(AccountTable) /\ Len(ledger') = Height + 1
      /\ ledger'[Height + 1] = x
      /\ \A h \in 1..Height : ledger'[h] = ledger[h]
  BY TopReplaced DEF Books
<1>2. Height' = Height /\ Height \in Nat /\ Accounts' = x
  BY <1>1, TopIsTable DEF Books, Height, Accounts
<1>3. DurableTyped'
  BY <1>1, <1>2 DEF Books, DurableTyped
<1>4. \A h \in 1..Height + 1 : h = Height + 1 \/ h \in 1..Height
  BY <1>2
<1>5. BalancesStay
  BY <1>1, <1>4 DEF BalancesStay, Accounts
<1>6. HoldsMatchPool'
  BY <1>2 DEF HoldsMatchPool
<1>7. NoDoubleSpending'
  <2>1. \A a \in Account : 0 <= x[a].unconfirmed /\ x[a].unconfirmed <= x[a].balance
    <3> SUFFICES ASSUME NEW a \in Account PROVE x[a].unconfirmed <= x[a].balance
      OBVIOUS
    <3>1. HeldBy(a, Pooled') \in Nat
      BY TotalsOfBlock
    <3>2. x[a].balance \in Int /\ x[a].unconfirmed \in Int
      BY DEF AccountTable
    <3> QED
      BY <3>1, <3>2
  <2> QED
    BY <1>1, <1>2, <1>4, <2>1 DEF Books, NoDoubleSpending
<1>8. Settled'
  BY <1>1, <1>2 DEF Books, Settled
<1>9. Applied'
  <2>1. 1 \in 1..Height + 1 /\ \A h \in 1..Height : h \in 1..Height + 1 /\ h + 1 \in 1..Height + 1
    BY <1>2
  <2>2. \A a \in Account : ledger'[1][a].balance = InitialBalance[a]
    BY <1>5, <2>1 DEF Books, Applied, BalancesStay
  <2>3. \A h \in 1..Height, a \in Account :
           ledger'[h + 1][a].balance = ledger'[h][a].balance + Gain(a, chain[h])
    BY <1>5, <2>1 DEF Books, Applied, BalancesStay
  <2> QED
    BY <1>2, <2>2, <2>3 DEF Applied, Gain, EarnedBy, SpentBy
<1> QED
  BY <1>3, <1>5, <1>6, <1>7, <1>8, <1>9 DEF Books

LEMMA AcceptKeepsBooks ==
    ASSUME Books, NEW t \in Tx, Accept(t), UNCHANGED chain
    PROVE  Books' /\ BalancesStay
<1> DEFINE x == Reserve(Accounts, {t})
<1>1. /\ Pooled' = Pooled \cup {t} /\ t \notin Pooled /\ Pooled \subseteq Tx
      /\ pool' \in [Pooled' -> 0..MaxHeight]
  BY TopIsTable DEF Accept, Known, Pooled, Books, DurableTyped
<1>2. /\ x \in AccountTable /\ ledger' = AtHeight(x) /\ Accounts \in AccountTable
      /\ \A a \in Account : /\ x[a].balance = Accounts[a].balance
                            /\ x[a].unconfirmed = Accounts[a].unconfirmed - HeldBy(a, {t})
  BY TopIsTable, HoldsTyped DEF Accept, Books
<1>3. ASSUME NEW a \in Account
      PROVE  /\ x[a].balance - x[a].unconfirmed = HeldBy(a, Pooled')
             /\ x[a].unconfirmed >= 0
  <2>1. HeldBy(a, Pooled') = HeldBy(a, Pooled) + HeldBy(a, {t})
    <3>1. Pooled' \in SUBSET Tx /\ Pooled \in SUBSET Pooled' /\ Pooled' \ Pooled = {t}
      BY <1>1
    <3> QED
      BY <3>1, HeldSplits
  <2>2. HeldBy(a, {t}) \in Nat /\ HeldBy(a, Pooled) \in Nat
    BY <1>1, TotalsOfBlock
  <2>3. Accounts[a].balance \in Int /\ Accounts[a].unconfirmed \in Int
    BY <1>2 DEF AccountTable
  <2>4. HeldBy(a, {t}) <= Accounts[a].unconfirmed
    BY DEF Accept, Affordable
  <2>5. Accounts[a].balance - Accounts[a].unconfirmed = HeldBy(a, Pooled)
    BY DEF Books, HoldsMatchPool
  <2>6. /\ x[a].balance = Accounts[a].balance
        /\ x[a].unconfirmed = Accounts[a].unconfirmed - HeldBy(a, {t})
    BY <1>2
  <2> HIDE DEF x
  <2> QED
    BY <2>1, <2>2, <2>3, <2>4, <2>5, <2>6
<1> HIDE DEF x
<1> QED
  BY <1>1, <1>2, <1>3, OnlyHoldsChange

\* Holds are given back for all that leaves the pool.
LEMMA ReleaseKeepsBooks ==
    ASSUME Books, NEW S, UNCHANGED chain, Pooled' = Pooled \ S, pool' \in [Pooled' -> 0..MaxHeight],
           ledger' = AtHeight(Release(Accounts, S \cap Pooled))
    PROVE  Books' /\ BalancesStay
<1> DEFINE x == Release(Accounts, S \cap Pooled)
<1>1. Pooled \in SUBSET Tx /\ S \cap Pooled \in SUBSET Pooled /\ Pooled \ (S \cap Pooled) = Pooled'
  BY DEF Books, DurableTyped
<1>2. /\ x \in AccountTable /\ Accounts \in AccountTable
      /\ \A a \in Account :
            /\ x[a].balance = Accounts[a].balance
            /\ x[a].unconfirmed = Accounts[a].unconfirmed + HeldBy(a, S \cap Pooled)
  BY <1>1, TopIsTable, HoldsTyped DEF Books
<1>3. ASSUME NEW a \in Account
      PROVE  /\ x[a].balance - x[a].unconfirmed = HeldBy(a, Pooled')
             /\ x[a].unconfirmed >= 0
  <2>1. HeldBy(a, Pooled) = HeldBy(a, S \cap Pooled) + HeldBy(a, Pooled')
    BY <1>1, HeldSplits
  <2>2. HeldBy(a, S \cap Pooled) \in Nat /\ HeldBy(a, Pooled) \in Nat /\ HeldBy(a, Pooled') \in Nat
    BY <1>1, TotalsOfBlock
  <2>3. Accounts[a].balance \in Int /\ Accounts[a].unconfirmed \in Nat
    BY BooksAreInts DEF Accounts
  <2>4. Accounts[a].balance - Accounts[a].unconfirmed = HeldBy(a, Pooled)
    BY DEF Books, HoldsMatchPool
  <2>5. /\ x[a].balance = Accounts[a].balance
        /\ x[a].unconfirmed = Accounts[a].unconfirmed + HeldBy(a, S \cap Pooled)
    BY <1>2
  <2> HIDE DEF x
  <2> QED
    BY <2>1, <2>2, <2>3, <2>4, <2>5
<1> HIDE DEF x
<1>4. ledger' = AtHeight(x)
  BY DEF x
<1> QED
  BY <1>1, <1>2, <1>3, <1>4, OnlyHoldsChange

LEMMA PushKeepsBooks ==
    ASSUME Books, Pooled' = {}, pool' \in [{} -> 0..MaxHeight], NEW S \in SUBSET Tx, Push(S)
    PROVE  Books'
<1> DEFINE released == Release(Accounts, Pooled)
           x == ApplyBlock(released, S)
<1>1. /\ Height \in Nat /\ Height < MaxHeight /\ Pooled \in SUBSET Tx
      /\ chain' = Append(chain, S)
      /\ ledger' = Append(AtHeight(released), x)
      /\ Affordable(released, S)
  BY TopIsTable DEF Push, Books, DurableTyped
<1>2. /\ released \in AccountTable
      /\ \A a \in Account : /\ released[a].balance = Accounts[a].balance
                            /\ released[a].unconfirmed = Accounts[a].balance
                            /\ released[a].balance \in Nat
  <2>1. /\ released \in AccountTable
        /\ \A a \in Account :
              /\ released[a].balance = Accounts[a].balance
              /\ released[a].unconfirmed = Accounts[a].unconfirmed + HeldBy(a, Pooled)
    BY <1>1, TopIsTable, HoldsTyped DEF Books
  <2>2. ASSUME NEW a \in Account
        PROVE  /\ Accounts[a].balance \in Nat
               /\ Accounts[a].unconfirmed + HeldBy(a, Pooled) = Accounts[a].balance
    <3>1. Accounts[a].balance - Accounts[a].unconfirmed = HeldBy(a, Pooled)
      BY DEF Books, HoldsMatchPool
    <3>2. Accounts[a].balance \in Nat /\ Accounts[a].unconfirmed \in Nat
      BY BooksAreInts DEF Accounts
    <3> QED
      BY <3>1, <3>2
  <2> HIDE DEF released
  <2> QED
    BY <2>1, <2>2
<1>3. /\ x \in AccountTable
      /\ \A a \in Account : /\ x[a].balance = Accounts[a].balance + Gain(a, S)
                            /\ x[a].unconfirmed = x[a].balance
                            /\ x[a].balance >= 0
  <2>1. /\ x \in AccountTable
        /\ \A a \in Account : /\ x[a].balance = released[a].balance + Gain(a, S)
                              /\ x[a].unconfirmed = released[a].unconfirmed + Gain(a, S)
    BY <1>2, BlockApplied
  <2>2. ASSUME NEW a \in Account PROVE released[a].balance + Gain(a, S) >= 0
    <3>1. HeldBy(a, S) <= released[a].unconfirmed
      BY <1>1 DEF Affordable
    <3>2. /\ HeldBy(a, S) \in Nat /\ SpentBy(a, S) \in Nat /\ EarnedBy(a, S) \in Nat
          /\ SpentBy(a, S) <= HeldBy(a, S)
      BY TotalsOfBlock
    <3>3. released[a].unconfirmed = released[a].balance /\ released[a].balance \in Nat
      BY <1>2
    <3> HIDE DEF released
    <3> QED
      BY <3>1, <3>2, <3>3 DEF Gain
  <2> HIDE DEF released, x
  <2> QED
    BY <1>2, <2>1, <2>2
<1> DEFINE top == AtHeight(released)
<1>4. /\ top \in Seq(AccountTable) /\ Len(top) = Height + 1
      /\ top[Height + 1] = released
      /\ \A h \in 1..Height : top[h] = ledger[h]
  <2>1. Height + 1 \in 1..Len(ledger) /\ Len(ledger) = Height + 1
    BY <1>1 DEF Books, DurableTyped
  <2> HIDE DEF released
  <2> QED
    BY <1>1, <1>2, <2>1, ExceptSeq DEF AtHeight, Books, DurableTyped
<1>5. /\ ledger' \in Seq(AccountTable) /\ Len(ledger') = Height + 2
      /\ ledger'[Height + 2] = x /\ ledger'[Height + 1] = released
      /\ \A h \in 1..Height : ledger'[h] = ledger[h]
  <2>1. /\ Append(top, x) \in Seq(AccountTable) /\ Len(Append(top, x)) = Len(top) + 1
        /\ \A i \in 1..Len(top) : Append(top, x)[i] = top[i]
        /\ Append(top, x)[Len(top) + 1] = x
    <3> HIDE DEF top, x
    <3> QED
      BY <1>3, <1>4, AppendProperties
  <2> HIDE DEF top, x, released
  <2>2. ledger' = Append(top, x)
    BY <1>1 DEF top
  <2> QED
    BY <1>1, <1>4, <2>1, <2>2
<1>6. /\ chain' \in Seq(SUBSET Tx) /\ Height' = Height + 1
      /\ \A h \in 1..Height : chain'[h] = chain[h]
      /\ chain'[Height + 1] = S
  BY <1>1, AppendProperties DEF Books, DurableTyped, Height
<1> HIDE DEF released, x, top
<1>7. Accounts' = x
  BY <1>1, <1>5, <1>6 DEF Accounts
<1>8. DurableTyped'
  <2>1. Height' <= MaxHeight /\ Len(ledger') = Height' + 1
    BY <1>1, <1>5, <1>6, BoundAssumption
  <2> QED
    BY <1>5, <1>6, <2>1 DEF DurableTyped
<1>9. HoldsMatchPool'
  <2>1. \A a \in Account : x[a].balance - x[a].unconfirmed = 0
    BY <1>3 DEF AccountTable
  <2> QED
    BY <1>7, <2>1, NothingHeld DEF HoldsMatchPool
<1>10. \A h \in 1..Height + 1, a \in Account :
          /\ ledger'[h][a].balance = ledger[h][a].balance
          /\ ledger'[h][a].unconfirmed = ledger[h][a].balance
          /\ ledger[h][a].balance \in Nat
  <2> SUFFICES ASSUME NEW h \in 1..Height + 1, NEW a \in Account
               PROVE  /\ ledger'[h][a].balance = ledger[h][a].balance
                      /\ ledger'[h][a].unconfirmed = ledger[h][a].balance
    BY BooksAreInts
  <2>1. CASE h \in 1..Height
    BY <1>5, <2>1 DEF Books, Settled
  <2>2. CASE h = Height + 1
    BY <1>2, <1>5, <2>2 DEF Accounts
  <2>3. h \in 1..Height \/ h = Height + 1
    BY <1>1
  <2> QED
    BY <2>1, <2>2, <2>3
<1>11. \A h \in 1..Height + 2 : h \in 1..Height + 1 \/ h = Height + 2
  BY <1>1
<1>12. NoDoubleSpending'
  <2> SUFFICES ASSUME NEW h \in 1..Height + 2, NEW a \in Account
               PROVE  /\ 0 <= ledger'[h][a].unconfirmed
                      /\ ledger'[h][a].unconfirmed <= ledger'[h][a].balance
    <3>1. Height' + 1 = Height + 2
      BY <1>1, <1>6
    <3> QED
      BY <3>1 DEF NoDoubleSpending
  <2>1. CASE h \in 1..Height + 1
    BY <1>10, <2>1
  <2>2. CASE h = Height + 2
    BY <1>3, <1>5, <2>2 DEF AccountTable
  <2> QED
    BY <1>11, <2>1, <2>2
<1>13. Settled'
  BY <1>6, <1>10 DEF Settled
<1>14. Applied'
  <2>1. \A a \in Account : ledger'[1][a].balance = InitialBalance[a]
    BY <1>1, <1>10 DEF Books, Applied
  <2>2. ASSUME NEW h \in 1..Height + 1, NEW a \in Account
        PROVE  ledger'[h + 1][a].balance = ledger'[h][a].balance + Gain(a, chain'[h])
    <3>1. CASE h \in 1..Height
      <4>1. h + 1 \in 1..Height + 1
        BY <1>1, <3>1
      <4> QED
        BY <1>6, <1>10, <3>1, <4>1 DEF Books, Applied
    <3>2. CASE h = Height + 1
      <4>1. h + 1 = Height + 2
        BY <1>1, <3>2
      <4> QED
        BY <1>3, <1>5, <1>6, <1>10, <3>2, <4>1 DEF Accounts
    <3>3. h \in 1..Height \/ h = Height + 1
      BY <1>1
    <3> QED
      BY <3>1, <3>2, <3>3
  <2>3. \A h \in 1..Height + 1, a \in Account : Gain(a, chain[h])' = Gain(a, chain'[h])
    BY DEF Gain, EarnedBy, SpentBy
  <2> QED
    BY <1>6, <2>1, <2>2, <2>3 DEF Applied
<1> QED
  BY <1>8, <1>9, <1>12, <1>13, <1>14 DEF Books

LEMMA PopOffKeepsBooks ==
    ASSUME Books, Pooled' = {}, pool' \in [{} -> 0..MaxHeight], NEW h \in Nat, h < Height,
           chain' = SubSeq(chain, 1, h), ledger' = SubSeq(ledger, 1, h + 1)
    PROVE  Books'
<1>1. Height \in Nat /\ Len(ledger) = Height + 1 /\ Len(chain) = Height
  BY TopIsTable DEF Books, DurableTyped, Height
<1>2. /\ chain' \in Seq(SUBSET Tx) /\ Height' = h
      /\ \A i \in 1..h : chain'[i] = chain[i]
  <2>1. /\ SubSeq(chain, 1, h) \in Seq(SUBSET Tx) /\ Len(SubSeq(chain, 1, h)) = h - 1 + 1
        /\ \A i \in 1..h - 1 + 1 : SubSeq(chain, 1, h)[i] = chain[1 + i - 1]
    BY <1>1, Cut DEF Books, DurableTyped
  <2> QED
    BY <2>1 DEF Height
<1>3. /\ ledger' \in Seq(AccountTable) /\ Len(ledger') = h + 1
      /\ \A i \in 1..h + 1 : ledger'[i] = ledger[i]
  <2>1. /\ SubSeq(ledger, 1, h + 1) \in Seq(AccountTable)
        /\ Len(SubSeq(ledger, 1, h + 1)) = (h + 1) - 1 + 1
        /\ \A i \in 1..(h + 1) - 1 + 1 : SubSeq(ledger, 1, h + 1)[i] = ledger[1 + i - 1]
    BY <1>1, Cut DEF Books, DurableTyped
  <2> QED
    BY <2>1
<1>4. \A i \in 1..h + 1 : i \in 1..Height /\ i \in 1..Height + 1
  BY <1>1
<1>5. DurableTyped'
  <2>1. Height' <= MaxHeight
    BY <1>1, <1>2, BoundAssumption DEF Books, DurableTyped
  <2> QED
    BY <1>2, <1>3, <2>1 DEF DurableTyped
<1>6. HoldsMatchPool'
  <2>1. ASSUME NEW a \in Account PROVE Accounts'[a].balance - Accounts'[a].unconfirmed = 0
    <3>1. Accounts'[a] = ledger[h + 1][a] /\ h + 1 \in 1..Height
      BY <1>2, <1>3, <1>4 DEF Accounts
    <3>2. ledger[h + 1][a].balance \in Int /\ ledger[h + 1][a].unconfirmed = ledger[h + 1][a].balance
      BY <1>4, <3>1, BooksAreInts DEF Books, Settled
    <3> QED
      BY <3>1, <3>2
  <2> QED
    BY <2>1, NothingHeld DEF HoldsMatchPool
<1>7. NoDoubleSpending' /\ Settled'
  BY <1>2, <1>3, <1>4 DEF Books, NoDoubleSpending, Settled
<1>8. Applied'
  <2>1. \A a \in Account : ledger'[1][a].balance = InitialBalance[a]
    BY <1>3 DEF Books, Applied
  <2>2. \A i \in 1..h, a \in Account :
           ledger'[i + 1][a].balance = ledger'[i][a].balance + Gain(a, chain'[i])
    BY <1>2, <1>3, <1>4 DEF Books, Applied
  <2>3. \A i \in 1..h, a \in Account : Gain(a, chain[i])' = Gain(a, chain'[i])
    BY DEF Gain, EarnedBy, SpentBy
  <2> QED
    BY <1>2, <2>1, <2>2, <2>3 DEF Applied
<1> QED
  BY <1>5, <1>6, <1>7, <1>8 DEF Books

\* Applying the blocks again gives the balances that were there, without holds.
LEMMA RescanKeepsBooks ==
    ASSUME Books, UNCHANGED chain, Pooled' = {}, pool' \in [{} -> 0..MaxHeight],
           NEW h \in 1..Height + 1,
           NEW tables \in Seq(AccountTable), Len(tables) = h,
           \A i \in 1..h : \A a \in Account :
               /\ tables[i][a].balance = ledger[i][a].balance
               /\ tables[i][a].unconfirmed = tables[i][a].balance,
           NEW b \in Seq(SUBSET Tx), Len(b) = Height - h + 1,
           \A i \in 1..Height - h + 1 : b[i] = chain[h + i - 1],
           ledger' = Reapply(tables, b)
    PROVE  Books' /\ BalancesStay
<1>1. /\ ledger' \in Seq(AccountTable) /\ Len(ledger') = Height + 1
      /\ \A i \in 1..h : ledger'[i] = tables[i]
      /\ \A i \in h + 1..Height + 1 : ledger'[i] = ApplyBlock(ledger'[i - 1], chain[i - 1])
  BY Rescanned DEF Books
<1>2. Height \in Nat /\ Height' = Height
  BY TopIsTable DEF Books, Height
<1> DEFINE Redone(i) == \A a \in Account : /\ ledger'[i][a].balance = ledger[i][a].balance
                                           /\ ledger'[i][a].unconfirmed = ledger[i][a].balance
           B == {i \in 0..Height : Redone(i + 1)}
<1>3. 0 \in B
  BY <1>1, <1>2
<1>4. ASSUME NEW i \in 1..Height, i - 1 \in B PROVE i \in B
  <2>1. Redone(i)
    BY <1>4
  <2>2. CASE i + 1 <= h
    BY <1>1, <2>2
  <2>3. CASE i + 1 > h
    <3>1. ledger'[i + 1] = ApplyBlock(ledger'[i], chain[i])
      <4>1. i + 1 \in h + 1..Height + 1 /\ (i + 1) - 1 = i
        BY <1>2, <2>3
      <4> QED
        BY <1>1, <4>1
    <3>2. ledger'[i] \in AccountTable /\ chain[i] \in SUBSET Tx
      BY <1>1, <1>2, ElementOfSeq, TopIsTable DEF Books
    <3>3. \A a \in Account :
              /\ ledger'[i + 1][a].balance = ledger'[i][a].balance + Gain(a, chain[i])
              /\ ledger'[i + 1][a].unconfirmed = ledger'[i][a].unconfirmed + Gain(a, chain[i])
      BY <3>1, <3>2, BlockApplied
    <3>4. \A a \in Account : ledger[i + 1][a].balance = ledger[i][a].balance + Gain(a, chain[i])
      BY DEF Books, Applied
    <3> QED
      BY <2>1, <3>3, <3>4
  <2> QED
    BY <1>2, <2>2, <2>3
<1>5. \A i \in 1..Height + 1 : Redone(i)
  <2>1. 0..Height \subseteq B
    <3> HIDE DEF B
    <3> QED
      BY <1>2, <1>3, <1>4, UpTo
  <2>2. \A i \in 1..Height + 1 : i - 1 \in 0..Height /\ (i - 1) + 1 = i
    BY <1>2
  <2>3. \A j \in 0..Height : Redone(j + 1)
    BY <2>1
  <2> HIDE DEF Redone
  <2> QED
    BY <2>2, <2>3
<1>6. BalancesStay
  BY <1>5 DEF BalancesStay
<1>7. DurableTyped'
  BY <1>1, <1>2 DEF Books, DurableTyped
<1>8. \A i \in 1..Height + 1, a \in Account : ledger[i][a].balance \in Nat
  BY BooksAreInts
<1>9. HoldsMatchPool'
  <2>1. ASSUME NEW a \in Account PROVE Accounts'[a].balance - Accounts'[a].unconfirmed = 0
    <3>1. Accounts'[a] = ledger'[Height + 1][a] /\ Height + 1 \in 1..Height + 1
      BY <1>2 DEF Accounts
    <3> QED
      BY <1>5, <1>8, <3>1
  <2> QED
    BY <2>1, NothingHeld DEF HoldsMatchPool
<1>10. NoDoubleSpending' /\ Settled'
  <2>0. Height' = Height /\ \A i \in 1..Height : i \in 1..Height + 1
    BY <1>2
  <2>1. \A i \in 1..Height + 1, a \in Account :
           /\ ledger'[i][a].balance = ledger[i][a].balance
           /\ ledger'[i][a].unconfirmed = ledger[i][a].balance
    BY <1>5
  <2>2. \A i \in 1..Height + 1, a \in Account :
           /\ 0 <= ledger'[i][a].unconfirmed
           /\ ledger'[i][a].unconfirmed <= ledger'[i][a].balance
    <3> TAKE i \in 1..Height + 1, a \in Account
    <3>1. ledger[i][a].balance \in Nat
      BY <1>8
    <3> QED
      BY <2>1, <3>1
  <2>3. NoDoubleSpending'
    BY <2>0, <2>2 DEF NoDoubleSpending
  <2>4. Settled'
    BY <2>0, <2>1 DEF Settled
  <2> QED
    BY <2>3, <2>4
<1>11. Applied'
  <2>1. \A a \in Account : ledger'[1][a].balance = InitialBalance[a]
    BY <1>2, <1>5 DEF Books, Applied
  <2>2. \A i \in 1..Height, a \in Account :
           ledger'[i + 1][a].balance = ledger'[i][a].balance + Gain(a, chain[i])
    BY <1>2, <1>5 DEF Books, Applied
  <2> QED
    BY <1>2, <2>1, <2>2 DEF Applied, Gain, EarnedBy, SpentBy
<1> QED
  BY <1>6, <1>7, <1>9, <1>10, <1>11 DEF Books

-----------------------------------------------------------------------------
(* Blocks and rows *)

ChainTyped == chain \in Seq(SUBSET Tx)

\* Every row of the pool is of the last block, so that whatever pops off that
\* block finds all of them.
RowsAreCurrent == \A t \in Pooled : pool[t] = Height

Inv == ChainTyped /\ RowsAreCurrent /\ ConfirmedOnce

-----------------------------------------------------------------------------
(* What the blocks hold after a step. *)

LEMMA HeightIsNat ==
    ASSUME ChainTyped
    PROVE  Height \in Nat
BY LenProperties DEF ChainTyped, Height

LEMMA Appended ==
    ASSUME Inv, NEW S \in SUBSET Tx, S \cap Confirmed = {}, chain' = Append(chain, S),
           Pooled' = {}
    PROVE  Inv'
<1>1. /\ Height \in Nat /\ Height' = Height + 1
      /\ ChainTyped'
      /\ \A h \in 1..Height : chain'[h] = chain[h]
      /\ chain'[Height + 1] = S
  BY HeightIsNat, AppendProperties DEF Inv, ChainTyped, Height
<1>2. \A h \in 1..Height : chain[h] \cap S = {}
  BY DEF Confirmed
<1>3. \A g, h \in 1..Height + 1 : g # h => chain'[g] \cap chain'[h] = {}
  <2> SUFFICES ASSUME NEW g \in 1..Height + 1, NEW h \in 1..Height + 1, g # h
               PROVE  chain'[g] \cap chain'[h] = {}
    OBVIOUS
  <2>1. CASE g \in 1..Height /\ h \in 1..Height
    BY <2>1, <1>1 DEF Inv, ConfirmedOnce
  <2>2. CASE g = Height + 1 /\ h \in 1..Height
    BY <2>2, <1>1, <1>2
  <2>3. CASE g \in 1..Height /\ h = Height + 1
    BY <2>3, <1>1, <1>2
  <2>4. \A i \in 1..Height + 1 : i \in 1..Height \/ i = Height + 1
    BY <1>1
  <2> QED
    BY <2>1, <2>2, <2>3, <2>4
<1> QED
  BY <1>1, <1>3 DEF Inv, RowsAreCurrent, ConfirmedOnce

LEMMA CutOff ==
    ASSUME Inv, NEW h \in Nat, h < Height, chain' = SubSeq(chain, 1, h), Pooled' = {}
    PROVE  Inv'
<1>1. Height \in Nat
  BY HeightIsNat DEF Inv
<1>2. \A i \in 1..h : chain[i] \in SUBSET Tx
  BY <1>1, ElementOfSeq DEF Inv, ChainTyped, Height
<1>3. ChainTyped' /\ Height' = h /\ \A i \in 1..h : chain'[i] = chain[i]
  <2>1. /\ SubSeq(chain, 1, h) \in Seq(SUBSET Tx)
        /\ Len(SubSeq(chain, 1, h)) = IF 1 <= h THEN h - 1 + 1 ELSE 0
        /\ \A i \in 1..h - 1 + 1 : SubSeq(chain, 1, h)[i] = chain[1 + i - 1]
    BY <1>2, SubSeqProperties
  <2> QED
    BY <2>1 DEF ChainTyped, Height
<1> QED
  BY <1>1, <1>3 DEF Inv, RowsAreCurrent, ConfirmedOnce

\* A step that adds no block, and no transaction to the pool that has a block.
LEMMA SameBlocks ==
    ASSUME Inv, UNCHANGED chain, Pooled' \cap Confirmed = {},
           \A t \in Pooled' : pool'[t] = Height
    PROVE  Inv'
BY DEF Inv, ChainTyped, RowsAreCurrent, ConfirmedOnce, Confirmed, Height

\* Popping off or rescanning from below the last block empties the pool.
LEMMA AllRowsMove ==
    ASSUME Inv, NEW h \in Int, h < Height
    PROVE  \A t \in Pooled : pool[t] > h
BY HeightIsNat DEF Inv, RowsAreCurrent

\* A rollback of the tables to the last block.
ToLastBlock == (\E later \in BOOLEAN : PopOff(Height, later)) \/ PartialRescan(Height + 1)

\* Going back to the last block takes no block and no row with it.
LEMMA NothingToMove ==
    ASSUME Inv, ToLastBlock
    PROVE  UNCHANGED chain /\ Pooled' = Pooled /\ pool' = [t \in Pooled |-> pool[t]]
<1>1. Height \in Nat /\ Height = Len(chain)
  BY HeightIsNat DEF Inv, Height
<1>2. ASSUME NEW later \in BOOLEAN, PopOff(Height, later)
      PROVE  UNCHANGED chain /\ Pooled' = Pooled /\ pool' = [t \in Pooled |-> pool[t]]
  <2>1. Pooled \ {t \in Pooled : pool[t] > Height} = Pooled
    BY <1>1 DEF Inv, RowsAreCurrent
  <2>2. pool' = [t \in Pooled |-> pool[t]]
    BY <1>2, <2>1 DEF PopOff
  <2>3. SubSeq(chain, 1, Len(chain)) = chain
    BY SubSeqFull DEF Inv, ChainTyped
  <2> QED
    BY <1>1, <1>2, <2>2, <2>3 DEF PopOff, Pooled
<1>3. CASE PartialRescan(Height + 1)
  <2> DEFINE requeued == {t \in Pooled : pool[t] > (Height + 1) - 1}
  <2>1. pool' = [t \in Pooled \ requeued |-> pool[t]]
    BY <1>3 DEF PartialRescan
  <2>2. pool' = [t \in Pooled |-> pool[t]]
    <3>1. Pooled \ requeued = Pooled
      BY <1>1 DEF Inv, RowsAreCurrent
    <3> HIDE DEF requeued
    <3> QED
      BY <2>1, <3>1
  <2> QED
    BY <1>3, <2>2 DEF PartialRescan, Pooled
<1> QED
  BY <1>2, <1>3 DEF ToLastBlock

-----------------------------------------------------------------------------
LEMMA Initially ==
    ASSUME Init
    PROVE  Inv
BY DEF Init, Inv, ChainTyped, RowsAreCurrent, ConfirmedOnce, Pooled, Confirmed, Height

LEMMA AcceptKeepsInv ==
    ASSUME Inv, NEW t \in Tx, Accept(t), UNCHANGED chain
    PROVE  Inv'
<1>1. Pooled' = Pooled \cup {t} /\ t \notin Confirmed
  BY DEF Accept, Known, Pooled
<1>2. \A u \in Pooled' : pool'[u] = Height
  BY <1>1 DEF Accept, Inv, RowsAreCurrent
<1> QED
  BY <1>1, <1>2, SameBlocks DEF Inv, ConfirmedOnce

LEMMA RemoveKeepsInv ==
    ASSUME Inv, NEW S, RemoveFromPool(S)
    PROVE  Inv'
<1>1. Pooled' = Pooled \ S /\ UNCHANGED chain /\ \A t \in Pooled' : pool'[t] = pool[t]
  BY DEF RemoveFromPool, Pooled
<1> QED
  BY <1>1, SameBlocks DEF Inv, ConfirmedOnce, RowsAreCurrent

LEMMA EmptyPool ==
    ASSUME pool' = <<>>
    PROVE  Pooled' = {}
BY DEF Pooled

LEMMA PoolStep ==
    ASSUME Inv, PoolNext
    PROVE  Inv'
<1> USE DEF durable, memory
<1>0. ASSUME UNCHANGED durable PROVE Inv'
  BY <1>0 DEF Inv, ChainTyped, RowsAreCurrent, ConfirmedOnce, Pooled, Confirmed, Height
<1>1. ASSUME NEW t \in Tx, Receive(t) \/ SweepAccepts(t) PROVE Inv'
  BY <1>1, AcceptKeepsInv DEF Receive, SweepAccepts
<1>2. ASSUME NEW t \in Tx, BroadcastLater(t) \/ SweepDrops(t) \/ SweepKeeps(t) PROVE Inv'
  BY <1>0, <1>2 DEF BroadcastLater, SweepDrops, SweepKeeps
<1>3. ASSUME BeginSweep \/ FillCache \/ Restart \/ Rebroadcast PROVE Inv'
  BY <1>0, <1>3 DEF BeginSweep, FillCache, Restart, Rebroadcast
<1>4. ASSUME NEW S \in SUBSET Tx, FindExpired(S) PROVE Inv'
  BY <1>0, <1>4 DEF FindExpired
<1>5. CASE RemoveExpired
  BY <1>5, RemoveKeepsInv DEF RemoveExpired
<1>6. CASE Clear \/ Requeue
  <2>1. UNCHANGED chain /\ Pooled' = {}
    BY <1>6, EmptyPool DEF Clear, Requeue
  <2> QED
    BY <2>1, SameBlocks
<1> QED
  BY <1>1, <1>2, <1>3, <1>4, <1>5, <1>6 DEF PoolNext

LEMMA BlockStep ==
    ASSUME Inv, BlockNext
    PROVE  Inv'
<1>h. Height \in Nat
  BY HeightIsNat DEF Inv
<1>r. ASSUME ToLastBlock PROVE Inv'
  <2>1. UNCHANGED chain /\ Pooled' = Pooled /\ \A t \in Pooled : pool'[t] = pool[t]
    BY <1>r, NothingToMove
  <2> QED
    BY <2>1, SameBlocks DEF Inv, RowsAreCurrent, ConfirmedOnce
<1>0. ASSUME UNCHANGED durable PROVE Inv'
  BY <1>0 DEF Inv, ChainTyped, RowsAreCurrent, ConfirmedOnce, Pooled, Confirmed, Height, durable
<1>1. ASSUME NEW S \in SUBSET Tx, Push(S) PROVE Inv'
  <2>1. S \cap Confirmed = {} /\ chain' = Append(chain, S) /\ pool' = <<>>
    BY <1>1 DEF Push
  <2> QED
    BY <2>1, EmptyPool, Appended
<1>2. CASE PushFails
  BY <1>0, <1>2 DEF PushFails
<1>3. ASSUME NEW h \in 0..MaxHeight, NEW later \in BOOLEAN, PopOff(h, later) PROVE Inv'
  <2>1. CASE h < Height
    <3>1. Pooled' = Pooled \ {t \in Pooled : pool[t] > h}
      BY <1>3 DEF PopOff, Pooled
    <3>2. Pooled' = {} /\ chain' = SubSeq(chain, 1, h)
      BY <1>3, <2>1, <3>1, AllRowsMove DEF PopOff
    <3> QED
      BY <2>1, <3>2, CutOff
  <2>2. CASE h = Height
    <3>1. PopOff(Height, later)
      BY <1>3, <2>2
    <3> QED
      BY <1>r, <3>1 DEF ToLastBlock
  <2>3. h < Height \/ h = Height
    BY <1>3, <1>h DEF PopOff
  <2> QED
    BY <2>1, <2>2, <2>3
<1>4. ASSUME NEW h \in 1..MaxHeight + 1, PartialRescan(h) PROVE Inv'
  <2>1. CASE h \in 1..Height
    <3>1. Pooled' = Pooled \ {t \in Pooled : pool[t] > h - 1}
      BY <1>4 DEF PartialRescan, Pooled
    <3>2. h - 1 \in Int /\ h - 1 < Height
      BY <1>h, <2>1
    <3>3. Pooled' = {} /\ UNCHANGED chain
      BY <1>4, <3>1, <3>2, AllRowsMove DEF PartialRescan
    <3> QED
      BY <3>3, SameBlocks
  <2>2. CASE h = Height + 1
    <3>1. PartialRescan(Height + 1)
      BY <1>4, <2>2
    <3> QED
      BY <1>r, <3>1 DEF ToLastBlock
  <2>3. h \in 1..Height \/ h = Height + 1
    BY <1>4, <1>h DEF PartialRescan
  <2> QED
    BY <2>1, <2>2, <2>3
<1>5. CASE FullRescan
  <2>1. UNCHANGED chain /\ Pooled' = {}
    BY <1>5, EmptyPool DEF FullRescan
  <2> QED
    BY <2>1, SameBlocks
<1>6. ASSUME NEW t \in Tx, ForgeFails(t) PROVE Inv'
  BY <1>0, <1>6 DEF ForgeFails
<1>7. CASE RemoveCulprit
  BY <1>7, RemoveKeepsInv DEF RemoveCulprit
<1> QED
  BY <1>1, <1>2, <1>3, <1>4, <1>5, <1>6, <1>7 DEF BlockNext

LEMMA InvHolds == Spec => []Inv
<1>1. Init => Inv
  BY Initially
<1>2. Inv /\ [Next]_vars => Inv'
  <2> SUFFICES ASSUME Inv, [Next]_vars PROVE Inv'
    OBVIOUS
  <2>1. CASE UNCHANGED vars
    BY <2>1 DEF vars, durable, Inv, ChainTyped, RowsAreCurrent, ConfirmedOnce,
                Pooled, Confirmed, Height
  <2> QED
    BY <2>1, PoolStep, BlockStep DEF Next
<1> QED
  BY <1>1, <1>2, PTL DEF Spec

\* A transaction is in one block at most, and never in the pool and in a block
\* at the same time, however blocks are pushed, popped off, rescanned and forged.
THEOREM ConfirmedOnceCorrect == Spec => []ConfirmedOnce
<1>1. Inv => ConfirmedOnce
  BY DEF Inv
<1> QED
  BY <1>1, InvHolds, PTL

-----------------------------------------------------------------------------
(* Every step keeps the books *)

LEMMA EmptyPoolTyped ==
    ASSUME pool' = <<>>
    PROVE  Pooled' = {} /\ pool' \in [{} -> 0..MaxHeight]
BY DEF Pooled

LEMMA RemoveKeepsBooks ==
    ASSUME Books, NEW S, RemoveFromPool(S)
    PROVE  Books' /\ BalancesStay
<1>1. Pooled' = Pooled \ S /\ UNCHANGED chain /\ ledger' = AtHeight(Release(Accounts, S \cap Pooled))
  BY DEF RemoveFromPool, Pooled
<1>2. pool' \in [Pooled' -> 0..MaxHeight]
  BY <1>1 DEF RemoveFromPool, Books, DurableTyped
<1> QED
  BY <1>1, <1>2, ReleaseKeepsBooks

LEMMA BooksInitially ==
    ASSUME Init
    PROVE  Books
<1>1. /\ chain = <<>> /\ ledger = <<Genesis>> /\ pool = <<>> /\ Height = 0
      /\ Genesis \in AccountTable /\ ledger[1] = Genesis /\ Accounts = Genesis
      /\ Len(ledger) = 1 /\ ledger \in Seq(AccountTable)
  BY GenesisTyped DEF Init, Height, Accounts
<1>2. Pooled = {} /\ pool \in [{} -> 0..MaxHeight]
  BY <1>1 DEF Pooled
<1>3. DurableTyped
  BY <1>1, <1>2, BoundAssumption DEF DurableTyped
<1>4. \A a \in Account : /\ Genesis[a].balance = InitialBalance[a]
                         /\ Genesis[a].unconfirmed = InitialBalance[a]
                         /\ InitialBalance[a] \in Nat
  BY AccountAssumption DEF Genesis
<1>5. HoldsMatchPool
  BY <1>1, <1>2, <1>4, NothingHeld DEF HoldsMatchPool
<1>6. NoDoubleSpending /\ Settled /\ Applied
  BY <1>1, <1>4 DEF NoDoubleSpending, Settled, Applied
<1> QED
  BY <1>3, <1>5, <1>6 DEF Books

BooksStep == Books' /\ (chain' = chain => BalancesStay)

LEMMA PoolKeepsBooks ==
    ASSUME Books, PoolNext
    PROVE  BooksStep
<1> USE DEF BooksStep
<1>0. ASSUME UNCHANGED durable PROVE BooksStep
  BY <1>0, SameBooks
<1>1. ASSUME NEW t \in Tx, Receive(t) \/ SweepAccepts(t) PROVE BooksStep
  BY <1>1, AcceptKeepsBooks DEF Receive, SweepAccepts
<1>2. ASSUME NEW t \in Tx, BroadcastLater(t) \/ SweepDrops(t) \/ SweepKeeps(t) PROVE BooksStep
  BY <1>0, <1>2 DEF BroadcastLater, SweepDrops, SweepKeeps
<1>3. ASSUME BeginSweep \/ FillCache \/ Restart \/ Rebroadcast PROVE BooksStep
  BY <1>0, <1>3 DEF BeginSweep, FillCache, Restart, Rebroadcast
<1>4. ASSUME NEW S \in SUBSET Tx, FindExpired(S) PROVE BooksStep
  BY <1>0, <1>4 DEF FindExpired
<1>5. CASE RemoveExpired
  BY <1>5, RemoveKeepsBooks DEF RemoveExpired
<1>6. CASE Clear \/ Requeue
  <2>1. UNCHANGED chain /\ pool' = <<>> /\ ledger' = AtHeight(Release(Accounts, Pooled))
    BY <1>6 DEF Clear, Requeue
  <2>2. Pooled' = Pooled \ Pooled /\ pool' \in [Pooled' -> 0..MaxHeight] /\ Pooled \cap Pooled = Pooled
    BY <2>1, EmptyPoolTyped
  <2> QED
    BY <2>1, <2>2, ReleaseKeepsBooks
<1> QED
  BY <1>1, <1>2, <1>3, <1>4, <1>5, <1>6 DEF PoolNext

LEMMA NothingMoves ==
    ASSUME Inv, Books, ToLastBlock
    PROVE  UNCHANGED durable
<1>1. /\ Height \in Nat /\ Len(ledger) = Height + 1 /\ Len(ledger) > 0
      /\ ledger \in Seq(AccountTable) /\ pool \in [Pooled -> 0..MaxHeight]
  BY HeightIsNat DEF Inv, Books, DurableTyped
<1>2. UNCHANGED <<chain, pool>>
  BY <1>1, NothingToMove
<1>3. SubSeq(ledger, 1, Height + 1) = ledger
  BY <1>1, SubSeqFull
<1>4. ASSUME NEW later \in BOOLEAN, PopOff(Height, later) PROVE ledger' = ledger
  <2>1. ledger' = SubSeq(ledger, 1, Height + 1)
    BY <1>4 DEF PopOff
  <2> QED
    BY <1>3, <2>1
<1>5. ASSUME PartialRescan(Height + 1) PROVE ledger' = ledger
  <2> DEFINE l == Reapply(ledger, <<>>)
  <2>1. SubSeq(chain, Height + 1, Height) = <<>> /\ <<>> \in Seq(SUBSET Tx) /\ Len(<<>>) = 0
    BY <1>1, SubSeqEmpty, EmptySeq
  <2>2. ledger' = l
    BY <1>3, <1>5, <2>1 DEF PartialRescan
  <2>3. /\ l \in Seq(AccountTable) /\ Len(l) = Len(ledger) + Len(<<>>)
        /\ \A i \in 1..Len(ledger) : l[i] = ledger[i]
    BY <1>1, <2>1, Reapplied
  <2> HIDE DEF l
  <2>4. Len(l) = Len(ledger) /\ \A i \in 1..Len(l) : l[i] = ledger[i]
    BY <1>1, <2>1, <2>3
  <2>5. l = ledger
    BY <1>1, <2>3, <2>4, SeqEqual
  <2> QED
    BY <2>2, <2>5
<1> QED
  BY <1>2, <1>4, <1>5 DEF ToLastBlock, durable

LEMMA BlocksKeepBooks ==
    ASSUME Inv, Books, BlockNext
    PROVE  BooksStep
<1> USE DEF BooksStep
<1>a. Height \in Nat /\ Len(chain) = Height /\ Len(ledger) = Height + 1
  BY HeightIsNat DEF Inv, Books, DurableTyped, Height
<1>0. ASSUME UNCHANGED durable PROVE BooksStep
  BY <1>0, SameBooks
<1>1. ASSUME NEW S \in SUBSET Tx, Push(S) PROVE BooksStep
  <2>1. pool' = <<>> /\ chain' = Append(chain, S)
    BY <1>1 DEF Push
  <2>2. chain' # chain
    <3>1. Len(Append(chain, S)) = Len(chain) + 1
      BY AppendProperties DEF Inv, ChainTyped
    <3> QED
      BY <1>a, <2>1, <3>1
  <2> QED
    BY <1>1, <2>1, <2>2, EmptyPoolTyped, PushKeepsBooks
<1>2. CASE PushFails
  BY <1>0, <1>2 DEF PushFails
<1>3. ASSUME NEW h \in 0..MaxHeight, NEW later \in BOOLEAN, h < Height, PopOff(h, later)
      PROVE  BooksStep
  <2>1. /\ h < Height /\ chain' = SubSeq(chain, 1, h) /\ ledger' = SubSeq(ledger, 1, h + 1)
        /\ pool' \in [Pooled' -> 0..MaxHeight]
        /\ Pooled' = Pooled \ {t \in Pooled : pool[t] > h}
    BY <1>3 DEF PopOff, Pooled, Books, DurableTyped
  <2>2. Pooled' = {}
    BY <2>1, AllRowsMove
  <2>3. Books'
    <3>1. h \in Nat
      BY BoundAssumption
    <3>2. pool' \in [{} -> 0..MaxHeight]
      BY <2>1, <2>2
    <3> QED
      BY <2>1, <2>2, <3>1, <3>2, PopOffKeepsBooks
  <2>4. chain' # chain
    <3>1. Len(SubSeq(chain, 1, h)) = h - 1 + 1
      BY <1>a, <2>1, Cut DEF Books, DurableTyped
    <3> QED
      BY <1>a, <2>1, <3>1
  <2> QED
    BY <2>3, <2>4
<1>4. ASSUME NEW h \in 1..Height, PartialRescan(h) PROVE BooksStep
  <2>1. /\ h \in 1..Height /\ UNCHANGED chain
        /\ ledger' = Reapply(SubSeq(ledger, 1, h), SubSeq(chain, h, Height))
        /\ pool' \in [Pooled' -> 0..MaxHeight]
        /\ Pooled' = Pooled \ {t \in Pooled : pool[t] > h - 1}
    BY <1>4 DEF PartialRescan, Pooled, Books, DurableTyped
  <2>2. Pooled' = {}
    <3>1. h - 1 \in Int /\ h - 1 < Height
      BY <1>a, <2>1
    <3> QED
      BY <2>1, <3>1, AllRowsMove
  <2> DEFINE tables == SubSeq(ledger, 1, h)
             b == SubSeq(chain, h, Height)
  <2>3. /\ tables \in Seq(AccountTable) /\ Len(tables) = h - 1 + 1
        /\ \A i \in 1..h - 1 + 1 : tables[i] = ledger[1 + i - 1]
    BY <1>a, <2>1, Cut DEF Books, DurableTyped
  <2>4. /\ b \in Seq(SUBSET Tx) /\ Len(b) = Height - h + 1
        /\ \A i \in 1..Height - h + 1 : b[i] = chain[h + i - 1]
    BY <1>a, <2>1, Cut DEF Books, DurableTyped
  <2>5. \A i \in 1..h : \A a \in Account :
            /\ tables[i][a].balance = ledger[i][a].balance
            /\ tables[i][a].unconfirmed = tables[i][a].balance
    <3>1. \A i \in 1..h : i \in 1..Height /\ tables[i] = ledger[i]
      BY <1>a, <2>1, <2>3
    <3> HIDE DEF tables
    <3> QED
      BY <3>1 DEF Books, Settled
  <2>6. ledger' = Reapply(tables, b) /\ Len(tables) = h /\ h \in 1..Height + 1
    BY <1>a, <2>1, <2>3
  <2> HIDE DEF tables, b
  <2> QED
    BY <2>1, <2>2, <2>3, <2>4, <2>5, <2>6, RescanKeepsBooks
<1>5. CASE FullRescan
  <2>1. UNCHANGED chain /\ pool' = <<>> /\ ledger' = Reapply(<<Genesis>>, chain)
    BY <1>5 DEF FullRescan
  <2> DEFINE tables == <<Genesis>>
  <2>2. tables \in Seq(AccountTable) /\ Len(tables) = 1 /\ tables[1] = Genesis
    BY GenesisTyped
  <2>3. \A i \in 1..1 : \A a \in Account :
            /\ tables[i][a].balance = ledger[i][a].balance
            /\ tables[i][a].unconfirmed = tables[i][a].balance
    BY <2>2 DEF Books, Applied, Genesis
  <2>4. /\ chain \in Seq(SUBSET Tx) /\ Len(chain) = Height - 1 + 1
        /\ \A i \in 1..Height - 1 + 1 : chain[i] = chain[1 + i - 1]
        /\ 1 \in 1..Height + 1
    BY <1>a DEF Books, DurableTyped
  <2>5. ledger' = Reapply(tables, chain)
    BY <2>1
  <2> HIDE DEF tables
  <2> QED
    BY <2>1, <2>2, <2>3, <2>4, <2>5, EmptyPoolTyped, RescanKeepsBooks
<1>6. ASSUME NEW t \in Tx, ForgeFails(t) PROVE BooksStep
  BY <1>0, <1>6 DEF ForgeFails
<1>7. CASE RemoveCulprit
  BY <1>7, RemoveKeepsBooks DEF RemoveCulprit
<1>8. ASSUME NEW h \in 0..MaxHeight, NEW later \in BOOLEAN, PopOff(h, later) PROVE BooksStep
  <2>1. h < Height \/ h = Height
    BY <1>8, <1>a DEF PopOff
  <2>2. CASE h = Height
    <3>1. PopOff(Height, later)
      BY <1>8, <2>2
    <3>2. ToLastBlock
      BY <3>1 DEF ToLastBlock
    <3> QED
      BY <1>0, <3>2, NothingMoves
  <2> QED
    BY <1>3, <1>8, <2>1, <2>2
<1>9. ASSUME NEW h \in 1..MaxHeight + 1, PartialRescan(h) PROVE BooksStep
  <2>1. h \in 1..Height \/ h = Height + 1
    BY <1>9, <1>a DEF PartialRescan
  <2>2. CASE h = Height + 1
    <3>1. PartialRescan(Height + 1)
      BY <1>9, <2>2
    <3>2. ToLastBlock
      BY <3>1 DEF ToLastBlock
    <3> QED
      BY <1>0, <3>2, NothingMoves
  <2> QED
    BY <1>4, <1>9, <2>1, <2>2
<1> QED
  BY <1>1, <1>2, <1>5, <1>6, <1>7, <1>8, <1>9 DEF BlockNext

LEMMA StepKeepsBooks ==
    ASSUME Inv, Books, [Next]_vars
    PROVE  BooksStep
<1>1. CASE UNCHANGED vars
  <2>1. UNCHANGED durable
    BY <1>1 DEF vars
  <2> QED
    BY <2>1, SameBooks DEF BooksStep
<1> QED
  BY <1>1, PoolKeepsBooks, BlocksKeepBooks DEF Next

LEMMA BooksHold == Spec => []Books
<1>1. Init => Books
  BY BooksInitially
<1>2. Inv /\ Books /\ [Next]_vars => Books'
  BY StepKeepsBooks DEF BooksStep
<1> QED
  BY <1>1, <1>2, InvHolds, PTL DEF Spec

\* What the accounts have less in their unconfirmed balance is what the pool
\* holds back, through every sequence of accepting, removing, requeueing,
\* pushing, popping off and rescanning.
THEOREM HoldsMatchPoolCorrect == Spec => []HoldsMatchPool
<1>1. Books => HoldsMatchPool
  BY DEF Books
<1> QED
  BY <1>1, BooksHold, PTL

\* No account ever spends or reserves more than it has.
THEOREM NoDoubleSpendingCorrect == Spec => []NoDoubleSpending
<1>1. Books => NoDoubleSpending
  BY DEF Books
<1> QED
  BY <1>1, BooksHold, PTL

\* The rows of the pool are of the last block, and no hold is left below it.
THEOREM PoolIsCurrentCorrect == Spec => []PoolIsCurrent
<1>1. Inv /\ Books => PoolIsCurrent
  BY DEF Inv, Books, RowsAreCurrent, Settled, PoolIsCurrent
<1> QED
  BY <1>1, InvHolds, BooksHold, PTL

\* What the pool does, and a rescan of any depth, leaves all confirmed balances
\* as they are.
THEOREM BalancesFollowChainCorrect == Spec => BalancesFollowChain
<1>1. Inv /\ Books /\ [Next]_vars =>
          (chain' = chain =>
              \A h \in 1..Height + 1, a \in Account :
                  ledger'[h][a].balance = ledger[h][a].balance)
  BY StepKeepsBooks DEF BooksStep, BalancesStay
<1> QED
  BY <1>1, InvHolds, BooksHold, PTL DEF Spec, BalancesFollowChain

-----------------------------------------------------------------------------
(* Memory *)

LEMMA EmptyQueueTyped ==
    /\ EmptyQueue \in Queues /\ \A t \in Tx : EmptyQueue[t] = 0
    /\ Size(EmptyQueue) = 0
<1>1. EmptyQueue \in Queues /\ \A t \in Tx : EmptyQueue[t] = 0
  BY BoundAssumption DEF EmptyQueue, Queues
<1> DEFINE B == {S \in SUBSET Tx : Total(EmptyQueue, S) = 0}
<1>2. {} \in B
  BY TotalOfNothing
<1>3. ASSUME NEW S \in SUBSET Tx, S # {}, \A t \in S : S \ {t} \in B PROVE S \in B
  <2>1. IsFiniteSet(S) /\ Choice(S) \in S
    BY <1>3, TxAssumption, SizesOfSubsets, ChoiceIsElement
  <2>2. Total(EmptyQueue, S) = EmptyQueue[Choice(S)] + Total(EmptyQueue, S \ {Choice(S)})
    BY <1>3, <2>1, TotalPicksOne
  <2> QED
    BY <1>1, <1>3, <2>1, <2>2
<1>4. SUBSET Tx \subseteq B
  <2> HIDE DEF B
  <2> QED
    BY <1>2, <1>3, TxAssumption, SubsetInduction
<1>5. Tx \in B
  BY <1>4
<1> QED
  BY <1>1, <1>5 DEF Size

LEMMA FewCulprits ==
    Cardinality({}) <= 1 /\ \A t \in Tx : Cardinality({t}) <= 1
<1>1. Cardinality({}) = 0
  BY FS_EmptySet
<1>2. \A t \in Tx : Cardinality({t}) = 1
  BY FS_Singleton
<1> QED
  BY <1>1, <1>2

LEMMA MemoryInitially ==
    ASSUME Init
    PROVE  MemoryTyped
<1>1. EmptyQueue \in Queues /\ Size(EmptyQueue) <= MaxUnconfirmed /\ \A t \in Tx : EmptyQueue[t] <= EmptyQueue[t]
  BY EmptyQueueTyped, BoundAssumption
<1> QED
  BY <1>1, FewCulprits DEF Init, MemoryTyped

\* The sweep goes on with what was left to it, or there is none under way.
LEMMA QueueReplaced ==
    ASSUME MemoryTyped, NEW S, waiting' \in Queued(waiting, S), unswept = EmptyQueue,
           unswept' = unswept \/ unswept' = waiting'
    PROVE  /\ waiting' \in Queues /\ Size(waiting') <= MaxUnconfirmed
           /\ unswept' \in Queues /\ \A t \in Tx : unswept'[t] <= waiting'[t]
<1>1. waiting' \in Queues /\ Size(waiting') <= MaxUnconfirmed
  BY QueuedKeeps DEF MemoryTyped
<1>2. \A t \in Tx : waiting'[t] \in Nat
  BY <1>1, BoundAssumption DEF Queues
<1> QED
  BY <1>1, <1>2, EmptyQueueTyped

\* One transaction is looked at, and stays in the queue or does not.
LEMMA SweptOne ==
    ASSUME MemoryTyped, NEW t \in Tx, unswept[t] > 0, unswept' = Without(unswept, t),
           waiting' = Without(waiting, t) \/ waiting' = waiting
    PROVE  /\ waiting' \in Queues /\ Size(waiting') <= MaxUnconfirmed
           /\ unswept' \in Queues /\ \A u \in Tx : unswept'[u] <= waiting'[u]
<1>1. \A u \in Tx : unswept[u] \in Nat /\ waiting[u] \in Nat /\ unswept[u] <= waiting[u]
  BY BoundAssumption DEF MemoryTyped, Queues
<1>2. waiting \in Queues /\ unswept \in Queues /\ waiting[t] > 0 /\ Size(waiting) <= MaxUnconfirmed
  BY <1>1 DEF MemoryTyped
<1>3. /\ Without(unswept, t) \in Queues
      /\ \A u \in Tx : Without(unswept, t)[u] = IF u = t THEN unswept[u] - 1 ELSE unswept[u]
  BY <1>2, WithoutOne
<1>4. /\ Without(waiting, t) \in Queues /\ Size(Without(waiting, t)) <= Size(waiting)
      /\ \A u \in Tx : Without(waiting, t)[u] = IF u = t THEN waiting[u] - 1 ELSE waiting[u]
  BY <1>2, WithoutOne
<1>5. waiting' \in Queues /\ Size(waiting') <= MaxUnconfirmed
  <2>1. Size(waiting) \in Int /\ Size(Without(waiting, t)) \in Int
    BY <1>2, <1>4, QueueSize
  <2> QED
    BY <1>2, <1>4, <2>1, BoundAssumption
<1>6. \A u \in Tx : unswept'[u] <= waiting'[u]
  <2> SUFFICES ASSUME NEW u \in Tx PROVE unswept'[u] <= waiting'[u]
    OBVIOUS
  <2>1. CASE waiting' = waiting
    BY <1>1, <1>3, <2>1
  <2>2. CASE waiting' = Without(waiting, t)
    BY <1>1, <1>3, <1>4, <2>2
  <2> QED
    BY <2>1, <2>2
<1> QED
  BY <1>3, <1>5, <1>6

LEMMA KeysTyped ==
    ASSUME NEW S \in SUBSET Tx
    PROVE  KeysOf(S) \subseteq KeysOf(Tx)
BY DEF KeysOf

LEMMA PoolKeepsMemory ==
    ASSUME Books, MemoryTyped, PoolNext
    PROVE  MemoryTyped'
<1> USE DEF MemoryTyped, durable, memory
<1>0. Pooled \in SUBSET Tx
  BY DEF Books, DurableTyped
<1>1. ASSUME NEW t \in Tx, Receive(t) PROVE MemoryTyped'
  <2>1. cache' \subseteq Tx /\ duplicates' \subseteq KeysOf(Tx)
    BY <1>1, KeysTyped DEF Receive, Accept
  <2> QED
    BY <1>1, <2>1 DEF Receive
<1>2. ASSUME NEW t \in Tx, SweepAccepts(t) PROVE MemoryTyped'
  <2>1. cache' \subseteq Tx /\ duplicates' \subseteq KeysOf(Tx)
    BY <1>2, KeysTyped DEF SweepAccepts, Accept
  <2> QED
    BY <1>2, <2>1, SweptOne DEF SweepAccepts
<1>3. ASSUME NEW t \in Tx, SweepDrops(t) PROVE MemoryTyped'
  BY <1>3, SweptOne DEF SweepDrops
<1>4. ASSUME NEW t \in Tx, SweepKeeps(t) PROVE MemoryTyped'
  BY <1>4, SweptOne DEF SweepKeeps
<1>5. ASSUME NEW t \in Tx, BroadcastLater(t) PROVE MemoryTyped'
  <2>1. /\ waiting' \in Queues /\ Size(waiting') <= MaxUnconfirmed
        /\ unswept' \in Queues /\ \A u \in Tx : unswept'[u] <= waiting'[u]
    BY <1>5, QueueReplaced DEF BroadcastLater, Unlocked
  <2> QED
    BY <1>5, <2>1 DEF BroadcastLater
<1>6. CASE BeginSweep
  <2>1. \A t \in Tx : waiting[t] \in Nat
    BY BoundAssumption DEF Queues
  <2> QED
    BY <1>6, <2>1 DEF BeginSweep
<1>7. ASSUME NEW S \in SUBSET Tx, FindExpired(S) PROVE MemoryTyped'
  BY <1>0, <1>7 DEF FindExpired
<1>8. CASE RemoveExpired
  BY <1>8 DEF RemoveExpired, RemoveFromPool
<1>9. CASE Clear
  <2>1. /\ waiting' = EmptyQueue /\ unswept' = EmptyQueue
        /\ cache' = {} /\ duplicates' = {}
        /\ UNCHANGED <<cacheInitialized, condemned, culprits>>
    BY <1>9 DEF Clear, Unlocked
  <2> QED
    BY <2>1, EmptyQueueTyped, BoundAssumption
<1>10. CASE Requeue
  <2>1. /\ waiting' \in Queues /\ Size(waiting') <= MaxUnconfirmed
        /\ unswept' \in Queues /\ \A u \in Tx : unswept'[u] <= waiting'[u]
    BY <1>10, QueueReplaced DEF Requeue, RequeueInMemory, Unlocked
  <2> QED
    BY <1>10, <2>1 DEF Requeue, RequeueInMemory
<1>11. CASE FillCache
  BY <1>0, <1>11 DEF FillCache
<1>12. CASE Restart
  <2>1. duplicates' = {}
    BY <1>12 DEF Restart
  <2>2. /\ waiting' = EmptyQueue /\ unswept' = EmptyQueue /\ cache' = {}
        /\ cacheInitialized' = FALSE /\ condemned' = {} /\ culprits' = {}
    BY <1>12 DEF Restart
  <2> QED
    <3>1. /\ waiting' \in Queues /\ Size(waiting') <= MaxUnconfirmed
          /\ unswept' \in Queues /\ \A u \in Tx : unswept'[u] <= waiting'[u]
      BY <2>2, EmptyQueueTyped, BoundAssumption
    <3>2. Cardinality(culprits') <= 1
      BY <2>2, FewCulprits
    <3> QED
      BY <2>1, <2>2, <3>1, <3>2
<1>13. CASE Rebroadcast
  BY <1>0, <1>13, KeysTyped DEF Rebroadcast
<1> QED
  BY <1>1, <1>2, <1>3, <1>4, <1>5, <1>6, <1>7, <1>8, <1>9, <1>10, <1>11, <1>12, <1>13 DEF PoolNext

LEMMA PopOffQueues ==
    ASSUME MemoryTyped, NEW h \in 0..MaxHeight, NEW later \in BOOLEAN, PopOff(h, later)
    PROVE  /\ waiting' \in Queues /\ Size(waiting') <= MaxUnconfirmed
           /\ \A t \in Pooled \cap Tx :
                 pool[t] > h => waiting'[t] > 0 \/ Size(waiting') = MaxUnconfirmed
<1> DEFINE requeued == {t \in Pooled : pool[t] > h}
           popped == UNION {chain[g] : g \in h + 1..Height}
<1>1. PICK queue \in Queued(waiting, requeued) :
          waiting' \in Queued(queue, IF later THEN popped ELSE {})
  BY DEF PopOff
<1> HIDE DEF popped
<1>2. /\ queue \in Queues
      /\ \A t \in Tx : t \in requeued => queue[t] > 0 \/ Size(queue) = MaxUnconfirmed
  BY <1>1, QueuedKeeps DEF MemoryTyped
<1>3. /\ waiting' \in Queues /\ Size(waiting') <= MaxUnconfirmed
      /\ \A t \in Tx : queue[t] > 0 => waiting'[t] > 0 \/ Size(waiting') = MaxUnconfirmed
      /\ Size(queue) = MaxUnconfirmed => Size(waiting') = MaxUnconfirmed
  BY <1>1, <1>2, QueuedKeeps
<1> QED
  BY <1>2, <1>3

LEMMA BlocksKeepMemory ==
    ASSUME Books, MemoryTyped, BlockNext
    PROVE  MemoryTyped'
<1> USE DEF MemoryTyped, durable, memory
<1>0. Pooled \in SUBSET Tx
  BY DEF Books, DurableTyped
<1>a. \A t \in Tx : waiting[t] \in Nat
  BY BoundAssumption DEF Queues
<1>1. ASSUME PushFails \/ \E S \in SUBSET Tx : Push(S) PROVE MemoryTyped'
  <2>1. /\ waiting' \in Queued(waiting, Pooled) /\ unswept = EmptyQueue /\ unswept' = unswept
        /\ cache' = {} /\ duplicates' = {}
        /\ UNCHANGED <<cacheInitialized, condemned, culprits>>
    BY <1>1 DEF Push, PushFails, RequeueInMemory, Unlocked
  <2>2. /\ waiting' \in Queues /\ Size(waiting') <= MaxUnconfirmed
        /\ unswept' \in Queues /\ \A u \in Tx : unswept'[u] <= waiting'[u]
    BY <2>1, QueueReplaced
  <2> QED
    BY <2>1, <2>2
<1>2. ASSUME NEW h \in 0..MaxHeight, NEW later \in BOOLEAN, PopOff(h, later) PROVE MemoryTyped'
  <2>1. waiting' \in Queues /\ Size(waiting') <= MaxUnconfirmed
    BY <1>2, PopOffQueues
  <2>2. \A t \in Tx : waiting'[t] \in Nat
    BY <2>1, BoundAssumption DEF Queues
  <2>3. /\ unswept = EmptyQueue /\ unswept' = unswept
        /\ cache' \subseteq cache /\ duplicates' = {}
        /\ UNCHANGED <<cacheInitialized, condemned, culprits>>
    BY <1>2 DEF PopOff, Unlocked
  <2> QED
    BY <2>1, <2>2, <2>3, EmptyQueueTyped
<1>3. ASSUME NEW h \in 1..MaxHeight + 1, PartialRescan(h) PROVE MemoryTyped'
  <2>1. /\ waiting' \in Queued(waiting, {t \in Pooled : pool[t] > h - 1})
        /\ unswept = EmptyQueue /\ unswept' = unswept
        /\ cache' \subseteq cache /\ duplicates' = {}
        /\ UNCHANGED <<cacheInitialized, condemned, culprits>>
    BY <1>3 DEF PartialRescan, Unlocked
  <2>2. /\ waiting' \in Queues /\ Size(waiting') <= MaxUnconfirmed
        /\ unswept' \in Queues /\ \A u \in Tx : unswept'[u] <= waiting'[u]
    BY <2>1, QueueReplaced
  <2> QED
    BY <2>1, <2>2
<1>4. CASE FullRescan
  BY <1>4 DEF FullRescan
<1>5. ASSUME NEW t \in Tx, ForgeFails(t) PROVE MemoryTyped'
  <2>1. culprits' \subseteq Tx /\ Cardinality(culprits') <= 1
    BY <1>5, FewCulprits DEF ForgeFails
  <2>2. unswept = EmptyQueue /\ unswept' = waiting' /\ UNCHANGED <<cacheInitialized, condemned>>
    BY <1>5 DEF ForgeFails, Unlocked
  <2>3. CASE RequeueInMemory
    <3>1. cache' = {} /\ duplicates' = {}
      BY <2>3 DEF RequeueInMemory
    <3>2. /\ waiting' \in Queues /\ Size(waiting') <= MaxUnconfirmed
          /\ unswept' \in Queues /\ \A u \in Tx : unswept'[u] <= waiting'[u]
      BY <2>2, <2>3, QueueReplaced DEF RequeueInMemory
    <3> QED
      BY <2>1, <2>2, <3>1, <3>2
  <2>4. CASE UNCHANGED <<waiting, cache, duplicates>>
    BY <1>a, <2>1, <2>2, <2>4
  <2> QED
    BY <1>5, <2>3, <2>4 DEF ForgeFails
<1>6. CASE RemoveCulprit
  BY <1>6, FewCulprits DEF RemoveCulprit, RemoveFromPool
<1> QED
  BY <1>1, <1>2, <1>3, <1>4, <1>5, <1>6 DEF BlockNext

LEMMA MemoryHolds == Spec => []MemoryTyped
<1>1. Init => MemoryTyped
  BY MemoryInitially
<1>2. Books /\ MemoryTyped /\ [Next]_vars => MemoryTyped'
  <2> SUFFICES ASSUME Books, MemoryTyped, [Next]_vars PROVE MemoryTyped'
    OBVIOUS
  <2>1. CASE UNCHANGED vars
    BY <2>1 DEF vars, memory, MemoryTyped
  <2> QED
    BY <2>1, PoolKeepsMemory, BlocksKeepMemory DEF Next
<1> QED
  BY <1>1, <1>2, BooksHold, PTL DEF Spec

\* Every variable has its type: the queue of waiting transactions and what is
\* left of a sweep stay within their bound, and one culprit is removed at a time.
THEOREM TypeCorrect == Spec => []TypeOK
<1>1. Books /\ MemoryTyped => TypeOK
  BY DEF Books, DurableTyped, MemoryTyped, TypeOK, AccountTable
<1> QED
  BY <1>1, BooksHold, MemoryHolds, PTL

-----------------------------------------------------------------------------
(* What leaves the pool *)

LostStep ==
    \A t \in Pooled \ Pooled' :
        \/ t \in Confirmed'
        \/ waiting'[t] > 0 \/ Size(waiting') = MaxUnconfirmed
        \/ RemoveExpired \/ RemoveCulprit \/ Clear \/ FullRescan

\* A transaction leaves the pool because it was removed or cleared, or it waits
\* to come back, unless the queue is full or the node rescans from the genesis
\* block: popping off blocks that bring back others does not push it out.
THEOREM NothingLostCorrect == Spec => NothingLost
<1>0. ASSUME Pooled \subseteq Pooled' PROVE LostStep
  BY <1>0 DEF LostStep
<1>a. ASSUME UNCHANGED durable PROVE LostStep
  BY <1>0, <1>a DEF durable, Pooled
<1>b. ASSUME Books, MemoryTyped, waiting' \in Queued(waiting, Pooled \ Pooled') PROVE LostStep
  BY <1>b, QueuedKeeps DEF LostStep, MemoryTyped, Books, DurableTyped
<1>1. ASSUME Books, MemoryTyped, PoolNext PROVE LostStep
  <2>1. ASSUME NEW t \in Tx, Receive(t) \/ SweepAccepts(t) PROVE LostStep
    BY <1>0, <2>1 DEF Receive, SweepAccepts, Accept, Pooled
  <2>2. ASSUME NEW t \in Tx, BroadcastLater(t) \/ SweepDrops(t) \/ SweepKeeps(t) PROVE LostStep
    BY <1>a, <2>2 DEF BroadcastLater, SweepDrops, SweepKeeps
  <2>3. ASSUME \/ BeginSweep \/ FillCache \/ Restart \/ Rebroadcast
               \/ \E S \in SUBSET Tx : FindExpired(S)
        PROVE  LostStep
    BY <1>a, <2>3 DEF BeginSweep, FillCache, Restart, Rebroadcast, FindExpired
  <2>4. CASE RemoveExpired \/ Clear
    BY <2>4 DEF LostStep
  <2>5. CASE Requeue
    <3>1. Pooled \ Pooled' = Pooled /\ waiting' \in Queued(waiting, Pooled)
      BY <2>5, EmptyPoolTyped DEF Requeue, RequeueInMemory
    <3> QED
      BY <1>1, <1>b, <3>1
  <2> QED
    BY <1>1, <2>1, <2>2, <2>3, <2>4, <2>5 DEF PoolNext
<1>2. ASSUME Books, MemoryTyped, BlockNext PROVE LostStep
  <2>1. ASSUME NEW S \in SUBSET Tx, Push(S) PROVE LostStep
    <3>1. Pooled \ Pooled' = Pooled /\ waiting' \in Queued(waiting, Pooled)
      BY <2>1, EmptyPoolTyped DEF Push, RequeueInMemory
    <3> QED
      BY <1>2, <1>b, <3>1
  <2>2. ASSUME PushFails \/ \E t \in Tx : ForgeFails(t) PROVE LostStep
    BY <1>a, <2>2 DEF PushFails, ForgeFails
  <2>3. ASSUME NEW h \in 0..MaxHeight, NEW later \in BOOLEAN, PopOff(h, later) PROVE LostStep
    <3>1. Pooled' = Pooled \ {t \in Pooled : pool[t] > h}
      BY <2>3 DEF PopOff, Pooled
    <3>2. \A t \in Pooled \cap Tx :
              pool[t] > h => waiting'[t] > 0 \/ Size(waiting') = MaxUnconfirmed
      BY <1>2, <2>3, PopOffQueues
    <3> QED
      BY <1>2, <3>1, <3>2 DEF LostStep, Books, DurableTyped
  <2>4. ASSUME NEW h \in 1..MaxHeight + 1, PartialRescan(h) PROVE LostStep
    <3>1. /\ Pooled' = Pooled \ {t \in Pooled : pool[t] > h - 1}
          /\ waiting' \in Queued(waiting, {t \in Pooled : pool[t] > h - 1})
      BY <2>4 DEF PartialRescan, Pooled
    <3>2. Pooled \ Pooled' = {t \in Pooled : pool[t] > h - 1}
      BY <3>1
    <3>3. waiting' \in Queued(waiting, Pooled \ Pooled')
      BY <3>1, <3>2
    <3> QED
      BY <1>2, <1>b, <3>3
  <2>5. CASE FullRescan \/ RemoveCulprit
    BY <2>5 DEF LostStep
  <2> QED
    BY <1>2, <2>1, <2>2, <2>3, <2>4, <2>5 DEF BlockNext
<1>3. ASSUME UNCHANGED vars PROVE LostStep
  BY <1>a, <1>3 DEF vars
<1>4. Books /\ MemoryTyped /\ [Next]_vars => LostStep
  BY <1>1, <1>2, <1>3 DEF Next
<1> QED
  BY <1>4, BooksHold, MemoryHolds, PTL DEF Spec, NothingLost, LostStep

-----------------------------------------------------------------------------
(* The cache *)

CacheStep == \A t \in cache' \ Pooled' : t \in cache \ Pooled \/ FullRescan

LEMMA AcceptCaches ==
    ASSUME NEW t \in Tx, Accept(t)
    PROVE  CacheStep
<1>1. Pooled' = Pooled \cup {t} /\ cache' \subseteq cache \cup {t}
  BY DEF Accept, Pooled
<1> QED
  BY <1>1 DEF CacheStep

LEMMA RemoveUncaches ==
    ASSUME NEW S, RemoveFromPool(S)
    PROVE  CacheStep
<1>1. Pooled' = Pooled \ S /\ cache' = cache \ (S \cap Pooled)
  BY DEF RemoveFromPool, Pooled
<1> QED
  BY <1>1 DEF CacheStep

LEMMA Caches == [Next]_vars => CacheStep
<1> USE DEF durable, memory, CacheStep
<1>0. ASSUME UNCHANGED pool, cache' = {} \/ UNCHANGED cache PROVE CacheStep
  BY <1>0 DEF Pooled
<1>1. ASSUME PoolNext PROVE CacheStep
  <2>1. ASSUME NEW t \in Tx, Receive(t) \/ SweepAccepts(t) PROVE CacheStep
    BY <2>1, AcceptCaches DEF Receive, SweepAccepts
  <2>2. ASSUME NEW t \in Tx, BroadcastLater(t) \/ SweepDrops(t) \/ SweepKeeps(t) PROVE CacheStep
    BY <1>0, <2>2 DEF BroadcastLater, SweepDrops, SweepKeeps
  <2>3. CASE BeginSweep \/ Restart \/ Rebroadcast
    BY <1>0, <2>3 DEF BeginSweep, Restart, Rebroadcast
  <2>4. CASE FillCache
    <3>1. Pooled' = Pooled /\ cache' = cache \cup Pooled
      BY <2>4 DEF FillCache, Pooled
    <3> QED
      BY <3>1
  <2>5. ASSUME NEW S \in SUBSET Tx, FindExpired(S) PROVE CacheStep
    BY <1>0, <2>5 DEF FindExpired
  <2>6. CASE RemoveExpired
    BY <2>6, RemoveUncaches DEF RemoveExpired
  <2>7. CASE Clear \/ Requeue
    <3>1. cache' = {}
      BY <2>7 DEF Clear, Requeue, RequeueInMemory
    <3> QED
      BY <3>1
  <2> QED
    BY <1>1, <2>1, <2>2, <2>3, <2>4, <2>5, <2>6, <2>7 DEF PoolNext
<1>2. ASSUME BlockNext PROVE CacheStep
  <2>1. ASSUME NEW S \in SUBSET Tx, Push(S) PROVE CacheStep
    <3>1. cache' = {}
      BY <2>1 DEF Push, RequeueInMemory
    <3> QED
      BY <3>1
  <2>2. ASSUME PushFails \/ \E t \in Tx : ForgeFails(t) PROVE CacheStep
    BY <1>0, <2>2 DEF PushFails, ForgeFails, RequeueInMemory
  <2>3. ASSUME NEW h \in 0..MaxHeight, NEW later \in BOOLEAN, PopOff(h, later) PROVE CacheStep
    <3> DEFINE requeued == {t \in Pooled : pool[t] > h}
    <3>1. Pooled' = Pooled \ requeued /\ cache' = cache \ requeued
      BY <2>3 DEF PopOff, Pooled
    <3> QED
      BY <3>1
  <2>4. ASSUME NEW h \in 1..MaxHeight + 1, PartialRescan(h) PROVE CacheStep
    <3> DEFINE requeued == {t \in Pooled : pool[t] > h - 1}
    <3>1. Pooled' = Pooled \ requeued /\ cache' = cache \ requeued
      BY <2>4 DEF PartialRescan, Pooled
    <3> QED
      BY <3>1
  <2>5. CASE FullRescan
    BY <2>5
  <2>6. CASE RemoveCulprit
    BY <2>6, RemoveUncaches DEF RemoveCulprit
  <2> QED
    BY <1>2, <2>1, <2>2, <2>3, <2>4, <2>5, <2>6 DEF BlockNext
<1>3. ASSUME UNCHANGED vars PROVE CacheStep
  BY <1>0, <1>3 DEF vars
<1> QED
  BY <1>1, <1>2, <1>3 DEF Next

\* No step but a rescan from the genesis block leaves a transaction in the
\* cache that is no longer in the pool.
THEOREM CacheInPoolCorrect == Spec => CacheInPool
<1>1. [Next]_vars => CacheStep
  BY Caches
<1> QED
  BY <1>1, PTL DEF Spec, CacheInPool, CacheStep

\* No rescan from the genesis block truncates a pool that is not empty.
PoolSpared == FullRescan => Pooled = {}

\* Every transaction of the cache is in the pool.
CacheIsPooled == cache \subseteq Pooled

\* The defect that the run pool_full_rescan shows is the only one of its kind:
\* whatever is removed, requeued, popped off or forged, and whatever fails, no
\* other step leaves the node offering a transaction that it no longer has.
THEOREM CacheFollowsPool ==
    Init /\ [][Next /\ PoolSpared]_vars => []CachedIsKept /\ []CacheIsPooled
<1>1. Init => CacheIsPooled
  BY DEF Init, CacheIsPooled
<1>2. CacheIsPooled /\ [Next /\ PoolSpared]_vars => CacheIsPooled'
  <2> SUFFICES ASSUME cache \subseteq Pooled, [Next /\ PoolSpared]_vars
               PROVE  cache' \subseteq Pooled'
    BY DEF CacheIsPooled
  <2>1. CASE FullRescan /\ Pooled = {}
    BY <2>1 DEF FullRescan, memory
  <2>2. CASE ~FullRescan \/ UNCHANGED vars
    <3>1. UNCHANGED vars => UNCHANGED <<cache, Pooled>>
      BY DEF vars, durable, memory, Pooled
    <3>2. CacheStep
      BY Caches
    <3> QED
      BY <2>2, <3>1, <3>2 DEF CacheStep
  <2> QED
    BY <2>1, <2>2 DEF PoolSpared
<1>3. CacheIsPooled => CachedIsKept
  BY DEF CachedIsKept, CacheIsPooled
<1> QED
  BY <1>1, <1>2, <1>3, PTL

-----------------------------------------------------------------------------
(* The duplicate keys *)

Remembers == KeysOf(Pooled) \subseteq duplicates

KeysStep ==
    Remembers =>
        Remembers' \/ PushFails \/ (\E t \in Tx : ForgeFails(t)) \/ Restart \/ ToLastBlock

\* The node forgets the duplicate key of a transaction that stays in the pool only
\* when it is restarted, when a block is not accepted and when the tables are rolled
\* back to the last block: whatever else empties unconfirmedDuplicates, a rollback
\* below the last block included, empties the pool as well.
THEOREM KeysRememberedCorrect == Spec => KeysRemembered
<1> USE DEF durable, memory
<1>0. ASSUME UNCHANGED <<pool, duplicates>> PROVE KeysStep
  BY <1>0 DEF Pooled, KeysOf, KeysStep, Remembers
<1>a. ASSUME Pooled' = {} PROVE KeysStep
  BY <1>a DEF KeysOf, KeysStep, Remembers
<1>b. ASSUME NEW t \in Tx, Accept(t) PROVE KeysStep
  <2>1. Pooled' = Pooled \cup {t} /\ duplicates' = duplicates \cup KeysOf({t})
    BY <1>b DEF Accept, Pooled
  <2> QED
    BY <2>1 DEF KeysStep, Remembers, KeysOf
<1>c. ASSUME NEW S, RemoveFromPool(S) PROVE KeysStep
  <2>1. Pooled' = Pooled \ S /\ UNCHANGED duplicates
    BY <1>c DEF RemoveFromPool, Pooled
  <2> QED
    BY <2>1 DEF KeysStep, Remembers, KeysOf
<1>1. ASSUME PoolNext PROVE KeysStep
  <2>1. ASSUME NEW t \in Tx, Receive(t) \/ SweepAccepts(t) PROVE KeysStep
    BY <1>b, <2>1 DEF Receive, SweepAccepts
  <2>2. ASSUME NEW t \in Tx, BroadcastLater(t) \/ SweepDrops(t) \/ SweepKeeps(t) PROVE KeysStep
    BY <1>0, <2>2 DEF BroadcastLater, SweepDrops, SweepKeeps
  <2>3. CASE BeginSweep \/ FillCache
    BY <1>0, <2>3 DEF BeginSweep, FillCache
  <2>4. CASE Restart
    BY <2>4 DEF KeysStep
  <2>5. ASSUME NEW S \in SUBSET Tx, FindExpired(S) PROVE KeysStep
    BY <1>0, <2>5 DEF FindExpired
  <2>6. CASE RemoveExpired
    BY <2>6, <1>c DEF RemoveExpired
  <2>7. CASE Clear \/ Requeue
    BY <1>a, <2>7, EmptyPool DEF Clear, Requeue
  <2>8. CASE Rebroadcast
    <3>1. Pooled' = Pooled /\ duplicates' = duplicates \cup KeysOf(Pooled)
      BY <2>8 DEF Rebroadcast, Pooled
    <3> QED
      BY <3>1 DEF KeysStep, Remembers, KeysOf
  <2> QED
    BY <1>1, <2>1, <2>2, <2>3, <2>4, <2>5, <2>6, <2>7, <2>8 DEF PoolNext
<1>2. ASSUME Inv, BlockNext PROVE KeysStep
  <2>1. ASSUME NEW S \in SUBSET Tx, Push(S) PROVE KeysStep
    BY <1>a, <2>1, EmptyPool DEF Push
  <2>2. ASSUME PushFails \/ \E t \in Tx : ForgeFails(t) PROVE KeysStep
    BY <2>2 DEF KeysStep
  <2>3. ASSUME NEW h \in 0..MaxHeight, NEW later \in BOOLEAN, PopOff(h, later) PROVE KeysStep
    <3>1. CASE h < Height
      <4>1. Pooled' = Pooled \ {t \in Pooled : pool[t] > h}
        BY <2>3 DEF PopOff, Pooled
      <4>2. Pooled' = {}
        BY <1>2, <3>1, <4>1, AllRowsMove
      <4> QED
        BY <1>a, <4>2
    <3>2. CASE h = Height
      BY <2>3, <3>2 DEF KeysStep, ToLastBlock
    <3>3. h < Height \/ h = Height
      BY <1>2, <2>3, HeightIsNat DEF PopOff, Inv
    <3> QED
      BY <3>1, <3>2, <3>3
  <2>4. ASSUME NEW h \in 1..MaxHeight + 1, PartialRescan(h) PROVE KeysStep
    <3>1. CASE h \in 1..Height
      <4>1. Pooled' = Pooled \ {t \in Pooled : pool[t] > h - 1}
        BY <2>4 DEF PartialRescan, Pooled
      <4>2. h - 1 \in Int /\ h - 1 < Height
        BY <1>2, <3>1, HeightIsNat DEF Inv
      <4>3. Pooled' = {}
        BY <1>2, <4>1, <4>2, AllRowsMove
      <4> QED
        BY <1>a, <4>3
    <3>2. CASE h = Height + 1
      BY <2>4, <3>2 DEF KeysStep, ToLastBlock
    <3>3. h \in 1..Height \/ h = Height + 1
      BY <1>2, <2>4, HeightIsNat DEF PartialRescan, Inv
    <3> QED
      BY <3>1, <3>2, <3>3
  <2>5. CASE FullRescan
    BY <1>a, <2>5, EmptyPool DEF FullRescan
  <2>6. CASE RemoveCulprit
    BY <2>6, <1>c DEF RemoveCulprit
  <2> QED
    BY <1>2, <2>1, <2>2, <2>3, <2>4, <2>5, <2>6 DEF BlockNext
<1>3. ASSUME UNCHANGED vars PROVE KeysStep
  BY <1>0, <1>3 DEF vars
<1>4. Inv /\ [Next]_vars => KeysStep
  BY <1>1, <1>2, <1>3 DEF Next
<1>5. KeysStep => (KeysOf(Pooled) \subseteq duplicates =>
                      \/ KeysOf(Pooled') \subseteq duplicates'
                      \/ PushFails \/ (\E t \in Tx : ForgeFails(t)) \/ Restart
                      \/ (\E later \in BOOLEAN : PopOff(Height, later))
                      \/ PartialRescan(Height + 1))
  BY DEF KeysStep, Remembers, ToLastBlock, KeysOf
<1> QED
  BY <1>4, <1>5, InvHolds, PTL DEF Spec, KeysRemembered
=============================================================================
