----------------------------- MODULE AliasProofs -----------------------------
(***************************************************************************)
(* Proofs about Alias, for every set of accounts, prices and transactions  *)
(* and every height bound: the table alias follows the contract on deleted *)
(* keys although its table of offers does not, so its owners are those     *)
(* that the blocks of the chain give it; its offers are while no offer is  *)
(* written over the tombstone of an earlier one.                           *)
(***************************************************************************)
EXTENDS Alias, FoldTheorems, SequenceTheorems, TLAPS

\* What is proved of every versioned table, for the two tables.
AP == INSTANCE VersionedTableProofs WITH
    Keys <- TransactionId, Values <- [owner : Account], Reused <- TransactionId,
    height <- Height, version <- aliasRow, latest <- aliasLatest, trimmed <- 0

OP == INSTANCE VersionedTableProofs WITH
    Keys <- TransactionId, Values <- [price : Price, buyer : Account \cup {Anyone}],
    Reused <- TransactionId,
    height <- Height, version <- offerRow, latest <- offerLatest, trimmed <- 0

Owners == [owner : Account]
Offers == [price : Price, buyer : Account \cup {Anyone}]

LEMMA Absent ==
    /\ NoRow \notin Owners \cup {None} /\ NoRow \notin Offers \cup {None}
    /\ None \notin Owners \cup Offers \cup TransactionId
BY AbsenceAssumption DEF Owners, Offers

LEMMA SameAliasTable ==
    /\ AliasTable!TypeOK <=> AP!TypeOK
    /\ \A id \in TransactionId, h \in Int : AliasTable!Get(id, h) = AP!Get(id, h)
    /\ \A id \in TransactionId : \A v : AliasTable!Insert(id, v) <=> AP!Insert(id, v)
    /\ \A id \in TransactionId : \A v : AliasTable!Delete(id, v) <=> AP!Delete(id, v)
    /\ \A h : AliasTable!Rollback(h) <=> AP!Rollback(h)
<1> USE DEF AliasTable!Rows, AP!Rows, AliasTable!Heights, AP!Heights,
            AliasTable!Newest, AP!Newest, AliasTable!Limit1, AP!Limit1
<1>1. AliasTable!TypeOK <=> AP!TypeOK
  BY DEF AliasTable!TypeOK, AP!TypeOK, AliasTable!Entity, AP!Entity
<1>2. \A id \in TransactionId, h \in Int : AliasTable!Get(id, h) = AP!Get(id, h)
  BY DEF AliasTable!Get, AP!Get, AliasTable!Visible, AP!Visible
<1>3. \A id \in TransactionId : AliasTable!Buried(id) <=> AP!Buried(id)
  BY DEF AliasTable!Buried, AP!Buried
<1>4. \A id \in TransactionId : \A v : AliasTable!Insert(id, v) <=> AP!Insert(id, v)
  BY <1>3 DEF AliasTable!Insert, AP!Insert, AliasTable!ClearLatest, AP!ClearLatest
<1>5. \A id \in TransactionId : \A v : AliasTable!Delete(id, v) <=> AP!Delete(id, v)
  BY <1>3 DEF AliasTable!Delete, AP!Delete, AliasTable!ClearLatest, AP!ClearLatest
<1>6. \A h : AliasTable!Rollback(h) <=> AP!Rollback(h)
  BY DEF AliasTable!Rollback, AP!Rollback, AliasTable!Known, AP!Known
<1> QED
  BY <1>1, <1>2, <1>4, <1>5, <1>6

LEMMA SameOfferTable ==
    /\ OfferTable!TypeOK <=> OP!TypeOK
    /\ \A id \in TransactionId, h \in Int : OfferTable!Get(id, h) = OP!Get(id, h)
    /\ \A id \in TransactionId : \A v : OfferTable!Insert(id, v) <=> OP!Insert(id, v)
    /\ \A id \in TransactionId : \A v : OfferTable!Delete(id, v) <=> OP!Delete(id, v)
    /\ \A id \in TransactionId : OfferTable!Buried(id) <=> OP!Buried(id)
    /\ \A h : OfferTable!Rollback(h) <=> OP!Rollback(h)
<1> USE DEF OfferTable!Rows, OP!Rows, OfferTable!Heights, OP!Heights,
            OfferTable!Newest, OP!Newest, OfferTable!Limit1, OP!Limit1
<1>1. OfferTable!TypeOK <=> OP!TypeOK
  BY DEF OfferTable!TypeOK, OP!TypeOK, OfferTable!Entity, OP!Entity
<1>2. \A id \in TransactionId, h \in Int : OfferTable!Get(id, h) = OP!Get(id, h)
  BY DEF OfferTable!Get, OP!Get, OfferTable!Visible, OP!Visible
<1>3. \A id \in TransactionId : OfferTable!Buried(id) <=> OP!Buried(id)
  BY DEF OfferTable!Buried, OP!Buried
<1>4. \A id \in TransactionId : \A v : OfferTable!Insert(id, v) <=> OP!Insert(id, v)
  BY <1>3 DEF OfferTable!Insert, OP!Insert, OfferTable!ClearLatest, OP!ClearLatest
<1>5. \A id \in TransactionId : \A v : OfferTable!Delete(id, v) <=> OP!Delete(id, v)
  BY <1>3 DEF OfferTable!Delete, OP!Delete, OfferTable!ClearLatest, OP!ClearLatest
<1>6. \A h : OfferTable!Rollback(h) <=> OP!Rollback(h)
  BY DEF OfferTable!Rollback, OP!Rollback, OfferTable!Known, OP!Known
<1> QED
  BY <1>1, <1>2, <1>3, <1>4, <1>5, <1>6

-----------------------------------------------------------------------------
(* Replaying *)

State ==
    {s \in [id : TransactionId \cup {None}, owner : Account \cup {None},
            offer : Offers \cup {None}] : s.id # None => s.owner \in Account}

Past(blocks, h) == FoldLeft(Execute, NoAlias, SubSeq(blocks, 1, h))

LEMMA ExecuteTyped ==
    ASSUME NEW s \in State, NEW t \in Transaction
    PROVE  Execute(s, t) \in State
<1>1. CASE t = Nothing
  BY <1>1 DEF Nothing, Execute
<1>2. CASE t \in AliasAssignment
  <2>1. /\ t.type = "assign" /\ t.id \in TransactionId /\ t.sender \in Account
    BY <1>2 DEF AliasAssignment
  <2> QED
    BY <2>1 DEF Execute, State
<1>3. CASE t \in AliasSell
  <2>1. /\ t.type = "sell" /\ [price |-> t.price, buyer |-> t.recipient] \in Offers
    BY <1>3 DEF AliasSell, Offers
  <2> QED
    BY <2>1 DEF Execute, State
<1>4. CASE t \in AliasTransfer
  <2>1. t.type = "transfer" /\ t.recipient \in Account
    BY <1>4 DEF AliasTransfer
  <2> QED
    BY <2>1 DEF Execute, State
<1>5. CASE t \in AliasBuy
  <2>1. t.type = "buy" /\ t.sender \in Account
    BY <1>5 DEF AliasBuy
  <2> QED
    BY <2>1 DEF Execute, State
<1>6. CASE t \in AliasDelete
  <2>1. t.type = "delete"
    BY <1>6 DEF AliasDelete
  <2> QED
    BY <2>1 DEF Execute, State, NoAlias
<1> QED
  BY <1>1, <1>2, <1>3, <1>4, <1>5, <1>6 DEF Transaction

\* The fold over all sets of indices that FoldLeft is defined by.
Runs(blocks) ==
    CHOOSE f : f = [s \in SUBSET DOMAIN blocks |->
                      IF s = {} THEN NoAlias ELSE Execute(f[s \ {Max(s)}], blocks[Max(s)])]

LEMMA RunsOn ==
    ASSUME NEW blocks \in Seq(Transaction)
    PROVE  /\ Runs(blocks)[1..0] = NoAlias
           /\ \A i \in 1..Len(blocks) :
                 Runs(blocks)[1..i] = Execute(Runs(blocks)[1..i - 1], blocks[i])
           /\ \A i \in 0..Len(blocks) : Runs(blocks)[1..i] \in State
           /\ FoldLeft(Execute, NoAlias, blocks) = Runs(blocks)[1..Len(blocks)]
<1> DEFINE n == Len(blocks)
           Op == [i \in 1..n |-> [s \in State |-> Execute(s, blocks[i])]]
           R == Runs(blocks)
<1>0. n \in Nat /\ DOMAIN blocks = 1..n /\ \A i \in 1..n : blocks[i] \in Transaction
  BY LenProperties, ElementOfSeq
<1>1. NoAlias \in State
  BY DEF NoAlias, State
<1>2. Op \in [1..n -> [State -> State]]
  BY <1>0, ExecuteTyped
<1>3. PICK f \in [SUBSET (1..n) -> State] : Folds(f, NoAlias, n, Op)
  <2> HIDE DEF Op, n
  <2> QED
    BY <1>0, <1>1, <1>2, FoldExists
<1>4. \A s \in SUBSET (1..n) :
          f[s] = IF s = {} THEN NoAlias ELSE Execute(f[s \ {Max(s)}], blocks[Max(s)])
  <2> SUFFICES ASSUME NEW s \in SUBSET (1..n), s # {}
               PROVE  Op[Max(s)][f[s \ {Max(s)}]] = Execute(f[s \ {Max(s)}], blocks[Max(s)])
    BY <1>3 DEF Folds
  <2>1. Max(s) \in 1..n /\ f[s \ {Max(s)}] \in State
    BY <1>0, MaxIsElement
  <2> QED
    BY <2>1
<1>5. f = [s \in SUBSET DOMAIN blocks |->
              IF s = {} THEN NoAlias ELSE Execute(f[s \ {Max(s)}], blocks[Max(s)])]
  BY <1>0, <1>4
<1>6. R = [s \in SUBSET DOMAIN blocks |->
              IF s = {} THEN NoAlias ELSE Execute(R[s \ {Max(s)}], blocks[Max(s)])]
  BY <1>5 DEF Runs
<1>7. FoldLeft(Execute, NoAlias, blocks) = R[1..n]
  BY <1>0 DEF FoldLeft, MapThenFoldSet, Runs
<1>8. R[1..0] = NoAlias
  BY <1>0, <1>6
<1>9. ASSUME NEW i \in 1..n PROVE R[1..i] = Execute(R[1..i - 1], blocks[i])
  <2>1. 1..i \in SUBSET DOMAIN blocks /\ 1..i # {}
    <3>1. \A j \in 1..i : j \in 1..n
      BY <1>0
    <3>2. 1 \in 1..i
      OBVIOUS
    <3> QED
      BY <1>0, <3>1, <3>2
  <2>2. Max(1..i) = i /\ (1..i) \ {Max(1..i)} = 1..i - 1
    BY MaxOfInterval
  <2> QED
    BY <1>6, <2>1, <2>2
<1> DEFINE B == {i \in 0..n : R[1..i] \in State}
<1>10. 0 \in B
  BY <1>0, <1>1, <1>8
<1>11. \A i \in 1..n : i - 1 \in B => i \in B
  BY <1>0, <1>9, ExecuteTyped
<1>12. 0..n \subseteq B
  <2> HIDE DEF B, n
  <2> QED
    BY <1>0, <1>10, <1>11, UpTo
<1> QED
  BY <1>7, <1>8, <1>9, <1>12

\* How the state after a block follows from the one before it.
LEMMA PastSteps ==
    ASSUME NEW blocks \in Seq(Transaction)
    PROVE  /\ Past(blocks, 0) = NoAlias
           /\ \A h \in 1..Len(blocks) : Past(blocks, h) = Execute(Past(blocks, h - 1), blocks[h])
           /\ \A h \in 0..Len(blocks) : Past(blocks, h) \in State
<1>0. Len(blocks) \in Nat
  BY LenProperties
<1>1. \A h \in 0..Len(blocks) :
         /\ SubSeq(blocks, 1, h) \in Seq(Transaction) /\ Len(SubSeq(blocks, 1, h)) = h
         /\ \A i \in 1..h : SubSeq(blocks, 1, h)[i] = blocks[i]
  <2> TAKE h \in 0..Len(blocks)
  <2>1. \A i \in 1..h : blocks[i] \in Transaction
    BY <1>0, ElementOfSeq
  <2> QED
    BY <1>0, <2>1
<1>2. ASSUME NEW h \in 0..Len(blocks)
      PROVE  Past(blocks, h) = Runs(SubSeq(blocks, 1, h))[1..h] /\ Past(blocks, h) \in State
  <2> DEFINE c == SubSeq(blocks, 1, h)
  <2>1. c \in Seq(Transaction) /\ Len(c) = h /\ h \in 0..h
    BY <1>0, <1>1
  <2>2. Past(blocks, h) = FoldLeft(Execute, NoAlias, c)
    BY DEF Past
  <2> HIDE DEF c
  <2>3. FoldLeft(Execute, NoAlias, c) = Runs(c)[1..h] /\ Runs(c)[1..h] \in State
    BY <2>1, RunsOn
  <2> QED
    BY <2>2, <2>3 DEF c
<1>3. Past(blocks, 0) = NoAlias
  <2> DEFINE c == SubSeq(blocks, 1, 0)
  <2>1. c \in Seq(Transaction) /\ Past(blocks, 0) = Runs(c)[1..0]
    BY <1>0, <1>1, <1>2
  <2> HIDE DEF c
  <2>2. Runs(c)[1..0] = NoAlias
    BY <2>1, RunsOn
  <2> QED
    BY <2>1, <2>2
<1>4. ASSUME NEW h \in 1..Len(blocks)
      PROVE  Past(blocks, h) = Execute(Past(blocks, h - 1), blocks[h])
  <2> DEFINE c == SubSeq(blocks, 1, h)
             d == SubSeq(blocks, 1, h - 1)
             B == {i \in 0..h - 1 : Runs(c)[1..i] = Runs(d)[1..i]}
  <2>1. /\ c \in Seq(Transaction) /\ d \in Seq(Transaction)
        /\ Len(c) = h /\ Len(d) = h - 1 /\ c[h] = blocks[h]
        /\ \A i \in 1..h - 1 : c[i] = d[i]
    BY <1>0, <1>1
  <2> HIDE DEF c, d
  <2>0. /\ Runs(c)[1..0] = NoAlias /\ Runs(d)[1..0] = NoAlias
        /\ \A i \in 1..h : Runs(c)[1..i] = Execute(Runs(c)[1..i - 1], c[i])
        /\ \A i \in 1..h - 1 : Runs(d)[1..i] = Execute(Runs(d)[1..i - 1], d[i])
    <3>1. \A i \in 1..Len(c) : Runs(c)[1..i] = Execute(Runs(c)[1..i - 1], c[i])
      BY <2>1, RunsOn
    <3>2. \A i \in 1..Len(d) : Runs(d)[1..i] = Execute(Runs(d)[1..i - 1], d[i])
      BY <2>1, RunsOn
    <3>3. Runs(c)[1..0] = NoAlias /\ Runs(d)[1..0] = NoAlias
      BY <2>1, RunsOn
    <3> QED
      BY <2>1, <3>1, <3>2, <3>3
  <2>2. 0 \in B
    BY <2>0
  <2>3. ASSUME NEW i \in 1..h - 1, i - 1 \in B PROVE i \in B
    <3>1. Runs(c)[1..i] = Execute(Runs(c)[1..i - 1], c[i])
      BY <2>0
    <3>2. Runs(d)[1..i] = Execute(Runs(d)[1..i - 1], d[i])
      BY <2>0
    <3> QED
      BY <2>1, <2>3, <3>1, <3>2
  <2>4. h - 1 \in B
    <3>1. h - 1 \in Nat
      OBVIOUS
    <3> HIDE DEF B
    <3>2. 0..h - 1 \subseteq B
      BY <2>2, <2>3, <3>1, UpTo
    <3> QED
      BY <3>1, <3>2
  <2>5. Runs(c)[1..h] = Execute(Runs(c)[1..h - 1], c[h])
    BY <2>0
  <2>6. Past(blocks, h) = Runs(c)[1..h] /\ Past(blocks, h - 1) = Runs(d)[1..h - 1]
    BY <1>0, <1>2 DEF c, d
  <2> QED
    BY <2>1, <2>4, <2>5, <2>6
<1> QED
  BY <1>2, <1>3, <1>4

LEMMA SamePast ==
    ASSUME NEW c \in Seq(Transaction), NEW d \in Seq(Transaction),
           NEW h \in Nat, h <= Len(c), h <= Len(d), \A i \in 1..h : c[i] = d[i]
    PROVE  Past(c, h) = Past(d, h)
<1>1. \A e \in Seq(Transaction) : h <= Len(e) =>
         /\ SubSeq(e, 1, h) \in Seq(Transaction) /\ Len(SubSeq(e, 1, h)) = h
         /\ \A i \in 1..h : SubSeq(e, 1, h)[i] = e[i]
  <2> TAKE e \in Seq(Transaction)
  <2>1. Len(e) \in Nat /\ \A i \in 1..Len(e) : e[i] \in Transaction
    BY LenProperties, ElementOfSeq
  <2> QED
    BY <2>1
<1>2. SubSeq(c, 1, h) = SubSeq(d, 1, h)
  <2>1. /\ SubSeq(c, 1, h) \in Seq(Transaction) /\ SubSeq(d, 1, h) \in Seq(Transaction)
        /\ Len(SubSeq(c, 1, h)) = Len(SubSeq(d, 1, h))
        /\ \A i \in 1..Len(SubSeq(c, 1, h)) : SubSeq(c, 1, h)[i] = SubSeq(d, 1, h)[i]
    BY <1>1
  <2> QED
    BY <2>1, SeqEqual
<1> QED
  BY <1>2 DEF Past

-----------------------------------------------------------------------------
(* The invariant *)

Applied == IF accepting THEN Height - 1 ELSE Height
Names(t, id) == t.type = "assign" /\ t.id = id
Says(s, id) == IF id = s.id THEN [owner |-> s.owner] ELSE None

\* No two transactions have one id.
Blocks ==
    /\ chain \in Seq(Transaction) /\ Height <= MaxHeight /\ accepting \in BOOLEAN
    /\ accepting => Height > 0
    /\ \A f, g \in 1..Height, id \in TransactionId :
          Names(chain[f], id) /\ Names(chain[g], id) => f = g

\* The rows of an alias are no older than the transaction that created it.
Created ==
    \A id \in TransactionId : \A g \in AP!Rows(id) :
        g <= Applied /\ \E f \in 1..g : Names(chain[f], id)

Reads ==
    \A h \in 0..Height, id \in TransactionId :
        AP!Get(id, h) = Says(Past(chain, IF h <= Applied THEN h ELSE Applied), id)

\* The block that is accepted was found valid.
Ready ==
    accepting /\ chain[Height].type \notin {"none", "assign"} => Past(chain, Applied).id # None

Inv == AP!Inv /\ OP!Inv /\ Blocks /\ Created /\ Reads /\ Ready

LEMMA HeightsKnown ==
    ASSUME Blocks
    PROVE  /\ Height \in Nat /\ Applied \in 0..Height /\ Height \in 0..MaxHeight
           /\ AP!Heights = 0..MaxHeight /\ OP!Heights = 0..MaxHeight
           /\ AP!Known = 0..Height /\ OP!Known = 0..Height
<1>1. Height \in Nat /\ Applied \in 0..Height /\ Height \in 0..MaxHeight
  BY LenProperties, HeightAssumption DEF Blocks, Height, Applied
<1> QED
  BY <1>1, HeightAssumption DEF AP!Heights, OP!Heights, AP!Known, OP!Known

LEMMA HeightsKnownNext ==
    Blocks' => /\ Height' \in Nat /\ Height' \in 0..MaxHeight
               /\ AP!Known' = 0..Height' /\ OP!Known' = 0..Height'
<1>1. (Blocks => /\ Height \in Nat /\ Height \in 0..MaxHeight
                 /\ AP!Known = 0..Height /\ OP!Known = 0..Height)'
  BY HeightsKnown, PTL
<1> QED
  BY <1>1

\* What the queries of a transaction find.
LEMMA CurrentKnown ==
    ASSUME Inv
    PROVE  LET s == Past(chain, Applied) IN
           /\ s \in State
           /\ s.id = None => CurrentId = {}
           /\ s.id # None => /\ CurrentId = {s.id} /\ Id = s.id /\ s.id \in TransactionId
                             /\ AP!Get(s.id, Height) = [owner |-> s.owner]
                             /\ AP!Rows(s.id) # {} /\ ~AP!Buried(s.id)
<1> DEFINE s == Past(chain, Applied)
<1>0. Height \in Nat /\ Applied \in 0..Height
  BY HeightsKnown DEF Inv
<1>1. s \in State
  BY <1>0, PastSteps DEF Inv, Blocks, Height
<1>2. \A id \in TransactionId : AliasTable!Get(id, Height) = Says(s, id)
                                /\ AP!Get(id, Height) = Says(s, id)
  <2>1. (IF Height <= Applied THEN Height ELSE Applied) = Applied /\ Height \in 0..Height
    BY <1>0
  <2> QED
    BY <1>0, <2>1, SameAliasTable DEF Inv, Reads
<1> HIDE DEF s
<1>3. s.id # None => s.id \in TransactionId /\ [owner |-> s.owner] # None
  BY <1>1, Absent DEF State, Owners
<1>4. CurrentId = IF s.id = None THEN {} ELSE {s.id}
  BY <1>2, <1>3, Absent DEF CurrentId, Says
<1>5. ASSUME s.id # None
      PROVE  /\ Id = s.id /\ AP!Get(s.id, Height) = [owner |-> s.owner]
             /\ AP!Rows(s.id) # {} /\ ~AP!Buried(s.id)
  <2>1. Id = s.id
    BY <1>4, <1>5 DEF Id
  <2>2. AP!Get(s.id, Height) = [owner |-> s.owner] /\ AP!Get(s.id, Height) # None
    BY <1>2, <1>3, <1>5 DEF Says
  <2>3. AP!Rows(s.id) # {} /\ ~AP!Buried(s.id)
    BY <1>3, <1>5, <2>2, AP!ReadNow, HeightAssumption, Absent DEF Inv, Owners
  <2> QED
    BY <2>1, <2>2, <2>3
<1> QED
  BY <1>1, <1>3, <1>4, <1>5 DEF s

-----------------------------------------------------------------------------
(* The steps *)

LEMMA InitInv == Init => Inv
<1> SUFFICES ASSUME Init PROVE Inv
  OBVIOUS
<1>1. Blocks /\ Ready /\ Height = 0 /\ Applied = 0
  <2>1. Height = 0 /\ Applied = 0 /\ chain \in Seq(Transaction) /\ accepting = FALSE
    BY EmptySeq DEF Init, Height, Applied
  <2>2. Blocks
    <3>1. Height <= MaxHeight /\ 1..Height = {}
      BY <2>1, HeightAssumption
    <3>2. \A f, g \in 1..Height, id \in TransactionId :
             Names(chain[f], id) /\ Names(chain[g], id) => f = g
      BY <3>1
    <3> QED
      BY <2>1, <3>1, <3>2 DEF Blocks
  <2> QED
    BY <2>1, <2>2 DEF Ready
<1>2. AP!Init /\ OP!Init
  BY <1>1 DEF Init, AP!Init, OP!Init, AP!Heights, OP!Heights
<1>3. AP!Inv /\ OP!Inv
  BY <1>2, AP!InitInv, OP!InitInv, HeightAssumption, Absent DEF Owners, Offers
<1>4. \A id \in TransactionId : AP!Rows(id) = {} /\ AP!Get(id, 0) = None
  <2>1. \A id \in TransactionId : AP!Rows(id) = {}
    BY DEF Init, AP!Rows, AP!Heights
  <2>2. \A id \in TransactionId : AP!Get(id, 0) = None
    BY <1>1, <1>3, AP!EmptyReads, HeightAssumption, Absent, HeightsKnown DEF Init, Owners, AP!Heights
  <2> QED
    BY <2>1, <2>2
<1>5. Past(chain, 0) = NoAlias
  BY <1>1, PastSteps DEF Blocks
<1>6. Reads
  BY <1>1, <1>4, <1>5, Absent DEF Reads, Says, NoAlias
<1> QED
  BY <1>1, <1>3, <1>4, <1>6 DEF Inv, Created

LEMMA PushInv ==
    ASSUME Inv, NEW t \in Transaction, PushBlock(t)
    PROVE  Inv'
<1> DEFINE s == Past(chain, Height)
<1>0. /\ Height \in Nat /\ Applied = Height /\ accepting = FALSE /\ chain \in Seq(Transaction)
  BY HeightsKnown DEF Inv, Blocks, PushBlock, Applied
<1>1. /\ chain' = Append(chain, t) /\ chain' \in Seq(Transaction) /\ Height' = Height + 1
      /\ \A i \in 1..Height : chain'[i] = chain[i]
      /\ chain'[Height + 1] = t /\ accepting' = TRUE /\ Applied' = Height
      /\ Height < MaxHeight /\ Valid(t)
      /\ UNCHANGED <<aliasRow, aliasLatest, offerRow, offerLatest>>
  BY <1>0, AppendProperties DEF PushBlock, Height, aliasTable, offerTable, Applied
<1>2. AP!NextBlock /\ OP!NextBlock
  BY <1>1 DEF AP!NextBlock, OP!NextBlock
<1>3. AP!Inv' /\ OP!Inv'
  BY <1>2, AP!NextBlockInv, OP!NextBlockInv, HeightAssumption, Absent DEF Inv, Owners, Offers
<1>4. CurrentId = (IF s.id = None THEN {} ELSE {s.id}) /\ s \in State
  BY <1>0, CurrentKnown
<1>5. Blocks'
  <2>1. \A i \in 1..Height, id \in TransactionId :
           ~(Names(chain[i], id) /\ Names(t, id))
    <3> SUFFICES ASSUME NEW i \in 1..Height, NEW id \in TransactionId,
                        Names(chain[i], id), Names(t, id)
                 PROVE  FALSE
      OBVIOUS
    <3>1. t.id \notin IncludedIds
      BY <1>1 DEF Valid, Names
    <3> QED
      BY <3>1 DEF IncludedIds, Names
  <2>2. \A f, g \in 1..Height', id \in TransactionId :
           Names(chain'[f], id) /\ Names(chain'[g], id) => f = g
    <3> SUFFICES ASSUME NEW f \in 1..Height', NEW g \in 1..Height', NEW id \in TransactionId,
                        Names(chain'[f], id), Names(chain'[g], id)
                 PROVE  f = g
      OBVIOUS
    <3>1. CASE f \in 1..Height /\ g \in 1..Height
      BY <1>1, <3>1 DEF Inv, Blocks
    <3>2. CASE f = Height + 1 /\ g \in 1..Height
      BY <1>1, <2>1, <3>2
    <3>3. CASE f \in 1..Height /\ g = Height + 1
      BY <1>1, <2>1, <3>3
    <3> QED
      BY <1>0, <1>1, <3>1, <3>2, <3>3
  <2>3. Height' <= MaxHeight /\ Height' > 0
    BY <1>0, <1>1, HeightAssumption
  <2> QED
    BY <1>1, <2>2, <2>3 DEF Blocks, Names
<1>6. Created'
  <2>1. \A id \in TransactionId : AP!Rows(id)' = AP!Rows(id)
    BY <1>1 DEF AP!Rows
  <2> SUFFICES ASSUME NEW id \in TransactionId, NEW g \in AP!Rows(id)
               PROVE  g <= Applied' /\ \E f \in 1..g : Names(chain'[f], id)
    BY <2>1 DEF Created, Names
  <2>2. g <= Height
    BY <1>0 DEF Inv, Created
  <2>3. PICK f \in 1..g : Names(chain[f], id)
    BY DEF Inv, Created
  <2>4. f \in 1..Height /\ g \in Int
    BY <1>0, <2>2 DEF AP!Rows, AP!Heights
  <2> QED
    BY <1>1, <2>2, <2>3, <2>4
<1>7. \A h \in 0..Height : Past(chain', h) = Past(chain, h)
  <2> TAKE h \in 0..Height
  <2>1. h \in Nat /\ h <= Len(chain) /\ h <= Len(chain') /\ \A i \in 1..h : chain'[i] = chain[i]
    BY <1>0, <1>1 DEF Height
  <2> QED
    BY <1>0, <1>1, <2>1, SamePast
<1>8. Reads'
  <2> SUFFICES ASSUME NEW h \in 0..Height', NEW id \in TransactionId
               PROVE  AP!Get(id, h)' = Says(Past(chain, IF h <= Applied THEN h ELSE Applied), id)'
    BY DEF Reads
  <2>1. AP!Get(id, h)' = AP!Get(id, IF h = Height' THEN Height ELSE h)
    <3>1. h \in AP!Known'
      BY <1>5, HeightsKnownNext
    <3> QED
      BY <1>2, <1>3, <3>1, AP!NextBlockReads, HeightAssumption, Absent DEF Inv, Owners
  <2> DEFINE k == IF h = Height' THEN Height ELSE h
  <2>2. k \in 0..Height /\ (IF h <= Applied' THEN h ELSE Applied') = k
    BY <1>0, <1>1
  <2>3. AP!Get(id, k) = Says(Past(chain, k), id)
    BY <1>0, <2>2 DEF Inv, Reads
  <2> QED
    BY <1>7, <2>1, <2>2, <2>3 DEF Says
<1>9. Ready'
  <2> SUFFICES ASSUME t.type \notin {"none", "assign"} PROVE Past(chain', Height).id # None
    BY <1>0, <1>1 DEF Ready
  <2>1. CurrentId # {}
    <3>1. t.type \in {"sell", "transfer", "buy", "delete"}
      BY DEF Transaction, Nothing, AliasAssignment, AliasSell, AliasTransfer, AliasBuy, AliasDelete
    <3> QED
      BY <1>1, <3>1 DEF Valid, OwnedBy
  <2> QED
    BY <1>0, <1>4, <1>7, <2>1
<1> QED
  BY <1>3, <1>5, <1>6, <1>8, <1>9 DEF Inv

\* What a transaction that writes the table of aliases changes.
LEMMA AliasWritten ==
    ASSUME Inv, UNCHANGED chain, NEW key \in TransactionId, ~AP!Buried(key),
           NEW v \in Owners, NEW answer \in {v, None},
           answer = v => AliasTable!Insert(key, v),
           answer = None => AliasTable!Delete(key, v)
    PROVE  /\ AP!Inv'
           /\ \A id \in TransactionId :
                 AP!Rows(id)' \subseteq AP!Rows(id) \cup (IF id = key THEN {Height} ELSE {})
           /\ \A h \in 0..Height, id \in TransactionId :
                 AP!Get(id, h)' = IF id = key /\ h = Height THEN answer ELSE AP!Get(id, h)
<1>0. AP!Inv /\ AP!Known = 0..Height /\ v \in AP!Entity /\ v \in [owner : Account]
  BY HeightsKnown DEF Inv, Owners, AP!Entity
<1>1. CASE AP!Insert(key, v) /\ answer = v
  <2>1. AP!Inv'
    BY <1>0, <1>1, AP!InsertInv, HeightAssumption, Absent DEF Owners
  <2>2. \A h \in 0..Height, id \in TransactionId :
           AP!Get(id, h)' = IF id = key /\ h = Height THEN v ELSE AP!Get(id, h)
    BY <1>0, <1>1, <2>1, AP!InsertReads, HeightAssumption, Absent DEF Owners
  <2>3. \A id \in TransactionId :
           AP!Rows(id)' \subseteq AP!Rows(id) \cup (IF id = key THEN {Height} ELSE {})
    BY <1>0, <1>1, AP!RowsAfter, HeightAssumption, Absent DEF Owners
  <2> QED
    BY <1>1, <2>1, <2>2, <2>3
<1>2. CASE AP!Delete(key, v) /\ answer = None
  <2>1. AP!Inv'
    BY <1>0, <1>2, AP!DeleteInv, HeightAssumption, Absent DEF Owners
  <2>2. \A h \in 0..Height, id \in TransactionId :
           AP!Get(id, h)' = IF id = key /\ h = Height THEN None ELSE AP!Get(id, h)
    BY <1>0, <1>2, <2>1, AP!DeleteReads, HeightAssumption, Absent DEF Owners
  <2>3. \A id \in TransactionId :
           AP!Rows(id)' \subseteq AP!Rows(id) \cup (IF id = key THEN {Height} ELSE {})
    BY <1>0, <1>2, AP!RowsAfter, HeightAssumption, Absent DEF Owners
  <2> QED
    BY <1>2, <2>1, <2>2, <2>3
<1> QED
  BY <1>1, <1>2, SameAliasTable

LEMMA OffersWritten ==
    ASSUME Inv, UNCHANGED chain,
           \/ UNCHANGED offerTable
           \/ /\ Id \in TransactionId
              /\ DeleteOffer \/ \E v \in Offers : OfferTable!Insert(Id, v)
    PROVE  OP!Inv'
<1>0. OP!Inv /\ OP!Known = 0..Height /\ Height \in Nat /\ UNCHANGED Height
  BY HeightsKnown DEF Inv, Height
<1>1. CASE UNCHANGED offerTable
  <2>1. UNCHANGED OP!vars
    BY <1>0, <1>1 DEF OP!vars, offerTable
  <2> QED
    BY <1>0, <2>1, OP!StepInv, HeightAssumption, Absent DEF Offers
<1>2. CASE Id \in TransactionId /\ \E v \in Offers : OfferTable!Insert(Id, v)
  <2>1. PICK v \in Offers : OP!Insert(Id, v)
    BY <1>2, SameOfferTable
  <2> QED
    BY <1>0, <1>2, <2>1, OP!InsertInv, HeightAssumption, Absent DEF Offers
<1>3. CASE Id \in TransactionId /\ OfferTable!Delete(Id, Offer)
  <2>1. Offer = OP!Get(Id, Height) /\ Height \in OP!Known /\ OP!Delete(Id, Offer)
    BY <1>0, <1>3, SameOfferTable DEF Offer
  <2>2. OP!Get(Id, Height) \in OP!Entity
    BY <1>0, <1>3, <2>1, OP!AnswersTyped, HeightAssumption, Absent DEF Offers
  <2> QED
    BY <1>0, <1>3, <2>1, <2>2, OP!DeleteInv, HeightAssumption, Absent DEF Offers
<1> QED
  BY <1>1, <1>2, <1>3 DEF DeleteOffer

\* What is read after the block at Height was applied.
LEMMA Effects ==
    ASSUME Inv, AcceptBlock
    PROVE  /\ AP!Inv' /\ OP!Inv'
           /\ \A id \in TransactionId :
                 /\ AP!Rows(id)' \subseteq AP!Rows(id) \cup {Height}
                 /\ Height \in AP!Rows(id)' => \E f \in 1..Height : Names(chain[f], id)
                 /\ AP!Get(id, Height)' = Says(Past(chain, Height), id)
                 /\ \A h \in 0..Height - 1 : AP!Get(id, h)' = AP!Get(id, h)
<1> DEFINE t == chain[Height]
           s == Past(chain, Height - 1)
           S == Past(chain, Height)
           Result == /\ AP!Inv'
                     /\ \A id \in TransactionId :
                           /\ AP!Rows(id)' \subseteq AP!Rows(id) \cup {Height}
                           /\ Height \in AP!Rows(id)' => \E f \in 1..Height : Names(chain[f], id)
                           /\ AP!Get(id, Height)' = Says(S, id)
                           /\ \A h \in 0..Height - 1 : AP!Get(id, h)' = AP!Get(id, h)
<1>0. /\ Height \in Nat \ {0} /\ Applied = Height - 1 /\ chain \in Seq(Transaction)
      /\ UNCHANGED chain /\ Height' = Height /\ accepting /\ Apply(t)
  BY HeightsKnown DEF Inv, Blocks, AcceptBlock, Applied, Height
<1>1. t \in Transaction /\ S = Execute(s, t) /\ s \in State
  <2>1. Height \in 1..Len(chain) /\ Height - 1 \in 0..Len(chain)
    BY <1>0 DEF Height
  <2> QED
    BY <1>0, <2>1, ElementOfSeq, PastSteps
<1>2. /\ s.id = None => CurrentId = {}
      /\ s.id # None => /\ CurrentId = {s.id} /\ Id = s.id /\ s.id \in TransactionId
                        /\ AP!Get(s.id, Height) = [owner |-> s.owner]
                        /\ AP!Rows(s.id) # {} /\ ~AP!Buried(s.id)
  BY <1>0, CurrentKnown
<1>3. \A id \in TransactionId : AP!Get(id, Height) = Says(s, id)
  BY <1>0 DEF Inv, Reads
<1>4. t.type \notin {"none", "assign"} => s.id # None
  BY <1>0 DEF Inv, Ready
<1>5. Names(t, t.id) => \E f \in 1..Height : Names(chain[f], t.id)
  BY <1>0
<1> HIDE DEF t, s, S
<1>6. ASSUME NEW id \in TransactionId, NEW g \in AP!Rows(id)
      PROVE  g < Height /\ \E f \in 1..Height : Names(chain[f], id)
  <2>1. g <= Height - 1 /\ g \in Int /\ \E f \in 1..g : Names(chain[f], id)
    BY <1>0 DEF Inv, Created, AP!Rows, AP!Heights
  <2> QED
    BY <1>0, <2>1
<1>7. ASSUME UNCHANGED aliasTable, S.id = s.id, S.owner = s.owner PROVE Result
  <2>1. UNCHANGED <<AP!vars, aliasRow, aliasLatest>>
    BY <1>0, <1>7 DEF AP!vars, aliasTable
  <2>2. AP!Inv'
    BY <2>1, AP!StepInv, HeightAssumption, Absent DEF Inv, Owners
  <2>3. \A id \in TransactionId : AP!Rows(id)' = AP!Rows(id)
    BY <2>1 DEF AP!Rows
  <2>4. \A id \in TransactionId, h \in 0..Height : AP!Get(id, h)' = AP!Get(id, h)
    <3>1. AP!Inv /\ AP!Known = 0..Height
      BY HeightsKnown DEF Inv
    <3> QED
      BY <1>0, <2>1, <2>2, <3>1, AP!OtherReads, HeightAssumption, Absent DEF Owners
  <2>5. Height \in 0..Height /\ \A h \in 0..Height - 1 : h \in 0..Height
    BY <1>0
  <2>6. \A id \in TransactionId : AP!Get(id, Height)' = Says(S, id)
    BY <1>0, <1>3, <1>7, <2>4, <2>5 DEF Says
  <2>7. \A id \in TransactionId : Height \notin AP!Rows(id)'
    BY <1>0, <1>6, <2>3
  <2> QED
    BY <2>2, <2>3, <2>4, <2>5, <2>6, <2>7
<1>8. ASSUME NEW key \in TransactionId, ~AP!Buried(key), \E f \in 1..Height : Names(chain[f], key),
             NEW v \in Owners, NEW answer \in {v, None},
             answer = v => AliasTable!Insert(key, v),
             answer = None => AliasTable!Delete(key, v),
             \A id \in TransactionId : Says(S, id) = IF id = key THEN answer ELSE Says(s, id)
      PROVE  Result
  <2>1. /\ AP!Inv'
        /\ \A id \in TransactionId :
              AP!Rows(id)' \subseteq AP!Rows(id) \cup (IF id = key THEN {Height} ELSE {})
        /\ \A h \in 0..Height, id \in TransactionId :
              AP!Get(id, h)' = IF id = key /\ h = Height THEN answer ELSE AP!Get(id, h)
    BY <1>0, <1>8, AliasWritten
  <2>2. /\ Height \in 0..Height
        /\ \A h \in 0..Height - 1 : h \in 0..Height /\ h # Height
    BY <1>0
  <2>3. \A id \in TransactionId : Height \in AP!Rows(id)' => \E f \in 1..Height : Names(chain[f], id)
    BY <1>0, <1>6, <1>8, <2>1
  <2>4. \A id \in TransactionId : AP!Get(id, Height)' = Says(S, id)
    BY <1>0, <1>3, <1>8, <2>1, <2>2
  <2>5. \A id \in TransactionId, h \in 0..Height - 1 : AP!Get(id, h)' = AP!Get(id, h)
    BY <2>1, <2>2
  <2>6. \A id \in TransactionId : AP!Rows(id)' \subseteq AP!Rows(id) \cup {Height}
    BY <2>1
  <2> QED
    BY <2>1, <2>3, <2>4, <2>5, <2>6
\* A new owner, be it by transfer or by purchase.
<1>9. ASSUME NEW a \in Account, s.id # None, ChangeOwner(a), S.id = s.id, S.owner = a
      PROVE  Result
  <2>1. AliasTable!Insert(s.id, [owner |-> a]) /\ [owner |-> a] \in Owners
    BY <1>2, <1>9 DEF ChangeOwner, Owners
  <2>2. \E f \in 1..Height : Names(chain[f], s.id)
    BY <1>2, <1>6, <1>9
  <2>3. \A id \in TransactionId :
           Says(S, id) = IF id = s.id THEN [owner |-> a] ELSE Says(s, id)
    BY <1>9 DEF Says
  <2>4. [owner |-> a] # None
    BY <2>1, Absent
  <2> QED
    BY <1>2, <1>8, <1>9, <2>1, <2>2, <2>3, <2>4
<1>10. CASE t \in AliasAssignment
  <2> DEFINE key == IF s.id = None THEN t.id ELSE s.id
             v == [owner |-> t.sender]
  <2>1. t.type = "assign" /\ t.id \in TransactionId /\ t.sender \in Account
    BY <1>10 DEF AliasAssignment
  <2>2. AliasTable!Insert(key, v) /\ UNCHANGED offerTable
    BY <1>0, <1>2, <2>1, Absent DEF Apply, AddOrUpdateAlias
  <2>3. key \in TransactionId /\ v \in Owners /\ v # None
    BY <1>2, <2>1, Absent DEF Owners
  <2>4. \E f \in 1..Height : Names(chain[f], key)
    BY <1>2, <1>5, <1>6, <2>1 DEF Names
  <2>5. ~AP!Buried(key)
    <3>1. CASE s.id # None
      BY <1>2, <3>1
    <3>2. CASE s.id = None
      <4>1. AP!Rows(t.id) = {}
        <5> SUFFICES ASSUME NEW g \in AP!Rows(t.id) PROVE FALSE
          OBVIOUS
        <5>1. g <= Height - 1 /\ g \in Int /\ \E f \in 1..g : Names(chain[f], t.id)
          BY <1>0, <2>1 DEF Inv, Created, AP!Rows, AP!Heights
        <5>2. PICK f \in 1..Height - 1 : Names(chain[f], t.id)
          BY <1>0, <5>1
        <5>3. Names(chain[Height], t.id) /\ f \in 1..Height /\ Height \in 1..Height
          BY <1>0, <2>1 DEF Names, t
        <5>4. f = Height
          BY <2>1, <5>2, <5>3 DEF Inv, Blocks
        <5> QED
          BY <1>0, <5>2, <5>4
      <4> QED
        BY <3>2, <4>1 DEF AP!Buried, AP!Newest
    <3> QED
      BY <3>1, <3>2
  <2>6. S.id = key /\ S.owner = t.sender
    BY <1>1, <2>1 DEF Execute, State
  <2>7. \A id \in TransactionId : Says(S, id) = IF id = key THEN v ELSE Says(s, id)
    BY <2>6, Absent DEF Says
  <2> HIDE DEF key, v, Result
  <2>8. Result
    BY <1>8, <2>2, <2>3, <2>4, <2>5, <2>7
  <2>9. OP!Inv'
    BY <1>0, <2>2, OffersWritten
  <2> QED
    BY <2>8, <2>9 DEF Result, S
<1>11. CASE t \in AliasSell
  <2>1. t.type = "sell" /\ [price |-> t.price, buyer |-> t.recipient] \in Offers
    BY <1>11 DEF AliasSell, Offers
  <2>2. SellAlias(t.price, t.recipient)
    BY <1>0, <2>1 DEF Apply
  <2>3. S.id = s.id /\ S.owner = s.owner
    BY <1>1, <2>1 DEF Execute, State
  <2>4. Result
    BY <1>7, <2>2, <2>3 DEF SellAlias
  <2>5. OP!Inv'
    BY <1>0, <1>2, <1>4, <2>1, <2>2, OffersWritten DEF SellAlias
  <2> QED
    BY <2>4, <2>5 DEF S
<1>12. CASE t \in AliasTransfer \cup AliasBuy
  <2> DEFINE a == IF t.type = "buy" THEN t.sender ELSE t.recipient
  <2>1. t.type \in {"transfer", "buy"} /\ a \in Account
    BY <1>12 DEF AliasTransfer, AliasBuy
  <2>2. ChangeOwner(a)
    BY <1>0, <2>1 DEF Apply
  <2>3. S.id = s.id /\ S.owner = a
    BY <1>1, <2>1 DEF Execute, State
  <2> HIDE DEF a, Result
  <2>4. Result
    BY <1>4, <1>9, <2>1, <2>2, <2>3
  <2>5. OP!Inv'
    BY <1>0, <1>2, <1>4, <2>1, <2>2, OffersWritten DEF ChangeOwner
  <2> QED
    BY <2>4, <2>5 DEF S, Result
<1>13. CASE t \in AliasDelete
  <2>1. t.type = "delete" /\ s.id # None
    BY <1>4, <1>13 DEF AliasDelete
  <2>2. DeleteAlias /\ S = NoAlias
    BY <1>0, <1>1, <2>1 DEF Apply, Execute
  <2> DEFINE v == [owner |-> s.owner]
  <2>3. AliasTable!Get(s.id, Height) = v /\ v \in Owners /\ v # None
    BY <1>0, <1>1, <1>2, <2>1, SameAliasTable, Absent DEF State, Owners
  <2>4. AliasTable!Delete(s.id, v)
    BY <1>2, <2>1, <2>2, <2>3 DEF DeleteAlias
  <2>5. \A id \in TransactionId : Says(S, id) = IF id = s.id THEN None ELSE Says(s, id)
    BY <2>2, Absent DEF Says, NoAlias
  <2>6. \E f \in 1..Height : Names(chain[f], s.id)
    BY <1>2, <1>6, <2>1
  <2> HIDE DEF v, Result
  <2>7. Result
    BY <1>2, <1>8, <2>1, <2>3, <2>4, <2>5, <2>6
  <2>8. OP!Inv'
    BY <1>0, <1>2, <2>1, <2>2, OffersWritten DEF DeleteAlias
  <2> QED
    BY <2>7, <2>8 DEF S, Result
<1>14. CASE t = Nothing
  <2>1. t.type = "none" /\ UNCHANGED aliasTable /\ UNCHANGED offerTable
    BY <1>0, <1>14 DEF Nothing, Apply
  <2>2. S = s
    BY <1>1, <2>1 DEF Execute
  <2>3. Result
    BY <1>7, <2>1, <2>2
  <2>4. OP!Inv'
    BY <1>0, <2>1, OffersWritten
  <2> QED
    BY <2>3, <2>4 DEF S
<1> QED
  BY <1>1, <1>10, <1>11, <1>12, <1>13, <1>14 DEF Transaction

LEMMA AcceptInv ==
    ASSUME Inv, AcceptBlock
    PROVE  Inv'
<1>0. /\ Height \in Nat \ {0} /\ Applied = Height - 1 /\ chain \in Seq(Transaction)
      /\ UNCHANGED chain /\ Height' = Height /\ accepting' = FALSE /\ Applied' = Height
  BY HeightsKnown DEF Inv, Blocks, AcceptBlock, Applied, Height
<1>1. Blocks' /\ Ready'
  BY <1>0 DEF Inv, Blocks, Ready, Names
<1>2. Created'
  <2> SUFFICES ASSUME NEW id \in TransactionId, NEW g \in AP!Rows(id)'
               PROVE  g <= Height /\ \E f \in 1..g : Names(chain[f], id)
    BY <1>0 DEF Created, Names
  <2>1. CASE g \in AP!Rows(id)
    <3>1. g <= Height - 1 /\ g \in Int /\ \E f \in 1..g : Names(chain[f], id)
      BY <1>0, <2>1 DEF Inv, Created, AP!Rows, AP!Heights
    <3> QED
      BY <1>0, <3>1
  <2>2. CASE g = Height
    BY <1>0, <2>2, Effects
  <2> QED
    BY <2>1, <2>2, Effects
<1>3. Reads'
  <2> SUFFICES ASSUME NEW h \in 0..Height, NEW id \in TransactionId
               PROVE  AP!Get(id, h)' = Says(Past(chain, h), id)
    BY <1>0 DEF Reads, Says
  <2>1. CASE h = Height
    BY <1>0, <2>1, Effects
  <2>2. CASE h # Height
    <3>1. h \in 0..Height - 1 /\ h \in 0..Height
      BY <1>0, <2>2
    <3>2. AP!Get(id, h) = Says(Past(chain, h), id)
      BY <1>0, <3>1 DEF Inv, Reads
    <3> QED
      BY <3>1, <3>2, Effects
  <2> QED
    BY <2>1, <2>2
<1> QED
  BY <1>1, <1>2, <1>3, Effects DEF Inv

LEMMA PopOffInv ==
    ASSUME Inv, NEW h \in 0..MaxHeight, PopOffTo(h)
    PROVE  Inv'
<1>0. /\ Height \in Nat /\ Applied = Height /\ chain \in Seq(Transaction) /\ h < Height
      /\ accepting = FALSE /\ accepting' = FALSE /\ chain' = SubSeq(chain, 1, h)
      /\ AP!Rollback(h) /\ OP!Rollback(h)
  BY HeightsKnown, SameAliasTable, SameOfferTable DEF Inv, Blocks, PopOffTo, Applied
<1>1. /\ chain' \in Seq(Transaction) /\ Height' = h /\ Applied' = h
      /\ \A i \in 1..h : chain'[i] = chain[i]
  <2>1. \A i \in 1..h : chain[i] \in Transaction
    BY <1>0, ElementOfSeq DEF Height
  <2>2. Len(chain') = h /\ chain' \in Seq(Transaction) /\ \A i \in 1..h : chain'[i] = chain[i]
    BY <1>0, <2>1 DEF Height
  <2> QED
    BY <1>0, <2>2 DEF Height, Applied
<1>2. AP!Inv' /\ OP!Inv'
  BY <1>0, HeightsKnown, AP!RollbackInv, OP!RollbackInv, HeightAssumption, Absent
     DEF Inv, Owners, Offers
<1>3. Blocks'
  <2>1. h <= MaxHeight /\ \A i \in 1..h : i \in 1..Height
    BY <1>0, HeightAssumption
  <2>2. \A f, g \in 1..h, id \in TransactionId :
           Names(chain'[f], id) /\ Names(chain'[g], id) => f = g
    BY <1>1, <2>1 DEF Inv, Blocks
  <2> QED
    BY <1>0, <1>1, <2>1, <2>2 DEF Blocks, Names
<1>4. Created'
  <2>1. \A id \in TransactionId : AP!Rows(id)' = {g \in AP!Rows(id) : g <= h}
    BY <1>0, HeightsKnown, AP!RowsAfter, HeightAssumption, Absent DEF Inv, Owners
  <2> SUFFICES ASSUME NEW id \in TransactionId, NEW g \in AP!Rows(id), g <= h
               PROVE  g <= Applied' /\ \E f \in 1..g : Names(chain'[f], id)
    BY <2>1 DEF Created, Names
  <2>2. PICK f \in 1..g : Names(chain[f], id)
    BY DEF Inv, Created
  <2>3. f \in 1..h
    BY DEF AP!Rows, AP!Heights
  <2> QED
    BY <1>1, <2>2, <2>3
<1>5. Reads'
  <2> SUFFICES ASSUME NEW k \in 0..h, NEW id \in TransactionId
               PROVE  AP!Get(id, k)' = Says(Past(chain', k), id)
    BY <1>1 DEF Reads, Says
  <2>1. AP!Get(id, k)' = AP!Get(id, k)
    <3>1. k \in AP!Known' /\ h \in AP!Heights
      BY <1>1, <1>3, HeightsKnownNext, HeightsKnown DEF Inv
    <3> QED
      BY <1>0, <1>2, <3>1, AP!RollbackReads, HeightAssumption, Absent DEF Inv, Owners
  <2>2. k \in 0..Height /\ k <= Applied
    BY <1>0
  <2>3. AP!Get(id, k) = Says(Past(chain, k), id)
    BY <2>2 DEF Inv, Reads
  <2>4. Past(chain', k) = Past(chain, k)
    <3>1. /\ k \in Nat /\ k <= Len(chain) /\ k <= Len(chain')
          /\ \A i \in 1..k : chain'[i] = chain[i]
      BY <1>0, <1>1, <2>2 DEF Height
    <3> QED
      BY <1>0, <1>1, <3>1, SamePast
  <2> QED
    BY <2>1, <2>3, <2>4
<1>6. Ready'
  BY <1>0 DEF Ready
<1> QED
  BY <1>2, <1>3, <1>4, <1>5, <1>6 DEF Inv

LEMMA Invariance == Spec => []Inv
<1>1. Inv /\ [Next]_vars => Inv'
  <2> SUFFICES ASSUME Inv, [Next]_vars PROVE Inv'
    OBVIOUS
  <2>1. CASE UNCHANGED vars
    <3>1. /\ UNCHANGED <<chain, accepting, aliasRow, aliasLatest, offerRow, offerLatest>>
          /\ Height' = Height /\ Applied' = Applied
      BY <2>1 DEF vars, aliasTable, offerTable, Height, Applied
    <3>2. UNCHANGED <<AP!vars, OP!vars>>
      BY <3>1 DEF AP!vars, OP!vars
    <3>3. AP!Inv' /\ OP!Inv'
      BY <3>2, AP!StepInv, OP!StepInv, HeightAssumption, Absent DEF Inv, Owners, Offers
    <3>4. Blocks' /\ Ready' /\ Created'
      BY <3>1 DEF Inv, Blocks, Ready, Created, Names, AP!Rows
    <3>5. Reads'
      <4>1. AP!Known = 0..Height
        BY HeightsKnown DEF Inv
      <4>2. \A id \in TransactionId, h \in 0..Height : AP!Get(id, h)' = AP!Get(id, h)
        BY <3>1, <3>3, <4>1, AP!OtherReads, HeightAssumption, Absent DEF Inv, Owners
      <4> QED
        BY <3>1, <4>2 DEF Inv, Reads, Says
    <3> QED
      BY <3>3, <3>4, <3>5 DEF Inv
  <2> QED
    BY <2>1, PushInv, AcceptInv, PopOffInv DEF Next
<1> QED
  BY <1>1, InitInv, PTL DEF Spec

\* The chain, and the rows and flags of both tables, keep their types.
THEOREM TypeCorrect == Spec => []TypeOK
<1>1. Inv => TypeOK
  BY SameAliasTable, SameOfferTable DEF Inv, Blocks, AP!Inv, OP!Inv, TypeOK
<1> QED
  BY <1>1, Invariance, PTL

\* Nodes that agree on the chain agree on the owner of the alias at every height,
\* whatever they popped off before.
THEOREM OwnerCorrect == Spec => []OwnerAsReplayed
<1>1. Inv => OwnerAsReplayed
  <2> SUFFICES ASSUME Inv, ~accepting, NEW h \in 0..Height, NEW id \in TransactionId
               PROVE  AliasTable!Get(id, h) = Says(Replayed(h), id)
    BY DEF OwnerAsReplayed, Says
  <2>1. h \in Int /\ h <= Applied
    BY HeightsKnown DEF Inv, Applied
  <2> QED
    BY <2>1, SameAliasTable DEF Inv, Reads, Replayed, Past
<1> QED
  BY <1>1, Invariance, PTL

-----------------------------------------------------------------------------
(* The offers, while none is written over the tombstone of an earlier one.   *)

\* A sale finds no deleted offer of the alias in the table.
SoldOnce ==
    accepting /\ ~accepting' /\ chain[Height].type = "sell" => ~OfferTable!Buried(Id)

SoldOnceSpec == Init /\ [][Next /\ SoldOnce]_vars

Offered(s, id) == IF id = s.id THEN s.offer ELSE None

OfferReads ==
    /\ \A h \in 0..Height, id \in TransactionId :
          OP!Get(id, h) = Offered(Past(chain, IF h <= Applied THEN h ELSE Applied), id)
    /\ \A h \in 0..Applied : Past(chain, h).id = None => Past(chain, h).offer = None

LEMMA InitOffers == Init => OfferReads
<1> SUFFICES ASSUME Init PROVE OfferReads
  OBVIOUS
<1>1. Height = 0 /\ Applied = 0 /\ Inv
  BY InitInv, EmptySeq DEF Init, Height, Applied
<1>2. \A id \in TransactionId : OP!Get(id, 0) = None
  BY <1>1, OP!EmptyReads, HeightAssumption, Absent, HeightsKnown
     DEF Inv, Init, Offers, OP!Heights
<1>3. Past(chain, 0) = NoAlias
  BY <1>1, PastSteps DEF Inv, Blocks
<1> QED
  BY <1>1, <1>2, <1>3, Absent DEF OfferReads, Offered, NoAlias

LEMMA PushOffers ==
    ASSUME Inv, Inv', OfferReads, NEW t \in Transaction, PushBlock(t)
    PROVE  OfferReads'
<1>0. /\ Height \in Nat /\ Applied = Height /\ accepting = FALSE /\ chain \in Seq(Transaction)
  BY HeightsKnown DEF Inv, Blocks, PushBlock, Applied
<1>1. /\ chain' \in Seq(Transaction) /\ Height' = Height + 1 /\ Applied' = Height
      /\ \A i \in 1..Height : chain'[i] = chain[i]
      /\ Height < MaxHeight /\ UNCHANGED <<offerRow, offerLatest>>
  BY <1>0, AppendProperties DEF PushBlock, Height, offerTable, Applied
<1>2. OP!NextBlock
  BY <1>1 DEF OP!NextBlock
<1>3. \A h \in 0..Height : Past(chain', h) = Past(chain, h)
  <2> TAKE h \in 0..Height
  <2>1. h \in Nat /\ h <= Len(chain) /\ h <= Len(chain') /\ \A i \in 1..h : chain'[i] = chain[i]
    BY <1>0, <1>1 DEF Height
  <2> QED
    BY <1>0, <1>1, <2>1, SamePast
<1>4. ASSUME NEW h \in 0..Height', NEW id \in TransactionId
      PROVE  OP!Get(id, h)' = Offered(Past(chain', IF h <= Applied' THEN h ELSE Applied'), id)
  <2> DEFINE k == IF h = Height' THEN Height ELSE h
  <2>1. OP!Get(id, h)' = OP!Get(id, k)
    <3>1. h \in OP!Known'
      BY HeightsKnownNext DEF Inv
    <3> QED
      BY <1>2, <3>1, OP!NextBlockReads, HeightAssumption, Absent DEF Inv, Offers
  <2>2. k \in 0..Height /\ (IF h <= Applied' THEN h ELSE Applied') = k
    BY <1>0, <1>1
  <2>3. OP!Get(id, k) = Offered(Past(chain, k), id)
    BY <1>0, <2>2 DEF OfferReads
  <2> QED
    BY <1>3, <2>1, <2>2, <2>3
<1>5. \A h \in 0..Applied' : Past(chain', h).id = None => Past(chain', h).offer = None
  BY <1>0, <1>1, <1>3 DEF OfferReads
<1> QED
  BY <1>4, <1>5 DEF OfferReads, Offered

LEMMA PopOffOffers ==
    ASSUME Inv, Inv', OfferReads, NEW h \in 0..MaxHeight, PopOffTo(h)
    PROVE  OfferReads'
<1>0. /\ Height \in Nat /\ Applied = Height /\ chain \in Seq(Transaction) /\ h < Height
      /\ accepting' = FALSE /\ chain' = SubSeq(chain, 1, h) /\ OP!Rollback(h)
  BY HeightsKnown, SameOfferTable DEF Inv, Blocks, PopOffTo, Applied
<1>1. /\ chain' \in Seq(Transaction) /\ Height' = h /\ Applied' = h
      /\ \A i \in 1..h : chain'[i] = chain[i]
  <2>1. \A i \in 1..h : chain[i] \in Transaction
    BY <1>0, ElementOfSeq DEF Height
  <2>2. Len(chain') = h /\ chain' \in Seq(Transaction) /\ \A i \in 1..h : chain'[i] = chain[i]
    BY <1>0, <2>1 DEF Height
  <2> QED
    BY <1>0, <2>2 DEF Height, Applied
<1>2. ASSUME NEW k \in 0..h PROVE Past(chain', k) = Past(chain, k) /\ k \in 0..Height
  <2>1. /\ k \in Nat /\ k <= Len(chain) /\ k <= Len(chain')
        /\ \A i \in 1..k : chain'[i] = chain[i]
    BY <1>0, <1>1 DEF Height
  <2>2. k \in 0..Height
    BY <1>0
  <2> QED
    BY <1>0, <1>1, <2>1, <2>2, SamePast
<1>3. ASSUME NEW k \in 0..h, NEW id \in TransactionId
      PROVE  OP!Get(id, k)' = Offered(Past(chain', k), id)
  <2>1. OP!Get(id, k)' = OP!Get(id, k)
    <3>1. k \in OP!Known' /\ h \in OP!Heights
      BY <1>1, HeightsKnownNext, HeightsKnown DEF Inv
    <3> QED
      BY <1>0, <3>1, OP!RollbackReads, HeightAssumption, Absent DEF Inv, Offers
  <2>2. OP!Get(id, k) = Offered(Past(chain, k), id)
    BY <1>0, <1>2 DEF OfferReads
  <2> QED
    BY <1>2, <2>1, <2>2
<1>4. \A k \in 0..h : Past(chain', k).id = None => Past(chain', k).offer = None
  BY <1>0, <1>2 DEF OfferReads
<1> QED
  BY <1>1, <1>3, <1>4 DEF OfferReads, Offered

\* What a transaction that writes the table of offers changes.
LEMMA OfferWritten ==
    ASSUME Inv, Inv', UNCHANGED chain, NEW key \in TransactionId, ~OP!Buried(key),
           NEW v \in Offers, NEW answer \in {v, None},
           answer = v => OfferTable!Insert(key, v),
           answer = None => OfferTable!Delete(key, v)
    PROVE  \A h \in 0..Height, id \in TransactionId :
               OP!Get(id, h)' = IF id = key /\ h = Height THEN answer ELSE OP!Get(id, h)
<1>0. OP!Inv /\ OP!Inv' /\ OP!Known = 0..Height /\ v \in OP!Entity
  BY HeightsKnown DEF Inv, Offers, OP!Entity
<1>1. CASE OP!Insert(key, v) /\ answer = v
  BY <1>0, <1>1, OP!InsertReads, HeightAssumption, Absent DEF Offers
<1>2. CASE OP!Delete(key, v) /\ answer = None
  BY <1>0, <1>2, OP!DeleteReads, HeightAssumption, Absent DEF Offers
<1> QED
  BY <1>1, <1>2, SameOfferTable

\* What is read of the offers after the block at Height was applied.
LEMMA OfferEffects ==
    ASSUME Inv, Inv', OfferReads, AcceptBlock, SoldOnce
    PROVE  LET S == Past(chain, Height) IN
           /\ S.id = None => S.offer = None
           /\ \A id \in TransactionId :
                 /\ OP!Get(id, Height)' = Offered(S, id)
                 /\ \A h \in 0..Height - 1 : OP!Get(id, h)' = OP!Get(id, h)
<1> DEFINE t == chain[Height]
           s == Past(chain, Height - 1)
           S == Past(chain, Height)
           Result == \A id \in TransactionId :
                        /\ OP!Get(id, Height)' = Offered(S, id)
                        /\ \A h \in 0..Height - 1 : OP!Get(id, h)' = OP!Get(id, h)
<1>0. /\ Height \in Nat \ {0} /\ Applied = Height - 1 /\ chain \in Seq(Transaction)
      /\ UNCHANGED chain /\ Height' = Height /\ accepting /\ ~accepting' /\ Apply(t)
  BY HeightsKnown DEF Inv, Blocks, AcceptBlock, Applied, Height
<1>1. t \in Transaction /\ S = Execute(s, t) /\ s \in State
  <2>1. Height \in 1..Len(chain) /\ Height - 1 \in 0..Len(chain)
    BY <1>0 DEF Height
  <2> QED
    BY <1>0, <2>1, ElementOfSeq, PastSteps
<1>2. /\ s.id = None => CurrentId = {}
      /\ s.id # None => CurrentId = {s.id} /\ Id = s.id /\ s.id \in TransactionId
  BY <1>0, CurrentKnown
<1>3. \A id \in TransactionId : OP!Get(id, Height) = Offered(s, id)
  BY <1>0 DEF OfferReads
<1>4. t.type \notin {"none", "assign"} => s.id # None
  BY <1>0 DEF Inv, Ready
<1>5. s.id = None => s.offer = None
  <2>1. Height - 1 \in 0..Applied
    BY <1>0
  <2> QED
    BY <2>1 DEF OfferReads
<1>6. t.type = "sell" => ~OP!Buried(Id)
  <2>1. t.type = "sell" => Id \in TransactionId
    BY <1>2, <1>4
  <2> QED
    BY <1>0, <2>1, SameOfferTable DEF SoldOnce
<1> HIDE DEF t, s, S
<1>7. ASSUME UNCHANGED offerTable, \A id \in TransactionId : Offered(S, id) = Offered(s, id)
      PROVE  Result
  <2>1. \A id \in TransactionId, h \in 0..Height : OP!Get(id, h)' = OP!Get(id, h)
    <3>1. OP!Inv /\ OP!Inv' /\ OP!Known = 0..Height
      BY HeightsKnown DEF Inv
    <3>2. UNCHANGED <<offerRow, offerLatest>>
      BY <1>7 DEF offerTable
    <3> QED
      BY <1>0, <3>1, <3>2, OP!OtherReads, HeightAssumption, Absent DEF Offers
  <2>2. Height \in 0..Height /\ \A h \in 0..Height - 1 : h \in 0..Height
    BY <1>0
  <2> QED
    BY <1>0, <1>3, <1>7, <2>1, <2>2
<1>8. ASSUME NEW key \in TransactionId, ~OP!Buried(key), NEW v \in Offers, NEW answer \in {v, None},
             answer = v => OfferTable!Insert(key, v),
             answer = None => OfferTable!Delete(key, v),
             \A id \in TransactionId : Offered(S, id) = IF id = key THEN answer ELSE Offered(s, id)
      PROVE  Result
  <2>1. \A h \in 0..Height, id \in TransactionId :
            OP!Get(id, h)' = IF id = key /\ h = Height THEN answer ELSE OP!Get(id, h)
    BY <1>0, <1>8, OfferWritten
  <2>2. Height \in 0..Height /\ \A h \in 0..Height - 1 : h \in 0..Height /\ h # Height
    BY <1>0
  <2> QED
    BY <1>0, <1>3, <1>8, <2>1, <2>2
\* The offer ends with the owner or the alias.
<1>9. ASSUME s.id # None, DeleteOffer, S.offer = None, S.id \in {s.id, None} PROVE Result
  <2>1. \A id \in TransactionId : Offered(S, id) = IF id = s.id THEN None ELSE Offered(s, id)
    BY <1>9, Absent DEF Offered
  <2>2. Offer = OP!Get(s.id, Height) /\ OP!Get(s.id, Height) = s.offer
    BY <1>0, <1>2, <1>3, <1>9, SameOfferTable DEF Offer, Offered
  <2>3. CASE Offer = None
    BY <1>7, <1>9, <2>1, <2>2, <2>3 DEF DeleteOffer, Offered
  <2>4. CASE Offer # None
    <3>1. Offer \in Offers /\ Offer # None
      BY <1>1, <2>2, <2>4 DEF State
    <3>2. OfferTable!Delete(s.id, Offer)
      BY <1>2, <1>9, <2>4 DEF DeleteOffer
    <3>3. ~OP!Buried(s.id)
      BY <1>2, <1>9, <2>2, <2>4, OP!ReadNow, HeightAssumption, Absent DEF Inv, Offers
    <3> HIDE DEF Result
    <3> QED
      BY <1>2, <1>8, <1>9, <2>1, <3>1, <3>2, <3>3
  <2> QED
    BY <2>3, <2>4
<1>10. CASE t = Nothing
  <2>1. t.type = "none" /\ UNCHANGED offerTable
    BY <1>0, <1>10 DEF Nothing, Apply
  <2>2. S = s
    BY <1>1, <2>1 DEF Execute
  <2> QED
    BY <1>5, <1>7, <2>1, <2>2 DEF S
<1>11. CASE t \in AliasAssignment
  <2>1. t.type = "assign" /\ t.id \in TransactionId /\ UNCHANGED offerTable
    BY <1>0, <1>11 DEF AliasAssignment, Apply, AddOrUpdateAlias
  <2>2. S.id = (IF s.id = None THEN t.id ELSE s.id) /\ S.offer = s.offer
    BY <1>1, <2>1 DEF Execute, State
  <2>3. \A id \in TransactionId : Offered(S, id) = Offered(s, id)
    BY <1>5, <2>2, Absent DEF Offered
  <2>4. S.id # None
    BY <2>1, <2>2, Absent
  <2> QED
    BY <1>7, <2>1, <2>3, <2>4 DEF S
<1>12. CASE t \in AliasSell
  <2> DEFINE v == [price |-> t.price, buyer |-> t.recipient]
  <2>1. t.type = "sell" /\ v \in Offers /\ v # None
    BY <1>12, Absent DEF AliasSell, Offers
  <2>2. OfferTable!Insert(s.id, v) /\ s.id # None /\ s.id \in TransactionId /\ ~OP!Buried(s.id)
    BY <1>0, <1>2, <1>4, <1>6, <2>1 DEF Apply, SellAlias
  <2>3. S.id = s.id /\ S.offer = v
    BY <1>1, <2>1 DEF Execute, State
  <2>4. \A id \in TransactionId : Offered(S, id) = IF id = s.id THEN v ELSE Offered(s, id)
    BY <2>3 DEF Offered
  <2> HIDE DEF v, Result
  <2>5. Result
    BY <1>8, <2>1, <2>2, <2>4
  <2> QED
    BY <2>2, <2>3, <2>5 DEF S, Result
<1>13. CASE t \in AliasTransfer \cup AliasBuy \cup AliasDelete
  <2>1. t.type \in {"transfer", "buy", "delete"}
    BY <1>13 DEF AliasTransfer, AliasBuy, AliasDelete
  <2>2. DeleteOffer
    BY <1>0, <2>1 DEF Apply, ChangeOwner, DeleteAlias
  <2>3. S.offer = None /\ S.id \in {s.id, None}
    BY <1>1, <2>1 DEF Execute, State, NoAlias
  <2>4. Result
    BY <1>4, <1>9, <2>1, <2>2, <2>3
  <2> QED
    BY <2>3, <2>4 DEF S
<1> QED
  BY <1>1, <1>10, <1>11, <1>12, <1>13 DEF Transaction

LEMMA OffersStep ==
    ASSUME Inv, Inv', OfferReads, [Next /\ SoldOnce]_vars
    PROVE  OfferReads'
<1>1. CASE UNCHANGED vars
  <2>1. /\ UNCHANGED <<chain, accepting, offerRow, offerLatest>>
        /\ Height' = Height /\ Applied' = Applied
    BY <1>1 DEF vars, offerTable, Height, Applied
  <2>2. OP!Known = 0..Height
    BY HeightsKnown DEF Inv
  <2>3. \A id \in TransactionId, h \in 0..Height : OP!Get(id, h)' = OP!Get(id, h)
    BY <2>1, <2>2, OP!OtherReads, HeightAssumption, Absent DEF Inv, Offers
  <2> QED
    BY <2>1, <2>3 DEF OfferReads, Offered
<1>2. CASE AcceptBlock /\ SoldOnce
  <2>1. /\ Height \in Nat \ {0} /\ Applied = Height - 1 /\ UNCHANGED chain
        /\ Height' = Height /\ Applied' = Height
    BY <1>2, HeightsKnown DEF Inv, Blocks, AcceptBlock, Applied, Height
  <2>2. ASSUME NEW h \in 0..Height, NEW id \in TransactionId
        PROVE  OP!Get(id, h)' = Offered(Past(chain, h), id)
    <3>1. CASE h = Height
      BY <1>2, <2>1, <3>1, OfferEffects
    <3>2. CASE h # Height
      <4>1. h \in 0..Height - 1 /\ h <= Applied
        BY <2>1, <3>2
      <4>2. OP!Get(id, h) = Offered(Past(chain, h), id)
        BY <4>1 DEF OfferReads
      <4> QED
        BY <1>2, <4>1, <4>2, OfferEffects
    <3> QED
      BY <3>1, <3>2
  <2>3. ASSUME NEW h \in 0..Height, Past(chain, h).id = None PROVE Past(chain, h).offer = None
    <3>1. CASE h = Height
      BY <1>2, <2>3, <3>1, OfferEffects
    <3>2. CASE h # Height
      <4>1. h \in 0..Applied
        BY <2>1, <3>2
      <4> QED
        BY <2>3, <4>1 DEF OfferReads
    <3> QED
      BY <3>1, <3>2
  <2> QED
    BY <2>1, <2>2, <2>3 DEF OfferReads, Offered
<1> QED
  BY <1>1, <1>2, PushOffers, PopOffOffers DEF Next

\* The defect that the run alias_offer shows is the only one.  While no alias is
\* offered again over the tombstone of an earlier offer, the alias is for sale
\* exactly on the terms of its owner's last offer, whatever was popped off; and the
\* same is read of every block below the last.
THEOREM OfferWhenSoldOnce ==
    SoldOnceSpec =>
        /\ []OfferAsReplayed
        /\ [](~accepting => \A h \in 0..Height, id \in TransactionId :
                                OfferTable!Get(id, h) = IF id = Replayed(h).id
                                                        THEN Replayed(h).offer ELSE None)
<1> DEFINE Read == ~accepting => \A h \in 0..Height, id \in TransactionId :
                       OfferTable!Get(id, h) = IF id = Replayed(h).id
                                               THEN Replayed(h).offer ELSE None
<1>1. SoldOnceSpec => []Inv
  <2>1. SoldOnceSpec => Spec
    BY PTL DEF SoldOnceSpec, Spec
  <2> QED
    BY <2>1, Invariance
<1>2. Inv /\ OfferReads => Read
  <2> SUFFICES ASSUME Inv, OfferReads, ~accepting, NEW h \in 0..Height, NEW id \in TransactionId
               PROVE  OfferTable!Get(id, h) = Offered(Replayed(h), id)
    BY DEF Offered
  <2>1. h \in Int /\ h <= Applied
    BY HeightsKnown DEF Inv, Applied
  <2> QED
    BY <2>1, SameOfferTable DEF OfferReads, Replayed, Past
<1>3. Inv /\ Read => OfferAsReplayed
  <2> SUFFICES ASSUME Inv, Read, ~accepting, CurrentId # {} PROVE Offer = Replayed(Height).offer
    BY DEF OfferAsReplayed
  <2>1. Height \in 0..Height /\ Past(chain, Applied) = Replayed(Height)
    BY HeightsKnown DEF Inv, Applied, Past, Replayed
  <2>2. Id = Replayed(Height).id /\ Id \in TransactionId
    BY <2>1, CurrentKnown
  <2> QED
    BY <2>1, <2>2 DEF Offer
<1>4. Inv /\ Inv' /\ OfferReads /\ [Next /\ SoldOnce]_vars => OfferReads'
  BY OffersStep
<1> QED
  BY <1>1, <1>2, <1>3, <1>4, InitOffers, PTL DEF SoldOnceSpec
=============================================================================
