------------------------ MODULE VersionedTableProofs ------------------------
(***************************************************************************)
(* Proofs about VersionedTable, for every set of keys and entities and     *)
(* every height bound: the shape of the rows is invariant, and the table   *)
(* implements SnapshotStore, but for the keys of Reused.                   *)
(***************************************************************************)
EXTENDS VersionedTable, TLAPS

\* The rows of every table, whatever its keys are used for.
Inv == TypeOK /\ NoFutureRow /\ LatestIsNewest

-----------------------------------------------------------------------------
(* Clearing the flag of the only latest row. *)

LEMMA ClearOnly ==
    ASSUME NEW S, \A g, h \in S : g = h
    PROVE  ClearLatest(S) = {}
<1>1. CASE S = {}
  BY <1>1 DEF ClearLatest
<1>2. CASE S # {}
  <2>1. PICK g \in S : TRUE
    BY <1>2
  <2>2. Limit1(S) \in S
    BY <2>1 DEF Limit1
  <2>3. S = {Limit1(S)}
    BY <2>1, <2>2
  <2> QED
    BY <1>2, <2>3 DEF ClearLatest
<1> QED
  BY <1>1, <1>2

LEMMA NewestUnique ==
    ASSUME NEW S \in SUBSET Int, NEW g \in Newest(S), NEW h \in Newest(S)
    PROVE  g = h
BY DEF Newest

LEMMA LatestUnique ==
    ASSUME Inv, NEW k \in Keys, NEW g \in latest[k], NEW h \in latest[k]
    PROVE  g = h
<1>1. Rows(k) \in SUBSET Int
  BY DEF Rows, Heights
<1>2. g \in Newest(Rows(k)) /\ h \in Newest(Rows(k))
  BY DEF Inv, LatestIsNewest
<1> QED
  BY <1>1, <1>2, NewestUnique

\* What insert and delete do to the flags once ClearLatest is evaluated.
LEMMA ClearedLatest ==
    ASSUME Inv, NEW k \in Keys
    PROVE  /\ ClearLatest(latest[k]) \cup {height} = {height}
           /\ ClearLatest(ClearLatest(latest[k]) \cup {height}) = {}
<1>1. ClearLatest(latest[k]) = {}
  BY LatestUnique, ClearOnly
<1>2. ClearLatest({height}) = {}
  BY ClearOnly
<1> QED
  BY <1>1, <1>2

-----------------------------------------------------------------------------
(* The invariant. *)

LEMMA InitInv == Init => Inv
<1> SUFFICES ASSUME Init PROVE Inv
  OBVIOUS
<1> USE MaxHeightAssumption, ValuesAssumption DEF Init, Heights, Entity
<1>1. TypeOK
  BY DEF TypeOK
<1>2. \A k \in Keys : Rows(k) = {} /\ latest[k] = {}
  BY DEF Rows
<1> QED
  BY <1>1, <1>2 DEF Inv, NoFutureRow, LatestIsNewest

LEMMA NextBlockInv ==
    ASSUME Inv, NextBlock
    PROVE  Inv'
<1> USE MaxHeightAssumption DEF NextBlock
<1>1. TypeOK'
  BY DEF Inv, TypeOK, Heights
<1>2. \A k \in Keys : Rows(k)' = Rows(k)
  BY DEF Rows
<1>3. NoFutureRow'
  BY <1>2 DEF Inv, TypeOK, NoFutureRow, Rows, Heights
<1>4. LatestIsNewest'
  BY <1>2 DEF Inv, LatestIsNewest, Newest
<1> QED
  BY <1>1, <1>3, <1>4 DEF Inv

LEMMA InsertInv ==
    ASSUME Inv, NEW k \in Keys, NEW v \in Values, Insert(k, v)
    PROVE  Inv'
<1> USE MaxHeightAssumption, ValuesAssumption
<1>1. latest' = [latest EXCEPT ![k] = {height}]
  BY ClearedLatest DEF Insert, Inv, TypeOK
<1>2. TypeOK'
  BY <1>1 DEF Inv, TypeOK, Insert, Entity
<1>3. Rows(k)' = Rows(k) \cup {height}
  BY DEF Inv, TypeOK, Insert, Rows, Entity
<1>4. \A j \in Keys \ {k} : Rows(j)' = Rows(j) /\ latest'[j] = latest[j] /\ version'[j] = version[j]
  BY <1>1 DEF Inv, TypeOK, Insert, Rows
<1>5. NoFutureRow'
  BY <1>3, <1>4 DEF Inv, TypeOK, NoFutureRow, Insert, Heights
<1>6. height \in Newest(Rows(k)')
  <2>1. height \in Int /\ \A h \in Rows(k) : h \in Int /\ h <= height
    BY DEF Inv, NoFutureRow, TypeOK, Rows, Heights
  <2> QED
    BY <1>3, <2>1 DEF Newest
<1>7. LatestIsNewest'
  BY <1>1, <1>4, <1>6 DEF Inv, TypeOK, LatestIsNewest, Newest
<1> QED
  BY <1>2, <1>5, <1>7 DEF Inv

LEMMA DeleteInv ==
    ASSUME Inv, NEW k \in Keys, NEW v \in Entity, Delete(k, v)
    PROVE  Inv'
<1> USE MaxHeightAssumption, ValuesAssumption
<1>1. latest' = [latest EXCEPT ![k] = {}]
  BY ClearedLatest DEF Delete, Inv, TypeOK
<1>2. TypeOK'
  <2>1. CASE \E h \in Rows(k) : h < height
    <3>1. version' = [version EXCEPT ![k][height] = v]
      BY <2>1 DEF Delete
    <3>2. version' \in [Keys -> [Heights -> Entity \cup {NoRow}]]
      BY <3>1 DEF Inv, TypeOK
    <3> QED
      BY <1>1, <3>2 DEF Inv, TypeOK, Delete
  <2>2. CASE ~ \E h \in Rows(k) : h < height
    <3>1. [h \in Heights |-> NoRow] \in [Heights -> Entity \cup {NoRow}]
      OBVIOUS
    <3> QED
      BY <1>1, <2>2, <3>1 DEF Inv, TypeOK, Delete
  <2> QED
    BY <2>1, <2>2
<1>3. \A j \in Keys \ {k} : Rows(j)' = Rows(j) /\ latest'[j] = latest[j] /\ version'[j] = version[j]
  BY <1>1 DEF Inv, TypeOK, Delete, Rows
<1>4. CASE \E h \in Rows(k) : h < height
  <2>1. version' = [version EXCEPT ![k][height] = v]
    BY <1>4 DEF Delete
  <2>2. Rows(k)' = Rows(k) \cup {height}
    BY <2>1 DEF Inv, TypeOK, Rows, Entity
  <2>3. NoFutureRow'
    BY <2>2, <1>3 DEF Inv, TypeOK, NoFutureRow, Delete, Heights
  <2>4. LatestIsNewest'
    BY <1>1, <1>3 DEF Inv, TypeOK, LatestIsNewest, Newest
  <2> QED
    BY <1>2, <2>3, <2>4 DEF Inv
<1>5. CASE ~ \E h \in Rows(k) : h < height
  <2>1. version' = [version EXCEPT ![k] = [h \in Heights |-> NoRow]]
    BY <1>5 DEF Delete
  <2>2. Rows(k)' = {}
    BY <2>1 DEF Inv, TypeOK, Rows
  <2>3. NoFutureRow'
    BY <2>2, <1>3 DEF Inv, NoFutureRow, Delete
  <2>4. LatestIsNewest'
    BY <1>1, <1>3 DEF Inv, TypeOK, LatestIsNewest, Newest
  <2> QED
    BY <1>2, <2>3, <2>4 DEF Inv
<1> QED
  BY <1>4, <1>5

LEMMA RollbackInv ==
    ASSUME Inv, NEW h \in Heights, Rollback(h)
    PROVE  Inv'
<1> USE MaxHeightAssumption, ValuesAssumption
<1>1. TypeOK'
  <2>1. \A k \in Keys : Newest({g \in Rows(k) : g <= h}) \subseteq Heights
    BY DEF Newest, Rows
  <2> QED
    BY <2>1 DEF Inv, TypeOK, Rollback
<1>2. \A k \in Keys : Rows(k)' = {g \in Rows(k) : g <= h}
  BY DEF Inv, TypeOK, Rollback, Rows, Heights
<1>3. NoFutureRow'
  BY <1>2 DEF NoFutureRow, Rollback
<1>4. ASSUME NEW k \in Keys
      PROVE  latest'[k] \subseteq Newest(Rows(k)')
  <2>1. CASE \E g \in Rows(k) : g > h
    <3>1. \A g \in latest[k] : ~ (g <= h)
      BY <2>1 DEF Inv, LatestIsNewest, Newest, Rows, Heights
    <3>2. latest'[k] = Newest({g \in Rows(k) : g <= h})
      BY <2>1, <3>1 DEF Rollback
    <3> QED
      BY <3>2, <1>2
  <2>2. CASE \A g \in Rows(k) : g <= h
    <3>1. Rows(k)' = Rows(k)
      BY <1>2, <2>2
    <3>2. latest'[k] \subseteq latest[k]
      BY <2>2 DEF Rollback, Rows, Heights
    <3> QED
      BY <2>2, <3>1, <3>2 DEF Inv, LatestIsNewest
  <2> QED
    BY <2>1, <2>2 DEF Rows, Heights
<1>5. LatestIsNewest'
  BY <1>4 DEF LatestIsNewest, Newest
<1> QED
  BY <1>1, <1>3, <1>5 DEF Inv

LEMMA TrimInv ==
    ASSUME Inv, NEW h \in Heights, NEW thinned \in SUBSET Keys,
           NEW purged \in SUBSET Keys, Trim(h, thinned, purged)
    PROVE  Inv'
<1> USE MaxHeightAssumption, ValuesAssumption
<1>1. TypeOK'
  BY DEF Inv, TypeOK, Trim, Superfluous
<1>2. \A k \in Keys : Rows(k)' = Rows(k)
                        \ ((IF k \in thinned THEN Superfluous(k, h) ELSE {})
                           \cup (IF k \in purged THEN Expired(k, h) ELSE {}))
  BY DEF Inv, TypeOK, Trim, Rows
<1>3. NoFutureRow'
  BY <1>2 DEF Inv, NoFutureRow, Trim
<1>4. \A k \in Keys : latest'[k] = latest[k]
  BY DEF Inv, TypeOK, LatestIsNewest, Newest, Superfluous, Trim, Rows, Heights
<1>5. ASSUME NEW k \in Keys PROVE latest'[k] \subseteq Newest(Rows(k)')
  <2>1. latest[k] \cap Superfluous(k, h) = {}
    BY DEF Inv, LatestIsNewest, Newest, Superfluous, Rows, Heights
  <2>2. latest[k] \cap Expired(k, h) = {}
    BY DEF Expired
  <2> QED
    BY <1>2, <1>4, <2>1, <2>2 DEF Inv, LatestIsNewest, Newest
<1>6. LatestIsNewest'
  BY <1>5 DEF LatestIsNewest, Newest
<1> QED
  BY <1>1, <1>3, <1>6 DEF Inv

LEMMA TruncateInv ==
    ASSUME Inv, Truncate
    PROVE  Inv'
<1> USE MaxHeightAssumption DEF Truncate
<1>1. TypeOK'
  BY DEF TypeOK, Heights
<1>2. \A k \in Keys : Rows(k)' = {} /\ latest'[k] = {}
  BY DEF Rows
<1>3. NoFutureRow' /\ LatestIsNewest'
  BY <1>2 DEF NoFutureRow, LatestIsNewest
<1> QED
  BY <1>1, <1>3 DEF Inv

LEMMA StepInv == Inv /\ [Next]_vars => Inv'
<1> SUFFICES ASSUME Inv, [Next]_vars PROVE Inv'
  OBVIOUS
<1>1. CASE NextBlock
  BY <1>1, NextBlockInv
<1>2. CASE \E k \in Keys, v \in Values : Insert(k, v)
  BY <1>2, InsertInv
<1>3. CASE \E k \in Keys, v \in Entity : Delete(k, v)
  BY <1>3, DeleteInv
<1>4. CASE \E h \in Heights : Rollback(h)
  BY <1>4, RollbackInv
<1>5. CASE \E h \in Heights, thinned, purged \in SUBSET Keys : Trim(h, thinned, purged)
  BY <1>5, TrimInv
<1>6. CASE Truncate
  BY <1>6, TruncateInv
<1>7. CASE UNCHANGED vars
  BY <1>7 DEF vars, Inv, TypeOK, NoFutureRow, LatestIsNewest, Rows, Newest
<1> QED
  BY <1>1, <1>2, <1>3, <1>4, <1>5, <1>6, <1>7 DEF Next

LEMMA Invariance == Spec => []Inv
<1>1. Init => Inv
  BY InitInv
<1>2. Inv /\ [Next]_vars => Inv'
  BY StepInv
<1> QED
  BY <1>1, <1>2, PTL DEF Spec

\* The variables keep their types in every behaviour of every table.
THEOREM TypeCorrect == Spec => []TypeOK
<1>1. Inv => TypeOK
  BY DEF Inv
<1> QED
  BY <1>1, Invariance, PTL

\* Insert, delete, rollback and trim leave at most one row of a key flagged
\* latest, and that row is the key's newest: get(dbKey) is well defined.
THEOREM LatestRowIsNewest == Spec => []LatestIsNewest
<1>1. Inv => LatestIsNewest
  BY DEF Inv
<1> QED
  BY <1>1, Invariance, PTL

\* After any rollback no row of a popped block is left in the table.
THEOREM NoRowAboveTheChain == Spec => []NoFutureRow
<1>1. Inv => NoFutureRow
  BY DEF Inv
<1> QED
  BY <1>1, Invariance, PTL

-----------------------------------------------------------------------------
(* Reading. *)

\* The row a read of key k as of height h returns, if there is one.
Found(k, h) ==
    {g \in Rows(k) :
        /\ g <= h
        /\ \A f \in Rows(k) : f <= h => f <= g
        /\ g \in latest[k] \/ \E f \in Rows(k) : f > h}

\* Both queries of get select exactly the row in Found.
LEMMA Selected ==
    ASSUME Inv, NEW k \in Keys, NEW h \in Known
    PROVE  Newest(IF h = height THEN latest[k] ELSE Visible(k, h)) = Found(k, h)
<1>1. h \in Int /\ h <= height /\ Rows(k) \subseteq Int
  BY DEF Known, Heights, Rows, Inv, TypeOK
<1>2. latest[k] \subseteq Newest(Rows(k))
  BY DEF Inv, LatestIsNewest
<1>3. \A g \in Rows(k) : g <= height
  BY DEF Inv, NoFutureRow
<1>4. (IF h = height THEN latest[k] ELSE Visible(k, h)) = Visible(k, h)
  <2>1. CASE h = height
    <3>1. Visible(k, height) = latest[k]
      <4>1. \A g \in Rows(k) : ~ (g > height)
        BY <1>1, <1>3, <2>1
      <4>2. latest[k] \subseteq Rows(k)
        BY <1>2 DEF Newest
      <4> QED
        BY <4>1, <4>2, <1>3 DEF Visible
    <3> QED
      BY <2>1, <3>1
  <2>2. CASE h # height
    BY <2>2
  <2> QED
    BY <2>1, <2>2
<1>5. Newest(Visible(k, h)) = Found(k, h)
  <2>1. CASE \E f \in Rows(k) : f > h
    <3>1. Visible(k, h) = {g \in Rows(k) : g <= h}
      BY <2>1 DEF Visible
    <3> QED
      BY <2>1, <3>1 DEF Newest, Found
  <2>2. CASE ~ \E f \in Rows(k) : f > h
    <3>1. \A f \in Rows(k) : f <= h
      BY <2>2, <1>1
    <3>2. Visible(k, h) = {g \in Rows(k) : g \in latest[k]}
      BY <2>2, <3>1 DEF Visible
    <3>3. \A g \in latest[k] : \A f \in Rows(k) : f <= g
      BY <1>2 DEF Newest
    <3> QED
      BY <2>2, <3>1, <3>2, <3>3 DEF Newest, Found
  <2> QED
    BY <2>1, <2>2
<1> QED
  BY <1>4, <1>5

LEMMA Reading ==
    Inv => \A k \in Keys, h \in Known :
              /\ Found(k, h) = {} => Get(k, h) = None
              /\ \A g \in Found(k, h) : Get(k, h) = version[k][g]
<1> SUFFICES ASSUME Inv, NEW k \in Keys, NEW h \in Known
             PROVE  /\ Found(k, h) = {} => Get(k, h) = None
                    /\ \A g \in Found(k, h) : Get(k, h) = version[k][g]
  OBVIOUS
<1>1. Get(k, h) = IF Found(k, h) = {} THEN None
                  ELSE version[k][Limit1(Found(k, h))]
  <2>1. Newest(IF h = height THEN latest[k] ELSE Visible(k, h)) = Found(k, h)
    BY Selected
  <2> QED
    BY <2>1 DEF Get
<1>2. \A f, g \in Found(k, h) : f = g
  BY DEF Found, Rows, Heights
<1>3. \A g \in Found(k, h) : Limit1(Found(k, h)) = g
  BY <1>2 DEF Limit1
<1> QED
  BY <1>1, <1>3

LEMMA AnswersTyped ==
    ASSUME Inv, NEW k \in Keys, NEW h \in Known
    PROVE  Get(k, h) \in Entity
<1>1. \A g \in Found(k, h) : version[k][g] \in Entity
  BY DEF Found, Rows, Inv, TypeOK
<1> QED
  BY <1>1, Reading DEF Entity

\* A key whose entity can be read has a flagged row.
LEMMA ReadNow ==
    ASSUME Inv, NEW k \in Keys, Get(k, height) # None
    PROVE  Rows(k) # {} /\ ~Buried(k)
<1>1. Newest(latest[k]) # {}
  BY DEF Get
<1> QED
  BY <1>1 DEF Buried, Newest, Inv, LatestIsNewest

LEMMA ReadingNext ==
    Inv' => \A k \in Keys, h \in Known' :
               /\ Found(k, h)' = {} => Get(k, h)' = None
               /\ \A g \in Found(k, h)' : Get(k, h)' = version'[k][g]
<1>1. (Inv => \A k \in Keys, h \in Known :
                 /\ Found(k, h) = {} => Get(k, h) = None
                 /\ \A g \in Found(k, h) : Get(k, h) = version[k][g])'
  BY Reading, PTL
<1> QED
  BY <1>1

\* Two states in which the same row is found, with the same entity, read alike.
LEMMA SameRead ==
    ASSUME Inv, Inv', NEW k \in Keys, NEW g \in Known', NEW h \in Known,
           Found(k, g)' = Found(k, h),
           \A f \in Found(k, h) : version'[k][f] = version[k][f]
    PROVE  Get(k, g)' = Get(k, h)
<1>1. CASE Found(k, h) = {}
  BY <1>1, Reading, ReadingNext
<1>2. CASE Found(k, h) # {}
  <2>1. PICK f \in Found(k, h) : TRUE
    BY <1>2
  <2>2. f \in Found(k, g)'
    BY <2>1
  <2> QED
    BY <2>1, <2>2, Reading, ReadingNext
<1> QED
  BY <1>1, <1>2

\* A write adds a row at the current height at most, a rollback adds none.
LEMMA RowsAfter ==
    ASSUME Inv
    PROVE  /\ \A j, k \in Keys, v \in Entity :
                 Insert(k, v) \/ Delete(k, v)
                 => Rows(j)' \subseteq Rows(j) \cup (IF j = k THEN {height} ELSE {})
           /\ \A k \in Keys, h \in Heights :
                 Rollback(h) => Rows(k)' = {g \in Rows(k) : g <= h}
<1>1. ASSUME NEW j \in Keys, NEW k \in Keys, NEW v \in Entity, Insert(k, v) \/ Delete(k, v)
      PROVE  Rows(j)' \subseteq Rows(j) \cup (IF j = k THEN {height} ELSE {})
  <2>1. CASE version' = [version EXCEPT ![k][height] = v]
    BY <2>1 DEF Inv, TypeOK, Rows
  <2>2. CASE version' = [version EXCEPT ![k] = [h \in Heights |-> NoRow]]
    BY <2>2 DEF Inv, TypeOK, Rows
  <2> QED
    BY <1>1, <2>1, <2>2 DEF Insert, Delete
<1>2. ASSUME NEW k \in Keys, NEW h \in Heights, Rollback(h)
      PROVE  Rows(k)' = {g \in Rows(k) : g <= h}
  BY <1>2 DEF Inv, TypeOK, Rollback, Rows, Heights
<1> QED
  BY <1>1, <1>2

LEMMA NextBlockReads ==
    ASSUME Inv, Inv', NextBlock, NEW k \in Keys, NEW h \in Known'
    PROVE  Get(k, h)' = Get(k, IF h = height' THEN height ELSE h)
<1>1. height \in Int /\ height' = height + 1
  BY DEF Inv, TypeOK, Heights, NextBlock
<1>2. \A f \in Rows(k) : f \in Int /\ f <= height
  BY DEF Inv, NoFutureRow, Rows, Heights
<1>3. Rows(k)' = Rows(k) /\ latest' = latest /\ version' = version
  BY DEF NextBlock, Rows
<1>4. CASE h = height'
  <2>1. Found(k, h)' = Found(k, height)
    BY <1>1, <1>2, <1>3, <1>4 DEF Found
  <2> QED
    BY <1>3, <1>4, <2>1, SameRead DEF Known
<1>5. CASE h # height'
  <2>1. h \in Known
    BY <1>1, <1>5 DEF Known, NextBlock, Heights
  <2>2. Found(k, h)' = Found(k, h)
    BY <1>3 DEF Found
  <2> QED
    BY <1>3, <1>5, <2>1, <2>2, SameRead
<1> QED
  BY <1>4, <1>5

LEMMA OtherReads ==
    ASSUME Inv, Inv', NEW k \in Keys, NEW h \in Known, height' = height,
           trimmed' = trimmed, version'[k] = version[k], latest'[k] = latest[k]
    PROVE  Get(k, h)' = Get(k, h)
<1>1. Rows(k)' = Rows(k)
  BY DEF Rows
<1>2. Found(k, h)' = Found(k, h)
  BY <1>1 DEF Found
<1>3. h \in Known'
  BY DEF Known
<1> QED
  BY <1>2, <1>3, SameRead

\* A row added at the current height hides what a disciplined key had there
\* before and leaves all older reads alone.
LEMMA PastReads ==
    ASSUME Inv, Inv', NEW k \in Keys, ~Buried(k),
           NEW v \in Entity, version' = [version EXCEPT ![k][height] = v],
           height' = height, trimmed' = trimmed, latest'[k] \subseteq {height},
           NEW h \in Known, h # height
    PROVE  Get(k, h)' = Get(k, h)
<1>1. h \in Int /\ height \in Heights /\ h < height /\ h \in Known'
  BY DEF Known, Heights, Inv, TypeOK
<1>2. Rows(k)' = Rows(k) \cup {height}
  BY ValuesAssumption DEF Inv, TypeOK, Rows, Entity
<1>3. \A f \in Rows(k) : f \in Int /\ f <= height
  BY DEF Inv, NoFutureRow, Rows, Heights
<1>4. height \in Rows(k)' /\ height > h
  BY <1>1, <1>2 DEF Heights
<1>5. Found(k, h)' = {g \in Rows(k) : g <= h /\ \A f \in Rows(k) : f <= h => f <= g}
  <2>1. \A f \in Int : f <= h => f # height /\ (f \in Rows(k)' <=> f \in Rows(k))
    BY <1>1, <1>2 DEF Heights
  <2>2. Found(k, h)' = {g \in Rows(k)' : g <= h /\ \A f \in Rows(k)' : f <= h => f <= g}
    BY <1>4 DEF Found
  <2>3. Rows(k)' \subseteq Int /\ Rows(k) \subseteq Int
    BY DEF Rows, Heights
  <2> QED
    BY <2>1, <2>2, <2>3
<1>6. \A f \in Found(k, h)' : version'[k][f] = version[k][f]
  <2>1. \A f \in Found(k, h)' : f # height /\ f \in Heights
    BY <1>1, <1>5 DEF Heights, Rows
  <2>2. \A f \in Heights \ {height} : version'[k][f] = version[k][f]
    BY DEF Inv, TypeOK
  <2> QED
    BY <2>1, <2>2
<1>7. CASE Found(k, h) # {}
  <2>1. Found(k, h)' = Found(k, h)
    BY <1>3, <1>5, <1>7 DEF Found
  <2> QED
    BY <1>1, <1>6, <2>1, SameRead
<1>8. CASE Found(k, h) = {}
  <2>1. CASE Found(k, h)' = {}
    BY <1>1, <1>8, <2>1, SameRead
  <2>2. CASE Found(k, h)' # {}
    <3>1. PICK g \in Found(k, h)' : TRUE
      BY <2>2
    <3>2. g \in Rows(k) /\ g <= h /\ \A f \in Rows(k) : f <= h => f <= g
      BY <1>5, <3>1
    <3>3. g \notin latest[k] /\ \A f \in Rows(k) : ~ (f > h)
      BY <1>8, <3>2 DEF Found
    <3>4. g \in Newest(Rows(k))
      BY <1>1, <1>3, <3>2, <3>3 DEF Newest
    <3>5. latest[k] = {}
      BY <1>3, <3>3, <3>4 DEF Inv, LatestIsNewest, Newest
    <3>6. version[k][g] = None
      BY <3>4, <3>5 DEF Buried
    <3>7. Get(k, h)' = version'[k][g]
      BY <1>1, <3>1, ReadingNext
    <3>8. Get(k, h) = None
      BY <1>8, Reading
    <3> QED
      BY <1>6, <3>1, <3>6, <3>7, <3>8
  <2> QED
    BY <2>1, <2>2
<1> QED
  BY <1>7, <1>8

LEMMA InsertReads ==
    ASSUME Inv, Inv', NEW j \in Keys, ~Buried(j), NEW v \in Values, Insert(j, v),
           NEW k \in Keys, NEW h \in Known
    PROVE  Get(k, h)' = IF k = j /\ h = height THEN v ELSE Get(k, h)
<1>1. /\ version' = [version EXCEPT ![j][height] = v]
      /\ latest' = [latest EXCEPT ![j] = {height}]
      /\ height' = height /\ trimmed' = trimmed /\ height \in Heights
  BY ClearedLatest DEF Insert, Inv, TypeOK
<1>2. CASE k # j
  <2>1. version'[k] = version[k] /\ latest'[k] = latest[k]
    BY <1>1, <1>2 DEF Inv, TypeOK
  <2> QED
    BY <1>1, <1>2, <2>1, OtherReads
<1>3. CASE k = j /\ h # height
  <2>1. latest'[k] \subseteq {height}
    BY <1>1, <1>3 DEF Inv, TypeOK
  <2>2. ~Buried(k) /\ v \in Entity
    BY <1>3 DEF Entity
  <2> QED
    BY <1>1, <1>3, <2>1, <2>2, PastReads
<1>4. CASE k = j /\ h = height
  <2>1. version'[k][height] = v /\ height \in latest'[k]
    BY <1>1, <1>4 DEF Inv, TypeOK
  <2>2. height \in Rows(k)'
    BY <1>1, <2>1, ValuesAssumption DEF Rows
  <2>3. \A f \in Rows(k)' : f <= height
    BY <1>1 DEF Inv, NoFutureRow
  <2>4. h \in Found(k, h)'
    BY <1>1, <1>4, <2>1, <2>2, <2>3 DEF Found, Heights
  <2>5. h \in Known'
    BY <1>1, <1>4 DEF Known
  <2> QED
    BY <1>4, <2>1, <2>4, <2>5, ReadingNext
<1> QED
  BY <1>2, <1>3, <1>4

LEMMA DeleteReads ==
    ASSUME Inv, Inv', NEW j \in Keys, ~Buried(j), NEW v \in Entity, Delete(j, v),
           NEW k \in Keys, NEW h \in Known
    PROVE  Get(k, h)' = IF k = j /\ h = height THEN None ELSE Get(k, h)
<1>1. /\ latest' = [latest EXCEPT ![j] = {}]
      /\ height' = height /\ trimmed' = trimmed /\ height \in Heights
  BY ClearedLatest DEF Delete, Inv, TypeOK
<1>2. h \in Known' /\ h <= height
  BY <1>1 DEF Known, Heights
<1>3. CASE k # j
  <2>1. latest'[k] = latest[k]
    BY <1>1, <1>3 DEF Inv, TypeOK
  <2>2. version'[k] = version[k]
    BY <1>3 DEF Delete, Inv, TypeOK
  <2> QED
    BY <1>1, <1>3, <2>1, <2>2, OtherReads
<1>4. CASE k = j /\ h = height
  <2>1. latest'[k] = {}
    BY <1>1, <1>4 DEF Inv, TypeOK
  <2>2. \A f \in Rows(k)' : ~ (f > height)
    BY <1>1 DEF Inv, NoFutureRow, Rows, Heights
  <2>3. Found(k, h)' = {}
    BY <1>1, <1>4, <2>1, <2>2 DEF Found
  <2> QED
    BY <1>2, <1>4, <2>3, ReadingNext
<1>5. CASE k = j /\ h # height /\ \E f \in Rows(k) : f < height
  <2>1. version' = [version EXCEPT ![k][height] = v]
    BY <1>5 DEF Delete
  <2>2. latest'[k] \subseteq {height}
    BY <1>1, <1>5 DEF Inv, TypeOK
  <2> QED
    BY <1>1, <1>5, <2>1, <2>2, PastReads
<1>6. CASE k = j /\ h # height /\ ~ \E f \in Rows(k) : f < height
  <2>1. h < height
    BY <1>1, <1>2, <1>6 DEF Known, Heights
  <2>2. Found(k, h) = {}
    <3>1. \A f \in Rows(k) : ~ (f <= h)
      BY <1>1, <1>2, <1>6, <2>1 DEF Known, Rows, Heights
    <3> QED
      BY <3>1 DEF Found
  <2>3. version' = [version EXCEPT ![k] = [f \in Heights |-> NoRow]]
    BY <1>6 DEF Delete
  <2>4. Rows(k)' = {}
    BY <2>3 DEF Inv, TypeOK, Rows
  <2>5. Found(k, h)' = {}
    BY <2>4 DEF Found
  <2> QED
    BY <1>2, <1>6, <2>2, <2>5, Reading, ReadingNext
<1> QED
  BY <1>3, <1>4, <1>5, <1>6

LEMMA RollbackReads ==
    ASSUME Inv, Inv', NEW t \in Heights, Rollback(t),
           NEW k \in Keys, NEW h \in Known'
    PROVE  h \in Known /\ Get(k, h)' = Get(k, h)
<1>1. /\ height' = t /\ t <= height /\ trimmed' = trimmed
      /\ h \in Int /\ h <= t /\ t \in Int /\ height \in Int
  BY DEF Rollback, Known, Heights, Inv, TypeOK
<1>2. h \in Known
  BY <1>1 DEF Known, Rollback, Heights
<1>3. Rows(k) \subseteq Int /\ Rows(k)' = {g \in Rows(k) : g <= t}
  BY DEF Inv, TypeOK, Rollback, Rows, Heights
<1>4. \A g \in Rows(k) : g <= t => version'[k][g] = version[k][g]
  BY DEF Rollback, Rows, Heights
<1>5. latest[k] \subseteq Newest(Rows(k))
  BY DEF Inv, LatestIsNewest
<1>6. Found(k, h)' = Found(k, h)
  <2>1. CASE \A g \in Rows(k) : g <= t
    <3>1. Rows(k)' = Rows(k)
      BY <1>3, <2>1
    <3>2. latest'[k] = latest[k]
      <4>1. ~ \E g \in Rows(k) : g > t
        BY <1>1, <1>3, <2>1
      <4>2. \A g \in latest[k] : g <= t
        BY <1>5, <2>1 DEF Newest
      <4> QED
        BY <4>1, <4>2 DEF Rollback
    <3> QED
      BY <3>1, <3>2 DEF Found
  <2>2. CASE \E g \in Rows(k) : ~ (g <= t)
    <3>1. PICK top \in Rows(k) : top > t
      BY <1>1, <1>3, <2>2
    <3>2. latest'[k] = Newest(Rows(k)')
      <4>1. \A g \in latest[k] : ~ (g <= t)
        BY <1>1, <1>3, <1>5, <3>1 DEF Newest
      <4> QED
        BY <1>3, <3>1, <4>1 DEF Rollback
    <3>3. Found(k, h) = {g \in Rows(k) : g <= h /\ \A f \in Rows(k) : f <= h => f <= g}
      <4>1. top > h
        BY <1>1, <1>3, <3>1
      <4> QED
        BY <3>1, <4>1 DEF Found
    <3>4. \A g \in Rows(k)' : g <= h /\ (\A f \in Rows(k)' : f <= h => f <= g)
                               => g \in latest'[k] \/ \E f \in Rows(k)' : f > h
      BY <1>1, <1>3, <3>2 DEF Newest
    <3>5. Found(k, h)' = {g \in Rows(k)' : g <= h /\ \A f \in Rows(k)' : f <= h => f <= g}
      BY <3>4 DEF Found
    <3>6. \A g \in Rows(k) : g <= h => g \in Rows(k)'
      BY <1>1, <1>3
    <3> QED
      BY <1>3, <3>3, <3>5, <3>6
  <2> QED
    BY <2>1, <2>2
<1>7. \A f \in Found(k, h) : version'[k][f] = version[k][f]
  BY <1>1, <1>3, <1>4 DEF Found
<1> QED
  BY <1>2, <1>6, <1>7, SameRead

LEMMA TrimReads ==
    ASSUME Inv, Inv', NEW t \in Heights, NEW thinned \in SUBSET Keys,
           NEW purged \in SUBSET Keys, Trim(t, thinned, purged),
           NEW k \in Keys, NEW h \in Known'
    PROVE  h \in Known /\ Get(k, h)' = Get(k, h)
<1>1. /\ h \in Known /\ height' = height
      /\ h \in Int /\ t \in Int /\ h <= height
      /\ height \in Int /\ (h < height => t <= h + 1)
  BY DEF Trim, Known, Heights, Inv, TypeOK
<1>2. /\ \A g \in Rows(k) : g \in Int /\ g <= height
      /\ latest[k] \subseteq Newest(Rows(k))
  BY DEF Inv, NoFutureRow, LatestIsNewest, Rows, Heights
<1> DEFINE Gone == (IF k \in thinned THEN Superfluous(k, t) ELSE {})
                   \cup (IF k \in purged THEN Expired(k, t) ELSE {})
<1>3. Rows(k)' = Rows(k) \ Gone
  BY ValuesAssumption DEF Inv, TypeOK, Trim, Rows
<1>4. latest'[k] = latest[k]
  BY DEF Inv, TypeOK, LatestIsNewest, Newest, Superfluous, Trim, Rows, Heights
<1>5. \A g \in Rows(k) \ Gone : version'[k][g] = version[k][g]
  BY DEF Trim, Rows
<1>6. ASSUME NEW g \in Rows(k), g \notin Gone, NEW f \in Rows(k), f <= h, f \in Gone
      PROVE  f <= g
  <2> SUFFICES ASSUME g < f PROVE FALSE
    BY <1>2
  <2>1. CASE f \in Superfluous(k, t) /\ k \in thinned
    <3>1. g \in Superfluous(k, t)
      BY <1>1, <1>2, <2>1 DEF Superfluous
    <3> QED
      BY <1>6, <2>1, <3>1
  <2>2. CASE f \in Expired(k, t) /\ k \in purged
    <3>1. g \notin latest[k]
      BY <1>2 DEF Newest
    <3>2. g \in Expired(k, t)
      BY <1>1, <1>2, <2>2, <3>1 DEF Expired
    <3> QED
      BY <1>6, <2>2, <3>2
  <2> QED
    BY <1>6, <2>1, <2>2
<1>7. ASSUME NEW f \in Rows(k), f > h PROVE f \notin Gone
  <2>1. h < height /\ t <= f
    BY <1>1, <1>2, <1>7
  <2>2. f \notin Superfluous(k, t)
    BY <1>1, <1>2, <2>1 DEF Superfluous
  <2>3. f \notin Expired(k, t)
    BY <1>1, <1>2, <2>1 DEF Expired
  <2> QED
    BY <2>2, <2>3
<1>8. ASSUME NEW g \in Found(k, h) PROVE g \notin Gone
  <2>1. /\ g \in Rows(k) /\ g <= h
        /\ \A f \in Rows(k) : f <= h => f <= g
        /\ g \in latest[k] \/ \E f \in Rows(k) : f > h
    BY DEF Found
  <2>2. g \notin Superfluous(k, t)
    BY <1>1, <1>2, <2>1 DEF Superfluous
  <2>3. g \notin Expired(k, t)
    BY <1>1, <1>2, <2>1 DEF Expired
  <2> QED
    BY <2>2, <2>3
<1>9. Found(k, h)' = Found(k, h)
  <2>1. ASSUME NEW g \in Found(k, h) PROVE g \in Found(k, h)'
    BY <1>3, <1>4, <1>7, <1>8, <2>1 DEF Found
  <2>2. ASSUME NEW g \in Found(k, h)' PROVE g \in Found(k, h)
    BY <1>3, <1>4, <1>6, <2>2 DEF Found
  <2> QED
    BY <2>1, <2>2
<1>10. \A f \in Found(k, h) : version'[k][f] = version[k][f]
  BY <1>5, <1>8 DEF Found
<1> QED
  BY <1>1, <1>9, <1>10, SameRead

LEMMA EmptyReads ==
    ASSUME Inv, NEW k \in Keys, version[k] = [h \in Heights |-> NoRow],
           NEW h \in Known
    PROVE  Get(k, h) = None
<1>1. Rows(k) = {}
  BY DEF Rows
<1>2. Found(k, h) = {}
  BY <1>1 DEF Found
<1> QED
  BY <1>2, Reading

LEMMA EmptyReadsNext ==
    ASSUME Inv', NEW k \in Keys, version'[k] = [h \in Heights |-> NoRow],
           NEW h \in Known'
    PROVE  Get(k, h)' = None
<1>1. Rows(k)' = {}
  BY DEF Rows
<1>2. Found(k, h)' = {}
  BY <1>1 DEF Found
<1> QED
  BY <1>2, ReadingNext

-----------------------------------------------------------------------------
(* Refinement.  Of a table with keys of both kinds, what is read of the keys *)
(* that follow the contract is shown to implement the snapshot store.        *)

KeptKeys == Keys \ Reused

\* The snapshots of the keys that follow the contract.
Kept == INSTANCE SnapshotStore
    WITH Keys <- KeptKeys, floor <- trimmed,
         snap <- [h \in Known |-> [k \in KeptKeys |-> Get(k, h)]]

LEMMA KnownIsKnown ==
    /\ Known = Kept!Known(height, trimmed)
    /\ Known' = Kept!Known(height', trimmed')
BY DEF Known, Kept!Known, Heights, Kept!Heights

LEMMA RefineInit == Init => Kept!Init
<1> SUFFICES ASSUME Init PROVE Kept!Init
  OBVIOUS
<1>1. Known = Kept!Known(0, 0)
  BY KnownIsKnown DEF Init
<1>2. \A k \in Keys, h \in Known : Get(k, h) = None
  BY InitInv, EmptyReads DEF Init
<1> QED
  BY <1>1, <1>2 DEF Init, Kept!Init, KeptKeys

LEMMA RefineStep ==
    ASSUME Inv, Inv', [Next]_vars
    PROVE  [Kept!Next]_Kept!vars
<1> DEFINE Snap == [h \in Known |-> [k \in KeptKeys |-> Get(k, h)]]
<1> USE DEF KeptKeys
<1>1. ASSUME NextBlock PROVE Kept!NextBlock
  <2>1. \A k \in KeptKeys, h \in Known' : Get(k, h)' = Get(k, IF h = height' THEN height ELSE h)
    BY <1>1, NextBlockReads
  <2>2. \A h \in Known' : h # height' => h \in Known
    BY <1>1 DEF Known, NextBlock, Inv, TypeOK, Heights
  <2>3. height \in Known
    BY DEF Known
  <2>4. Snap' = [h \in Known' |-> IF h = height' THEN Snap[height] ELSE Snap[h]]
    BY <2>1, <2>2, <2>3
  <2> QED
    BY <1>1, <2>4, KnownIsKnown DEF NextBlock, Kept!NextBlock
<1>2. ASSUME NEW j \in KeptKeys, NEW v \in Values, Insert(j, v)
      PROVE  Kept!Write(j, v)
  <2>1. \A k \in KeptKeys, h \in Known : Get(k, h)' = IF k = j /\ h = height THEN v ELSE Get(k, h)
    BY <1>2, InsertReads DEF Insert
  <2>2. Known' = Known
    BY <1>2 DEF Insert, Known
  <2>3. Snap' = [h \in Known |-> IF h = height THEN [Snap[h] EXCEPT ![j] = v] ELSE Snap[h]]
    BY <2>1, <2>2
  <2> QED
    BY <1>2, <2>3, KnownIsKnown DEF Insert, Kept!Write
<1>3. ASSUME NEW j \in KeptKeys, NEW v \in Entity, Delete(j, v)
      PROVE  Kept!Write(j, None)
  <2>1. \A k \in KeptKeys, h \in Known : Get(k, h)' = IF k = j /\ h = height THEN None ELSE Get(k, h)
    BY <1>3, DeleteReads DEF Delete
  <2>2. Known' = Known
    BY <1>3 DEF Delete, Known
  <2>3. Snap' = [h \in Known |-> IF h = height THEN [Snap[h] EXCEPT ![j] = None] ELSE Snap[h]]
    BY <2>1, <2>2
  <2> QED
    BY <1>3, <2>3, KnownIsKnown DEF Delete, Kept!Write
<1>4. ASSUME NEW t \in Heights, Rollback(t)
      PROVE  t \in Kept!Known(height, trimmed) /\ Kept!Rollback(t)
  <2>1. \A k \in KeptKeys, h \in Known' : h \in Known /\ Get(k, h)' = Get(k, h)
    BY <1>4, RollbackReads
  <2>2. t \in Known /\ Known' \subseteq Known
    BY <1>4 DEF Rollback, Known, Inv, TypeOK, Heights
  <2>3. Snap' = [h \in Known' |-> Snap[h]]
    BY <2>1, <2>2
  <2> QED
    BY <1>4, <2>2, <2>3, KnownIsKnown DEF Rollback, Kept!Rollback
<1>5. ASSUME NEW t \in Heights, NEW thinned \in SUBSET Keys,
             NEW purged \in SUBSET Keys, Trim(t, thinned, purged)
      PROVE  Kept!Trim(t)
  <2>1. \A k \in KeptKeys, h \in Known' : h \in Known /\ Get(k, h)' = Get(k, h)
    BY <1>5, TrimReads
  <2>2. Known' \subseteq Known
    BY <1>5 DEF Trim, Known, Inv, TypeOK, Heights
  <2>3. Snap' = [h \in Known' |-> Snap[h]]
    BY <2>1, <2>2
  <2> QED
    BY <1>5, <2>3, KnownIsKnown DEF Trim, Kept!Trim
<1>6. ASSUME Truncate PROVE Kept!Reset
  <2>1. \A k \in KeptKeys, h \in Known' : Get(k, h)' = None
    BY <1>6, EmptyReadsNext DEF Truncate
  <2>2. Snap' = [h \in Known' |-> [k \in KeptKeys |-> None]]
    BY <2>1
  <2> QED
    BY <1>6, <2>2, KnownIsKnown DEF Truncate, Kept!Reset
\* What happens to other keys does not show.
<1>7. ASSUME UNCHANGED <<height, trimmed>>,
             \A k \in KeptKeys : version'[k] = version[k] /\ latest'[k] = latest[k]
      PROVE  UNCHANGED Kept!vars
  <2>1. Known' = Known
    BY <1>7 DEF Known
  <2>2. \A k \in KeptKeys, h \in Known : Get(k, h)' = Get(k, h)
    BY <1>7, OtherReads
  <2>3. Snap' = Snap
    BY <2>1, <2>2
  <2> QED
    BY <1>7, <2>3 DEF Kept!vars
<1>10. ASSUME NEW j \in Reused, NEW v \in Entity, Insert(j, v) \/ Delete(j, v)
       PROVE  UNCHANGED Kept!vars
  <2>1. \A k \in KeptKeys : version'[k] = version[k] /\ latest'[k] = latest[k]
    BY <1>10 DEF Insert, Delete, Inv, TypeOK
  <2> QED
    BY <1>7, <1>10, <2>1 DEF Insert, Delete
<1>11. UNCHANGED vars => UNCHANGED Kept!vars
  BY <1>7 DEF vars
<1>8. Entity = Kept!Entity /\ Heights = Kept!Heights
  BY DEF Entity, Heights, Kept!Entity, Kept!Heights
<1>9. Values \subseteq Entity /\ None \in Entity
  BY DEF Entity
<1>12. ASSUME NEW j \in Keys, NEW v \in Entity, (v \in Values /\ Insert(j, v)) \/ Delete(j, v)
       PROVE  [Kept!Next]_Kept!vars
  <2>1. CASE j \in Reused
    BY <1>10, <1>12, <2>1
  <2>2. CASE j \in KeptKeys
    BY <1>2, <1>3, <1>8, <1>9, <1>12, <2>2 DEF Kept!Next
  <2> QED
    BY <2>1, <2>2
<1> QED
  BY <1>1, <1>4, <1>5, <1>6, <1>8, <1>9, <1>11, <1>12 DEF Next, Kept!Next

\* Of every table, the keys that follow the contract on deleted keys implement
\* the snapshot store, whatever happens to the other ones: a tombstone that is
\* overwritten shows at its own key only.
THEOREM KeptRefinement == Spec => Kept!Spec
<1>1. Init => Kept!Init
  BY RefineInit
<1>2. Inv /\ Inv' /\ [Next]_vars => [Kept!Next]_Kept!vars
  BY RefineStep
<1> QED
  BY <1>1, <1>2, Invariance, PTL DEF Spec, Kept!Spec

\* A table whose keys all follow the contract on deleted keys implements the
\* snapshot store: rolling back restores every entity of the block rolled
\* back to, and no trim, finished or interrupted, changes what can be read.
THEOREM Refinement == Disciplined => (Spec => ImplementsSnapshots)
<1> SUFFICES ASSUME Disciplined PROVE Kept!Spec => ImplementsSnapshots
  BY KeptRefinement
<1>1. KeptKeys = Keys
  BY DEF KeptKeys, Disciplined
\* Both instances speak of the same snapshots, now and in the next state.
<1>2. /\ Kept!Entity = Snapshots!Entity
      /\ Kept!Heights = Snapshots!Heights
      /\ \A h, f : Kept!Known(h, f) = Snapshots!Known(h, f)
  BY DEF Kept!Entity, Snapshots!Entity, Kept!Heights, Snapshots!Heights, Kept!Known, Snapshots!Known
<1>3. Kept!Init => Snapshots!Init
  BY <1>1, <1>2 DEF Kept!Init, Snapshots!Init
<1>4. ASSUME [Kept!Next]_Kept!vars PROVE [Snapshots!Next]_Snapshots!vars
  <2>1. Kept!NextBlock => Snapshots!NextBlock
    BY <1>1, <1>2 DEF Kept!NextBlock, Snapshots!NextBlock
  <2>2. ASSUME NEW k, NEW v, Kept!Write(k, v) PROVE Snapshots!Write(k, v)
    <3> DEFINE Read(S) == [h \in Known |-> [j \in S |-> Get(j, h)]]
               Written(S) == [h \in Snapshots!Known(height, trimmed) |->
                                IF h = height THEN [S[h] EXCEPT ![k] = v] ELSE S[h]]
    <3>1. Read(KeptKeys)' = Written(Read(KeptKeys)) /\ UNCHANGED <<height, trimmed>>
      BY <1>2, <2>2 DEF Kept!Write
    <3>2. Read(KeptKeys) = Read(Keys) /\ Read(KeptKeys)' = Read(Keys)'
      BY <1>1
    <3>3. ASSUME NEW S, NEW T, S = T PROVE Written(S) = Written(T)
      BY <3>3
    <3>4. Written(Read(KeptKeys)) = Written(Read(Keys))
      <4> HIDE DEF Read, Written
      <4> QED
        BY <3>2, <3>3
    <3>5. Read(Keys)' = Written(Read(Keys))
      BY <3>1, <3>2, <3>4
    <3> QED
      BY <3>1, <3>5 DEF Snapshots!Write
  <2>3. ASSUME NEW h, Kept!Rollback(h) PROVE Snapshots!Rollback(h)
    BY <1>1, <1>2, <2>3 DEF Kept!Rollback, Snapshots!Rollback
  <2>4. ASSUME NEW h, Kept!Trim(h) PROVE Snapshots!Trim(h)
    BY <1>1, <1>2, <2>4 DEF Kept!Trim, Snapshots!Trim
  <2>5. Kept!Reset => Snapshots!Reset
    BY <1>1, <1>2 DEF Kept!Reset, Snapshots!Reset
  <2>6. UNCHANGED Kept!vars => UNCHANGED Snapshots!vars
    BY <1>1 DEF Kept!vars, Snapshots!vars
  <2> QED
    BY <1>1, <1>2, <1>4, <2>1, <2>2, <2>3, <2>4, <2>5, <2>6 DEF Kept!Next, Snapshots!Next
<1> QED
  BY <1>3, <1>4, PTL DEF Kept!Spec, ImplementsSnapshots, Snapshots!Spec
=============================================================================
