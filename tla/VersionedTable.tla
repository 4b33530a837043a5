--------------------------- MODULE VersionedTable ---------------------------
(***************************************************************************)
(* The storage engine behind every piece of blockchain state: a derived    *)
(* table that keeps one row per key and height (wcg/db/EntityDbTable,      *)
(* VersionedEntityDbTable, DerivedDbTable).                                *)
(*                                                                         *)
(* A row is a version of an entity.  At most one row of a key carries      *)
(* latest = TRUE; a newest row without it is a tombstone, kept so that a   *)
(* rollback past the deletion can bring the entity back.  Rows below the   *)
(* last trim height are thinned to the one that is still needed.           *)
(*                                                                         *)
(* The module is the table and its caller's contract: rollback is asked    *)
(* only for heights the table was not trimmed past, and a key comes back   *)
(* after a deletion only if its tombstone has all fields zero.  Most       *)
(* tables never see a deleted key again (orders, polls, ...), others       *)
(* delete an entity when its fields have become zero (account_asset, ...); *)
(* the keys of Reused follow neither rule.                                 *)
(***************************************************************************)
EXTENDS Integers

CONSTANTS
    Keys,       \* Database keys of the table.
    Values,     \* Entities that can be saved.
    None,       \* An entity whose fields are all zero; read like a missing row.
    NoRow,      \* There is no row at this key and height.
    MaxHeight,  \* Bound on the block height.
    Reused      \* Keys that may come back whatever their tombstone holds.

ASSUME MaxHeightAssumption == MaxHeight \in Nat
ASSUME ValuesAssumption == NoRow \notin Values \cup {None}

VARIABLES
    height,     \* blockchain.getHeight()
    version,    \* version[k][h]: the entity in the row of key k and height h
    latest,     \* latest[k]: heights of the rows of k with latest = TRUE
    trimmed     \* Highest height passed to trim since the last truncate.

vars == <<height, version, latest, trimmed>>

Heights == 0..MaxHeight
Entity == Values \cup {None}

TypeOK ==
    /\ height \in Heights
    /\ version \in [Keys -> [Heights -> Entity \cup {NoRow}]]
    /\ latest \in [Keys -> SUBSET Heights]
    /\ trimmed \in Heights

-----------------------------------------------------------------------------
(* Queries *)

Rows(k) == {h \in Heights : version[k][h] # NoRow}

\* ORDER BY height DESC LIMIT 1
Newest(S) == {h \in S : \A g \in S : g <= h}

\* LIMIT 1 of a query that matched the rows in S
Limit1(S) == CHOOSE h \in S : TRUE

\* UPDATE ... SET latest = FALSE WHERE key AND latest = TRUE LIMIT 1
ClearLatest(S) == IF S = {} THEN S ELSE S \ {Limit1(S)}

\* The rows the historical query selects from.
Visible(k, h) ==
    {g \in Rows(k) : g <= h /\ (g \in latest[k] \/ \E f \in Rows(k) : f > h)}

\* get(dbKey) at the current height, get(dbKey, height) below it.
Get(k, h) ==
    LET row == Newest(IF h = height THEN latest[k] ELSE Visible(k, h))
    IN  IF row = {} THEN None ELSE version[k][Limit1(row)]

\* The heights a caller may still read or roll back to.  A trim up to h keeps
\* what is needed to go back to h - 1 (a scan from h rolls back to h - 1).
Known == {height} \cup {h \in Heights : trimmed <= h + 1 /\ h <= height}

\* The key was deleted, and its tombstone still holds an entity.
Buried(k) == latest[k] = {} /\ \E h \in Newest(Rows(k)) : version[k][h] # None

-----------------------------------------------------------------------------
(* Operations *)

Init ==
    /\ height = 0
    /\ version = [k \in Keys |-> [h \in Heights |-> NoRow]]
    /\ latest = [k \in Keys |-> {}]
    /\ trimmed = 0

\* A block is pushed: later rows are saved with the new height.
NextBlock ==
    /\ height < MaxHeight
    /\ height' = height + 1
    /\ UNCHANGED <<version, latest, trimmed>>

\* MUTANT: the previous version keeps the flag.
InsertUnflagged(k, v) ==
    /\ Buried(k) => k \in Reused
    /\ version' = [version EXCEPT ![k][height] = v]
    /\ latest' = [latest EXCEPT ![k] = @ \cup {height}]
    /\ UNCHANGED <<height, trimmed>>

\* The previous version loses the flag, the row of this height is merged.
Insert(k, v) ==
    /\ Buried(k) => k \in Reused
    /\ version' = [version EXCEPT ![k][height] = v]
    /\ latest' = [latest EXCEPT ![k] = ClearLatest(@) \cup {height}]
    /\ UNCHANGED <<height, trimmed>>

\* With an older row the entity becomes a tombstone, otherwise it vanishes.
Delete(k, v) ==
    /\ Buried(k) => k \in Reused
    /\ IF \E h \in Rows(k) : h < height
         THEN /\ version' = [version EXCEPT ![k][height] = v]
              /\ latest' = [latest EXCEPT ![k] =
                              ClearLatest(ClearLatest(@) \cup {height})]
         ELSE /\ version' = [version EXCEPT ![k] = [h \in Heights |-> NoRow]]
              /\ latest' = [latest EXCEPT ![k] = {}]
    /\ UNCHANGED <<height, trimmed>>

\* MUTANT: the row of the first block popped off stays.
RollbackKeepingNext(h) ==
    /\ h \in Known
    /\ height' = h
    /\ version' = [k \in Keys |-> [g \in Heights |->
                     IF g > h + 1 THEN NoRow ELSE version[k][g]]]
    /\ latest' = [k \in Keys |->
                    {g \in latest[k] : g <= h} \cup
                    (IF \E g \in Rows(k) : g > h
                       THEN Newest({g \in Rows(k) : g <= h})
                       ELSE {})]
    /\ UNCHANGED trimmed

\* MUTANT: the chain ends below the block rolled back to.
RollbackTooFar(h) ==
    /\ h \in Known
    /\ height' = h - 1
    /\ version' = [k \in Keys |-> [g \in Heights |->
                     IF g > h THEN NoRow ELSE version[k][g]]]
    /\ latest' = [k \in Keys |-> {g \in latest[k] : g <= h}]
    /\ UNCHANGED trimmed

\* Rows above h go; a key that lost one gets its newest row back as latest.
Rollback(h) ==
    /\ h \in Known
    /\ height' = h
    /\ version' = [k \in Keys |-> [g \in Heights |->
                     IF g > h THEN NoRow ELSE version[k][g]]]
    /\ latest' = [k \in Keys |->
                    {g \in latest[k] : g <= h} \cup
                    (IF \E g \in Rows(k) : g > h
                       THEN Newest({g \in Rows(k) : g <= h})
                       ELSE {})]
    /\ UNCHANGED trimmed

\* MUTANT: the row of height h counts as the one to keep.
SuperfluousOffByOne(k, h) == {g \in Rows(k) : \E f \in Rows(k) : g < f /\ f <= h}

\* Of a key's rows below h all but the newest are superfluous.
Superfluous(k, h) == {g \in Rows(k) : \E f \in Rows(k) : g < f /\ f < h}

\* A tombstone below h with no row from h on is of no use any more.
Expired(k, h) ==
    IF \E g \in Rows(k) : g >= h THEN {}
    ELSE {g \in Rows(k) : g < h} \ latest[k]

\* The deletions are committed in batches, keys first, tombstones last: an
\* exception leaves only some keys thinned, or some tombstones purged.
Trim(h, thinned, purged) ==
    /\ purged # {} => thinned = Keys
    /\ trimmed' = IF h > trimmed THEN h ELSE trimmed
    /\ version' = [k \in Keys |-> [g \in Heights |->
                     IF \/ k \in thinned /\ g \in Superfluous(k, h)
                        \/ k \in purged /\ g \in Expired(k, h)
                     THEN NoRow ELSE version[k][g]]]
    /\ latest' = [k \in Keys |-> IF k \in thinned
                                 THEN latest[k] \ Superfluous(k, h) ELSE latest[k]]
    /\ UNCHANGED height

\* A rescan from height 0 starts over with an empty table.
Truncate ==
    /\ height' = 0
    /\ version' = [k \in Keys |-> [h \in Heights |-> NoRow]]
    /\ latest' = [k \in Keys |-> {}]
    /\ trimmed' = 0

Next ==
    \/ NextBlock
    \/ \E k \in Keys, v \in Values : Insert(k, v)
    \/ \E k \in Keys, v \in Entity : Delete(k, v)
    \/ \E h \in Heights : Rollback(h)
    \/ \E h \in Heights, thinned, purged \in SUBSET Keys : Trim(h, thinned, purged)
    \/ Truncate

Spec == Init /\ [][Next]_vars

-----------------------------------------------------------------------------
(* Properties *)

\* Every key of the table follows the contract on deleted keys.
Disciplined == Reused = {}

\* At most one row of a key is latest and it is the key's newest row: the
\* UPDATE ... LIMIT 1 of insert and delete and the SET latest of rollback
\* never leave two rows flagged, or an outdated one.
LatestIsNewest == \A k \in Keys : latest[k] \subseteq Newest(Rows(k))

\* Rows never lie in the future of the chain: rollback removed all of them.
NoFutureRow == \A k \in Keys : \A h \in Rows(k) : h <= height

\* What the table reads as of every known height is what SnapshotStore says:
\* writes touch the current height only, rollback restores the exact entities
\* of the block rolled back to, and no trim, complete or interrupted between
\* two of its commits, changes anything that can still be read.
Snapshots == INSTANCE SnapshotStore
    WITH floor <- trimmed,
         snap <- [h \in Known |-> [k \in Keys |-> Get(k, h)]]

ImplementsSnapshots == Snapshots!Spec
=============================================================================
