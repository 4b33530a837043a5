--------------------------- MODULE SnapshotStore ---------------------------
(***************************************************************************)
(* What a derived table promises to the blockchain processor.              *)
(*                                                                         *)
(* Every block height that can still be read or rolled back to owns a      *)
(* snapshot: the entity each key had when that height was the last block.  *)
(* Writing changes only the snapshot of the current height, rolling back   *)
(* reveals an old snapshot unchanged, trimming forgets whole snapshots and *)
(* never alters the ones it keeps.                                         *)
(***************************************************************************)
EXTENDS Integers

CONSTANTS
    Keys,       \* Database keys of the table.
    Values,     \* Entities that can be stored.
    None,       \* No entity (or one whose fields are all zero).
    MaxHeight   \* Bound on the block height.

VARIABLES
    height,     \* Height of the last block.
    floor,      \* Heights below floor - 1 have been forgotten.
    snap        \* Snapshot of every height that is still known.

vars == <<height, floor, snap>>

Heights == 0..MaxHeight
Entity == Values \cup {None}

\* The current height is always known, even when a trim went past it.
Known(h, f) == {h} \cup {g \in Heights : f <= g + 1 /\ g <= h}

Init ==
    /\ height = 0
    /\ floor = 0
    /\ snap = [h \in Known(0, 0) |-> [k \in Keys |-> None]]

Write(k, v) ==
    /\ snap' = [h \in Known(height, floor) |->
                  IF h = height THEN [snap[h] EXCEPT ![k] = v] ELSE snap[h]]
    /\ UNCHANGED <<height, floor>>

NextBlock ==
    /\ height < MaxHeight
    /\ height' = height + 1
    /\ snap' = [h \in Known(height', floor) |->
                  IF h = height' THEN snap[height] ELSE snap[h]]
    /\ UNCHANGED floor

Rollback(h) ==
    /\ height' = h
    /\ snap' = [g \in Known(h, floor) |-> snap[g]]
    /\ UNCHANGED floor

Trim(h) ==
    /\ floor' = IF h > floor THEN h ELSE floor
    /\ snap' = [g \in Known(height, floor') |-> snap[g]]
    /\ UNCHANGED height

Reset ==
    /\ height' = 0
    /\ floor' = 0
    /\ snap' = [h \in Known(0, 0) |-> [k \in Keys |-> None]]

Next ==
    \/ NextBlock
    \/ \E k \in Keys, v \in Entity : Write(k, v)
    \/ \E h \in Known(height, floor) : Rollback(h)
    \/ \E h \in Heights : Trim(h)
    \/ Reset

Spec == Init /\ [][Next]_vars
=============================================================================
