----------------------------- MODULE LockContract -----------------------------
(***************************************************************************)
(* What the class comment of wcg/util/ReadWriteUpdateLock promises: who    *)
(* may hold the read, update and write lock at the same time.  Obtaining a *)
(* lock is one step here.                                                  *)
(***************************************************************************)
EXTENDS Integers

CONSTANTS Thread, MaxHolds

VARIABLES reads, updates, writes   \* How many times a thread holds each lock.

held == <<reads, updates, writes>>

Others(t) == Thread \ {t}

Init == /\ reads = [t \in Thread |-> 0]
        /\ updates = [t \in Thread |-> 0]
        /\ writes = [t \in Thread |-> 0]

\* Any number of readers, unless another thread writes.
Read(t) ==
    /\ reads[t] < MaxHolds
    /\ \A u \in Others(t) : writes[u] = 0
    /\ reads' = [reads EXCEPT ![t] = @ + 1]
    /\ UNCHANGED <<updates, writes>>

\* One updater, which may not hold the read or write lock.
Update(t) ==
    /\ updates[t] < MaxHolds
    /\ reads[t] = 0 /\ writes[t] = 0
    /\ \A u \in Others(t) : updates[u] = 0 /\ writes[u] = 0
    /\ updates' = [updates EXCEPT ![t] = @ + 1]
    /\ UNCHANGED <<reads, writes>>

\* A writer is alone, and does not come from the read lock.
Write(t) ==
    /\ writes[t] < MaxHolds
    /\ reads[t] = 0
    /\ \A u \in Others(t) : reads[u] = 0 /\ updates[u] = 0 /\ writes[u] = 0
    /\ writes' = [writes EXCEPT ![t] = @ + 1]
    /\ UNCHANGED <<reads, updates>>

Unlock(t) ==
    \/ reads[t] > 0 /\ reads' = [reads EXCEPT ![t] = @ - 1] /\ UNCHANGED <<updates, writes>>
    \/ updates[t] > 0 /\ updates' = [updates EXCEPT ![t] = @ - 1] /\ UNCHANGED <<reads, writes>>
    \/ writes[t] > 0 /\ writes' = [writes EXCEPT ![t] = @ - 1] /\ UNCHANGED <<reads, updates>>

Next == \E t \in Thread : Read(t) \/ Update(t) \/ Write(t) \/ Unlock(t)

Spec == Init /\ [][Next]_held
=============================================================================
