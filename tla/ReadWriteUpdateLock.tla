------------------------- MODULE ReadWriteUpdateLock -------------------------
(***************************************************************************)
(* wcg/util/ReadWriteUpdateLock, the lock of the blockchain: a read/write  *)
(* lock of the JDK (sharedLock) and a mutex (mutexLock).  A writer takes   *)
(* the mutex, then the write lock; an updater takes the mutex only, and    *)
(* lets readers in.                                                        *)
(*                                                                         *)
(* The thread-local LockCount and the hold counts of the two locks change  *)
(* in the same calls and are one variable each.  The two locks are not     *)
(* fair: a thread takes the mutex as soon as it finds it free, and only a  *)
(* reader that finds a writer first in the queue of sharedLock stands back. *)
(***************************************************************************)
EXTENDS Integers, Sequences

CONSTANTS
    Thread,
    MaxHolds      \* Bound on how often a thread takes a lock it already holds.

ASSUME BoundAssumption == MaxHolds \in Nat \ {0}

VARIABLES
    readCount,    \* LockCount.readCount: holds of sharedLock.readLock().
    updateCount,  \* LockCount.updateCount: holds of mutexLock.
    writeCount,   \* LockCount.writeCount: holds of sharedLock.writeLock().
    pc,           \* Where the thread is, see Places.
    queue         \* The threads that wait for sharedLock, first come first.

vars == <<readCount, updateCount, writeCount, pc, queue>>

Places == {"running",    \* In none of the methods below.
           "reading",    \* Waits in sharedLock.readLock().lock().
           "updating",   \* Waits in mutexLock.lock(), for the update lock.
           "writing",    \* Waits in mutexLock.lock(), for the write lock.
           "shared",     \* Has the mutex, about to call sharedLock.writeLock().lock().
           "queued",     \* Waits in sharedLock.writeLock().lock().
           "releasing"}  \* Has unlocked sharedLock, about to unlock the mutex.

Others(t) == Thread \ {t}

TypeOK ==
    /\ readCount \in [Thread -> 0..MaxHolds]
    /\ updateCount \in [Thread -> 0..2 * MaxHolds]
    /\ writeCount \in [Thread -> 0..MaxHolds]
    /\ pc \in [Thread -> Places]
    /\ queue \in Seq(Thread)

-----------------------------------------------------------------------------
(* The two locks of the JDK *)

\* MUTANT: the update lock does not keep writers out.
MutexFreeOfWriters(t) == \A u \in Others(t) : writeCount[u] = 0

MutexFree(t) == \A u \in Others(t) : updateCount[u] = 0

NoOtherWriter(t) == \A u \in Others(t) : writeCount[u] = 0

SharedFree(t) == \A u \in Others(t) : readCount[u] = 0 /\ writeCount[u] = 0

WriterFirst == queue # <<>> /\ pc[Head(queue)] = "queued"

\* MUTANT: readers pass a waiting writer.
MayReadFirst(t) == NoOtherWriter(t)

\* A thread that holds the lock already never stands back.
MayRead(t) ==
    /\ NoOtherWriter(t)
    /\ WriterFirst => readCount[t] > 0 \/ writeCount[t] > 0

-----------------------------------------------------------------------------
Init ==
    /\ readCount = [t \in Thread |-> 0]
    /\ updateCount = [t \in Thread |-> 0]
    /\ writeCount = [t \in Thread |-> 0]
    /\ pc = [t \in Thread |-> "running"]
    /\ queue = <<>>

Goes(t, place) == pc' = [pc EXCEPT ![t] = place]

(* ReadLock *)

LockRead(t) ==
    /\ pc[t] = "running" /\ readCount[t] < MaxHolds
    /\ \/ /\ MayRead(t)
          /\ readCount' = [readCount EXCEPT ![t] = @ + 1]
          /\ UNCHANGED <<pc, queue>>
       \/ /\ ~MayRead(t)
          /\ Goes(t, "reading")
          /\ queue' = Append(queue, t)
          /\ UNCHANGED readCount
    /\ UNCHANGED <<updateCount, writeCount>>

GrantRead(t) ==
    /\ queue # <<>> /\ t = Head(queue) /\ pc[t] = "reading"
    /\ NoOtherWriter(t)
    /\ readCount' = [readCount EXCEPT ![t] = @ + 1]
    /\ queue' = Tail(queue)
    /\ Goes(t, "running")
    /\ UNCHANGED <<updateCount, writeCount>>

UnlockRead(t) ==
    /\ pc[t] = "running" /\ readCount[t] > 0
    /\ readCount' = [readCount EXCEPT ![t] = @ - 1]
    /\ UNCHANGED <<updateCount, writeCount, pc, queue>>

(* UpdateLock: throws when the thread holds the read or write lock *)

\* MUTANT: no exception for a thread that holds the read or write lock.
LockUpdateWithout(t) ==
    /\ pc[t] = "running" /\ updateCount[t] < MaxHolds
    /\ MutexFree(t)
    /\ updateCount' = [updateCount EXCEPT ![t] = @ + 1]
    /\ UNCHANGED <<readCount, writeCount, pc, queue>>

LockUpdate(t) ==
    /\ pc[t] = "running" /\ updateCount[t] < MaxHolds
    /\ readCount[t] = 0 /\ writeCount[t] = 0
    /\ \/ /\ MutexFree(t)
          /\ updateCount' = [updateCount EXCEPT ![t] = @ + 1]
          /\ UNCHANGED pc
       \/ /\ ~MutexFree(t)
          /\ Goes(t, "updating")
          /\ UNCHANGED updateCount
    /\ UNCHANGED <<readCount, writeCount, queue>>

GrantUpdate(t) ==
    /\ pc[t] = "updating" /\ MutexFree(t)
    /\ updateCount' = [updateCount EXCEPT ![t] = @ + 1]
    /\ Goes(t, "running")
    /\ UNCHANGED <<readCount, writeCount, queue>>

\* MUTANT: the lock is released although it is not held.
UnlockUpdateUnheld(t) ==
    /\ pc[t] = "running"
    /\ updateCount' = [updateCount EXCEPT ![t] = @ - 1]
    /\ UNCHANGED <<readCount, writeCount, pc, queue>>

\* Only what LockUpdate took: the writer's holds are released with the write lock.
UnlockUpdate(t) ==
    /\ pc[t] = "running" /\ updateCount[t] > writeCount[t]
    /\ updateCount' = [updateCount EXCEPT ![t] = @ - 1]
    /\ UNCHANGED <<readCount, writeCount, pc, queue>>

(* WriteLock: throws when the thread holds the read lock *)

\* MUTANT: no exception for a thread that holds the read lock.
LockWriteUpgrading(t) ==
    /\ pc[t] = "running" /\ writeCount[t] < MaxHolds
    /\ \/ /\ MutexFree(t)
          /\ updateCount' = [updateCount EXCEPT ![t] = @ + 1]
          /\ Goes(t, "shared")
       \/ /\ ~MutexFree(t)
          /\ Goes(t, "writing")
          /\ UNCHANGED updateCount
    /\ UNCHANGED <<readCount, writeCount, queue>>

LockWrite(t) ==
    /\ pc[t] = "running" /\ writeCount[t] < MaxHolds
    /\ readCount[t] = 0
    /\ \/ /\ MutexFree(t)
          /\ updateCount' = [updateCount EXCEPT ![t] = @ + 1]
          /\ Goes(t, "shared")
       \/ /\ ~MutexFree(t)
          /\ Goes(t, "writing")
          /\ UNCHANGED updateCount
    /\ UNCHANGED <<readCount, writeCount, queue>>

GrantMutex(t) ==
    /\ pc[t] = "writing" /\ MutexFree(t)
    /\ updateCount' = [updateCount EXCEPT ![t] = @ + 1]
    /\ Goes(t, "shared")
    /\ UNCHANGED <<readCount, writeCount, queue>>

LockShared(t) ==
    /\ pc[t] = "shared"
    /\ \/ /\ SharedFree(t)
          /\ writeCount' = [writeCount EXCEPT ![t] = @ + 1]
          /\ Goes(t, "running")
          /\ UNCHANGED queue
       \/ /\ ~SharedFree(t)
          /\ Goes(t, "queued")
          /\ queue' = Append(queue, t)
          /\ UNCHANGED writeCount
    /\ UNCHANGED <<readCount, updateCount>>

GrantShared(t) ==
    /\ queue # <<>> /\ t = Head(queue) /\ pc[t] = "queued"
    /\ SharedFree(t)
    /\ writeCount' = [writeCount EXCEPT ![t] = @ + 1]
    /\ queue' = Tail(queue)
    /\ Goes(t, "running")
    /\ UNCHANGED <<readCount, updateCount>>

UnlockWrite(t) ==
    /\ pc[t] = "running" /\ writeCount[t] > 0
    /\ writeCount' = [writeCount EXCEPT ![t] = @ - 1]
    /\ Goes(t, "releasing")
    /\ UNCHANGED <<readCount, updateCount, queue>>

UnlockMutex(t) ==
    /\ pc[t] = "releasing"
    /\ updateCount' = [updateCount EXCEPT ![t] = @ - 1]
    /\ Goes(t, "running")
    /\ UNCHANGED <<readCount, writeCount, queue>>

-----------------------------------------------------------------------------
Step(t) ==
    \/ LockRead(t) \/ GrantRead(t) \/ UnlockRead(t)
    \/ LockUpdate(t) \/ GrantUpdate(t) \/ UnlockUpdate(t)
    \/ LockWrite(t) \/ GrantMutex(t) \/ LockShared(t) \/ GrantShared(t)
    \/ UnlockWrite(t) \/ UnlockMutex(t)

Next == \E t \in Thread : Step(t)

Spec == Init /\ [][Next]_vars

\* The JDK wakes the first thread of the queue when it can go on, and a thread
\* keeps the read lock for a finite time, however often it takes it again.
Fairness == \A t \in Thread :
    /\ WF_vars(GrantRead(t)) /\ WF_vars(LockShared(t)) /\ WF_vars(GrantShared(t))
    /\ WF_vars(UnlockRead(t)) /\ SF_vars(UnlockRead(t) /\ readCount[t] = 1)

FairSpec == Spec /\ Fairness

-----------------------------------------------------------------------------
(* Properties *)

\* Holds of the mutex on behalf of a write lock, taken or on its way.
ForWriting(t) ==
    writeCount[t] + IF pc[t] \in {"shared", "queued", "releasing"} THEN 1 ELSE 0

\* The contract of the class comment: taking two locks one after the other
\* never lets in a reader, updater or writer that the three locks exclude.
Contract == INSTANCE LockContract
    WITH reads <- readCount,
         updates <- [t \in Thread |-> updateCount[t] - ForWriting(t)],
         writes <- writeCount

ImplementsContract == Contract!Spec

\* A writer is alone: no other thread reads, updates or writes, nor is about to
\* write.  The chain is popped and pushed under this lock and read under the others.
WriterIsAlone ==
    \A t \in Thread : writeCount[t] > 0 =>
        \A u \in Others(t) : readCount[u] = 0 /\ updateCount[u] = 0 /\ writeCount[u] = 0

\* Thread t cannot go on before thread u has done something.
WaitsFor(t, u) ==
    \/ pc[t] \in {"updating", "writing"} /\ u # t /\ updateCount[u] > 0
    \/ pc[t] = "reading" /\ u # t /\ writeCount[u] > 0
    \/ pc[t] = "queued" /\ u # t /\ (readCount[u] > 0 \/ writeCount[u] > 0)
    \/ \E i, j \in DOMAIN queue : i < j /\ queue[i] = u /\ queue[j] = t

\* Nobody waits in a circle.  The mutex is refused to a thread with the read
\* lock, and whoever waits for sharedLock holds it in no mode: that is what the
\* exceptions in UpdateLock.lock and WriteLock.lock are for.
NoCircle ==
    \A S \in (SUBSET Thread) \ {{}} : \E t \in S : \A u \in S : ~WaitsFor(t, u)

\* The holder of the update lock reads without waiting: no writer can be in
\* front of it.  The download reads its own chain under the update lock.
UpdaterNeverQueues ==
    \A t \in Thread : updateCount[t] > 0 => pc[t] # "reading"

\* Readers cannot starve the writer that has the mutex, although they may take
\* the lock again and again.
WriterServed ==
    \A t \in Thread : pc[t] = "queued" ~> pc[t] = "running"

Holders == {u \in Thread : readCount[u] > 0 \/ writeCount[u] > 0}

Ahead(t) == {u \in Thread : \E i, j \in DOMAIN queue : i < j /\ queue[i] = u /\ queue[j] = t}

\* Why they cannot: nobody gets ahead of a writer in the queue, and from the time
\* it is first nobody takes sharedLock who does not hold it already.  sharedLock
\* holds back readers only; a writer that finds it free is held back by the mutex.
WriterNotOvertaken ==
    [][\A t \in Thread : pc[t] = "queued" /\ pc'[t] = "queued" =>
           /\ Ahead(t)' \subseteq Ahead(t)
           /\ queue # <<>> /\ Head(queue) = t => Holders' \subseteq Holders]_vars
=============================================================================
