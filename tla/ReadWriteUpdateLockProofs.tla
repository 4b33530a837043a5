---------------------- MODULE ReadWriteUpdateLockProofs ----------------------
(***************************************************************************)
(* What ReadWriteUpdateLock.tla checks with three threads, proved for any  *)
(* set of threads and any bound: types, mutual exclusion, no circle of     *)
(* waiting threads, and that the code implements the class comment.        *)
(*                                                                         *)
(* The inductive invariant Inv adds what the methods keep between the two  *)
(* locks: a hold of the write lock is backed by a hold of the mutex, and a *)
(* thread that waits holds sharedLock in no mode.                          *)
(***************************************************************************)
EXTENDS ReadWriteUpdateLock, WellFoundedInduction, TLAPS

\* Every hold of the write lock, and every one on its way, has a hold of the
\* mutex; the rest of those holds is what LockUpdate took.
Backed ==
    \A t \in Thread : /\ ForWriting(t) <= updateCount[t]
                      /\ updateCount[t] <= MaxHolds + ForWriting(t)

\* The mutex has one owner.
Exclusive ==
    \A t, u \in Thread : t # u /\ updateCount[t] > 0 => updateCount[u] = 0

\* A thread that writes is the only one in sharedLock.
AloneInShared ==
    \A t, u \in Thread : t # u /\ writeCount[t] > 0 => readCount[u] = 0 /\ writeCount[u] = 0

\* What a thread holds in each place.
HoldsAt(t) ==
    /\ pc[t] \in {"reading", "updating", "writing"} =>
           readCount[t] = 0 /\ writeCount[t] = 0 /\ updateCount[t] = 0
    /\ pc[t] = "shared" => readCount[t] = 0 /\ writeCount[t] < MaxHolds
    /\ pc[t] = "queued" => readCount[t] = 0 /\ writeCount[t] = 0
    /\ pc[t] = "releasing" => writeCount[t] < MaxHolds

\* The queue holds waiting threads, each once.
QueueSound ==
    /\ \A i \in 1..Len(queue) : pc[queue[i]] \in {"reading", "queued"}
    /\ \A i, j \in 1..Len(queue) : queue[i] = queue[j] => i = j

Inv ==
    /\ TypeOK
    /\ Backed
    /\ Exclusive
    /\ AloneInShared
    /\ \A t \in Thread : HoldsAt(t)
    /\ QueueSound

-----------------------------------------------------------------------------
(* The queue *)

\* Appending a thread that was not waiting keeps the queue sound.
LEMMA QueueAppended ==
    ASSUME TypeOK, QueueSound, NEW t \in Thread, NEW place \in {"reading", "queued"},
           pc[t] \notin {"reading", "queued"}, Goes(t, place), queue' = Append(queue, t)
    PROVE  QueueSound' /\ queue' \in Seq(Thread)
<1>1. queue \in Seq(Thread) /\ pc \in [Thread -> Places]
  BY DEF TypeOK
<1>2. queue' \in Seq(Thread) /\ Len(queue') = Len(queue) + 1
  BY <1>1
<1>3. \A i \in 1..Len(queue) : queue'[i] = queue[i] /\ queue[i] \in Thread
  BY <1>1
<1>4. queue'[Len(queue) + 1] = t
  BY <1>1
<1>5. \A i \in 1..Len(queue) : queue[i] # t
  BY DEF QueueSound
<1>6. Len(queue) \in Nat
  BY <1>1
<1>7. \A u \in Thread : pc'[u] = IF u = t THEN place ELSE pc[u]
  BY <1>1 DEF Goes
<1>8. \A i \in 1..Len(queue') : i \in 1..Len(queue) \/ i = Len(queue) + 1
  BY <1>2, <1>6
<1>9. \A i \in 1..Len(queue') : pc'[queue'[i]] \in {"reading", "queued"}
  BY <1>3, <1>4, <1>7, <1>8 DEF QueueSound
<1>10. \A i, j \in 1..Len(queue') : queue'[i] = queue'[j] => i = j
  BY <1>3, <1>4, <1>5, <1>8 DEF QueueSound
<1> QED
  BY <1>2, <1>9, <1>10 DEF QueueSound

\* The first thread leaves the queue and no other place changes.
LEMMA QueueShortened ==
    ASSUME TypeOK, QueueSound, queue # <<>>, NEW t \in Thread, t = Head(queue),
           Goes(t, "running"), queue' = Tail(queue)
    PROVE  QueueSound' /\ queue' \in Seq(Thread)
<1>1. queue \in Seq(Thread) /\ pc \in [Thread -> Places]
  BY DEF TypeOK
<1>2. queue' \in Seq(Thread) /\ Len(queue') = Len(queue) - 1 /\ Len(queue) \in Nat
  BY <1>1
<1>3. \A i \in 1..Len(queue') : /\ queue'[i] = queue[i + 1]
                                /\ i + 1 \in 1..Len(queue) /\ queue[i + 1] \in Thread
  BY <1>1, <1>2
<1>4. t = queue[1] /\ 1 \in 1..Len(queue)
  BY <1>1, <1>2
<1>5. \A i \in 1..Len(queue') : queue'[i] # t
  BY <1>2, <1>3, <1>4 DEF QueueSound
<1>6. \A u \in Thread : u # t => pc'[u] = pc[u]
  BY <1>1 DEF Goes
<1>7. \A i \in 1..Len(queue') : pc'[queue'[i]] \in {"reading", "queued"}
  BY <1>3, <1>5, <1>6 DEF QueueSound
<1>8. \A i, j \in 1..Len(queue') : queue'[i] = queue'[j] => i = j
  <2> SUFFICES ASSUME NEW i \in 1..Len(queue'), NEW j \in 1..Len(queue'), queue'[i] = queue'[j]
               PROVE  i = j
    OBVIOUS
  <2>1. i + 1 = j + 1
    BY <1>3 DEF QueueSound
  <2> QED
    BY <2>1
<1> QED
  BY <1>2, <1>7, <1>8 DEF QueueSound

\* A step of a thread that stays out of the queue.
LEMMA QueueKept ==
    ASSUME TypeOK, QueueSound, NEW t \in Thread, pc[t] \notin {"reading", "queued"},
           NEW place, pc' = pc \/ Goes(t, place), queue' = queue
    PROVE  QueueSound'
<1>1. \A i \in 1..Len(queue) : queue[i] \in Thread /\ queue[i] # t
  BY DEF TypeOK, QueueSound
<1>2. \A u \in Thread : u # t => pc'[u] = pc[u]
  BY DEF TypeOK, Goes
<1> QED
  BY <1>1, <1>2 DEF QueueSound

\* The counts of a thread, and what Backed makes of them.
LEMMA Counts ==
    ASSUME Inv, NEW t \in Thread
    PROVE  /\ readCount[t] \in 0..MaxHolds /\ writeCount[t] \in 0..MaxHolds
           /\ updateCount[t] \in 0..2 * MaxHolds /\ pc[t] \in Places /\ MaxHolds \in Nat \ {0}
           /\ ForWriting(t) \in Nat
           /\ ForWriting(t) = writeCount[t] \/ ForWriting(t) = writeCount[t] + 1
           /\ writeCount[t] <= updateCount[t]
           /\ pc[t] \in {"shared", "queued", "releasing"} => updateCount[t] > writeCount[t]
<1>1. /\ readCount[t] \in 0..MaxHolds /\ writeCount[t] \in 0..MaxHolds
      /\ updateCount[t] \in 0..2 * MaxHolds /\ pc[t] \in Places
  BY DEF Inv, TypeOK
<1>2. MaxHolds \in Nat \ {0}
  BY BoundAssumption
<1>3. ForWriting(t) = IF pc[t] \in {"shared", "queued", "releasing"}
                     THEN writeCount[t] + 1 ELSE writeCount[t]
  BY <1>1, <1>2 DEF ForWriting
<1>4. ForWriting(t) <= updateCount[t]
  BY DEF Inv, Backed
<1> QED
  BY <1>1, <1>2, <1>3, <1>4

\* It is enough to look at the thread that takes the step.
LEMMA BackedKept ==
    ASSUME Inv, NEW t \in Thread,
           \A u \in Thread \ {t} : /\ updateCount'[u] = updateCount[u]
                                   /\ pc'[u] = pc[u] /\ writeCount'[u] = writeCount[u],
           ForWriting(t)' <= updateCount'[t],
           updateCount'[t] <= MaxHolds + ForWriting(t)'
    PROVE  Backed'
<1> SUFFICES ASSUME NEW u \in Thread
             PROVE  /\ ForWriting(u)' <= updateCount'[u]
                    /\ updateCount'[u] <= MaxHolds + ForWriting(u)'
  BY DEF Backed
<1>1. CASE u = t
  BY <1>1
<1>2. CASE u # t
  <2>1. updateCount'[u] = updateCount[u] /\ ForWriting(u)' = ForWriting(u)
    BY <1>2 DEF ForWriting
  <2> QED
    BY <2>1 DEF Inv, Backed
<1> QED
  BY <1>1, <1>2

\* A writer at the head of the queue is another thread, and it has the mutex.
LEMMA WriterFirstHasMutex ==
    ASSUME Inv, WriterFirst, NEW t \in Thread, pc[t] = "running"
    PROVE  \E u \in Others(t) : updateCount[u] > 0
<1>1. queue \in Seq(Thread) /\ queue # <<>> /\ pc[Head(queue)] = "queued"
  BY DEF Inv, TypeOK, WriterFirst
<1>2. Head(queue) \in Thread
  BY <1>1
<1>3. updateCount[Head(queue)] > 0
  BY <1>1, <1>2, Counts
<1> QED
  BY <1>1, <1>2, <1>3 DEF Others

-----------------------------------------------------------------------------
(* The inductive invariant *)

LEMMA Initially == Init => Inv
<1> SUFFICES ASSUME Init PROVE Inv
  OBVIOUS
<1> USE BoundAssumption DEF Init
<1>1. TypeOK
  BY DEF TypeOK, Places
<1>2. Backed /\ Exclusive /\ AloneInShared
  BY DEF Backed, Exclusive, AloneInShared, ForWriting
<1>3. (\A t \in Thread : HoldsAt(t)) /\ QueueSound
  BY DEF HoldsAt, QueueSound
<1> QED
  BY <1>1, <1>2, <1>3 DEF Inv

\* A reader gets in, at once or from the queue, or queues up.
LEMMA ReadKeeps ==
    ASSUME Inv, NEW t \in Thread, LockRead(t) \/ GrantRead(t) \/ UnlockRead(t)
    PROVE  Inv'
<1> USE BoundAssumption
<1>1. TypeOK /\ QueueSound
  BY DEF Inv
<1>2. QueueSound' /\ queue' \in Seq(Thread)
  <2>1. CASE LockRead(t) /\ pc' = pc
    BY <1>1, <2>1, QueueKept DEF LockRead, TypeOK, Goes
  <2>2. CASE LockRead(t) /\ pc' # pc
    BY <1>1, <2>2, QueueAppended DEF LockRead
  <2>3. CASE GrantRead(t)
    BY <1>1, <2>3, QueueShortened DEF GrantRead
  <2>4. CASE UnlockRead(t)
    BY <1>1, <2>4, QueueKept DEF UnlockRead, TypeOK
  <2> QED
    BY <2>1, <2>2, <2>3, <2>4
<1>3. TypeOK'
  <2>1. \/ readCount' = readCount
        \/ readCount' = [readCount EXCEPT ![t] = @ + 1] /\ readCount[t] < MaxHolds
        \/ readCount' = [readCount EXCEPT ![t] = @ - 1] /\ readCount[t] > 0
    BY Counts DEF LockRead, GrantRead, UnlockRead, Inv, HoldsAt
  <2>2. readCount' \in [Thread -> 0..MaxHolds]
    <3>1. readCount[t] < MaxHolds => readCount[t] + 1 \in 0..MaxHolds
      BY Counts
    <3>2. readCount[t] > 0 => readCount[t] - 1 \in 0..MaxHolds
      BY Counts
    <3> QED
      BY <1>1, <2>1, <3>1, <3>2 DEF TypeOK
  <2>3. pc' \in {pc, [pc EXCEPT ![t] = "reading"], [pc EXCEPT ![t] = "running"]}
    BY DEF LockRead, GrantRead, UnlockRead, Goes
  <2>4. pc' \in [Thread -> Places]
    BY <1>1, <2>3 DEF TypeOK, Places
  <2>5. updateCount' = updateCount /\ writeCount' = writeCount
    BY DEF LockRead, GrantRead, UnlockRead
  <2> QED
    BY <1>1, <1>2, <2>2, <2>4, <2>5 DEF TypeOK
<1>4. Backed' /\ Exclusive'
  <2>1. updateCount' = updateCount /\ writeCount' = writeCount
    BY DEF LockRead, GrantRead, UnlockRead
  <2>2. ASSUME NEW u \in Thread
        PROVE  pc'[u] \in {"shared", "queued", "releasing"}
                 <=> pc[u] \in {"shared", "queued", "releasing"}
    <3>1. CASE LockRead(t)
      BY <3>1 DEF Inv, TypeOK, LockRead, Goes
    <3>2. CASE GrantRead(t)
      BY <3>2 DEF Inv, TypeOK, GrantRead, Goes
    <3>3. CASE UnlockRead(t)
      BY <3>3 DEF UnlockRead
    <3> QED
      BY <3>1, <3>2, <3>3
  <2>3. \A u \in Thread : ForWriting(u)' = ForWriting(u)
    BY <2>1, <2>2 DEF ForWriting
  <2> QED
    BY <2>1, <2>3 DEF Inv, Backed, Exclusive
<1>5. AloneInShared'
  BY DEF Inv, TypeOK, AloneInShared, LockRead, GrantRead, UnlockRead, Goes,
         MayRead, NoOtherWriter, Others
<1>6. ASSUME LockRead(t), pc' # pc
      PROVE  readCount[t] = 0 /\ writeCount[t] = 0 /\ updateCount[t] = 0
  <2>1. ~MayRead(t) /\ pc[t] = "running"
    BY <1>6 DEF LockRead
  <2>2. CASE ~NoOtherWriter(t)
    <3>1. PICK u \in Others(t) : writeCount[u] # 0
      BY <2>2 DEF NoOtherWriter
    <3>2. writeCount[u] > 0 /\ updateCount[u] > 0
      BY <3>1, Counts DEF Others
    <3> QED
      BY <3>1, <3>2 DEF Inv, Exclusive, AloneInShared, Others
  <2>3. CASE NoOtherWriter(t)
    <3>1. WriterFirst /\ readCount[t] = 0 /\ writeCount[t] = 0
      BY <2>1, <2>3 DEF MayRead, Inv, TypeOK
    <3>2. PICK u \in Others(t) : updateCount[u] > 0
      BY <2>1, <3>1, WriterFirstHasMutex
    <3> QED
      BY <3>1, <3>2 DEF Inv, Exclusive, Others
  <2> QED
    BY <2>2, <2>3
<1>7. \A u \in Thread : HoldsAt(u)'
  <2>1. CASE LockRead(t)
    BY <1>6, <2>1 DEF Inv, TypeOK, HoldsAt, LockRead, Goes
  <2>2. CASE GrantRead(t)
    BY <2>2 DEF Inv, TypeOK, HoldsAt, GrantRead, Goes
  <2>3. CASE UnlockRead(t)
    BY <2>3 DEF Inv, TypeOK, HoldsAt, UnlockRead, Goes
  <2> QED
    BY <2>1, <2>2, <2>3
<1> QED
  BY <1>2, <1>3, <1>4, <1>5, <1>7 DEF Inv

\* The update lock: the mutex alone.
LEMMA UpdateKeeps ==
    ASSUME Inv, NEW t \in Thread, LockUpdate(t) \/ GrantUpdate(t) \/ UnlockUpdate(t)
    PROVE  Inv'
<1> USE BoundAssumption
<1>1. TypeOK /\ QueueSound /\ queue' = queue
  BY DEF Inv, LockUpdate, GrantUpdate, UnlockUpdate
<1>2. QueueSound' /\ queue' \in Seq(Thread)
  BY <1>1, QueueKept DEF LockUpdate, GrantUpdate, UnlockUpdate, TypeOK
<1>3. updateCount' \in [Thread -> Int] /\ pc' \in [Thread -> Places]
  <2>1. updateCount \in [Thread -> Int] /\ updateCount[t] \in Int
    BY <1>1, Counts DEF TypeOK
  <2>2. updateCount' \in {updateCount, [updateCount EXCEPT ![t] = @ + 1],
                          [updateCount EXCEPT ![t] = @ - 1]}
    BY DEF LockUpdate, GrantUpdate, UnlockUpdate
  <2>3. updateCount[t] + 1 \in Int /\ updateCount[t] - 1 \in Int
    BY <2>1
  <2>4. updateCount' \in [Thread -> Int]
    BY <2>1, <2>2, <2>3
  <2>5. pc' \in {pc, [pc EXCEPT ![t] = "updating"], [pc EXCEPT ![t] = "running"]}
    BY DEF LockUpdate, GrantUpdate, UnlockUpdate, Goes
  <2> QED
    BY <1>1, <2>4, <2>5 DEF TypeOK, Places
<1>4. Backed'
  <2>1. \A u \in Thread : ForWriting(u)' = ForWriting(u)
    BY <1>1 DEF ForWriting, TypeOK, LockUpdate, GrantUpdate, UnlockUpdate, Goes
  <2>2. \A u \in Thread \ {t} : /\ updateCount'[u] = updateCount[u]
                                /\ pc'[u] = pc[u] /\ writeCount'[u] = writeCount[u]
    BY <1>1 DEF TypeOK, LockUpdate, GrantUpdate, UnlockUpdate, Goes
  <2>3. ForWriting(t) <= updateCount[t] /\ updateCount[t] <= MaxHolds + ForWriting(t)
    BY DEF Inv, Backed
  <2>4. CASE updateCount' = updateCount
    BY <2>1, <2>4, Counts DEF Inv, Backed
  <2>5. CASE updateCount' = [updateCount EXCEPT ![t] = @ + 1] /\ updateCount[t] < MaxHolds
    <3>1. updateCount'[t] = updateCount[t] + 1
      BY <1>1, <2>5 DEF TypeOK
    <3>2. ForWriting(t) <= updateCount[t] + 1 /\ updateCount[t] + 1 <= MaxHolds + ForWriting(t)
      BY <2>3, <2>5, Counts
    <3> QED
      BY <2>1, <2>2, <3>1, <3>2, BackedKept
  <2>6. CASE UnlockUpdate(t)
    <3>1. updateCount'[t] = updateCount[t] - 1
      BY <1>1, <2>6 DEF UnlockUpdate, TypeOK
    <3>2. ForWriting(t) = writeCount[t] /\ updateCount[t] > writeCount[t]
      BY <2>6, Counts DEF UnlockUpdate, ForWriting
    <3>3. ForWriting(t) <= updateCount[t] - 1 /\ updateCount[t] - 1 <= MaxHolds + ForWriting(t)
      BY <2>3, <3>2, Counts
    <3> QED
      BY <2>1, <2>2, <3>1, <3>3, BackedKept
  <2>7. updateCount[t] < MaxHolds \/ UnlockUpdate(t)
    BY Counts DEF LockUpdate, GrantUpdate, Inv, HoldsAt
  <2> QED
    BY <2>4, <2>5, <2>6, <2>7 DEF LockUpdate, GrantUpdate
<1>5. \A u \in Thread : HoldsAt(u)'
  <2>1. CASE LockUpdate(t)
    <3>1. ASSUME ~MutexFree(t) PROVE updateCount[t] = 0
      <4>1. PICK u \in Others(t) : updateCount[u] # 0
        BY <3>1 DEF MutexFree
      <4>2. updateCount[u] > 0
        BY <4>1, Counts DEF Others
      <4> QED
        BY <4>1, <4>2 DEF Inv, Exclusive, Others
    <3> QED
      BY <2>1, <3>1 DEF Inv, TypeOK, HoldsAt, LockUpdate, Goes
  <2>2. CASE GrantUpdate(t)
    BY <2>2 DEF Inv, TypeOK, HoldsAt, GrantUpdate, Goes
  <2>3. CASE UnlockUpdate(t)
    BY <2>3 DEF Inv, TypeOK, HoldsAt, UnlockUpdate
  <2> QED
    BY <2>1, <2>2, <2>3
<1>6. readCount' = readCount /\ writeCount' = writeCount
  BY DEF LockUpdate, GrantUpdate, UnlockUpdate
<1>7. TypeOK'
  <2>1. \A u \in Thread : ForWriting(u)' \in 0..MaxHolds
    <3>1. \A u \in Thread : pc'[u] = "running" \/ pc'[u] = pc[u] \/ pc'[u] = "updating"
      BY <1>1 DEF TypeOK, LockUpdate, GrantUpdate, UnlockUpdate, Goes
    <3>2. \A u \in Thread : pc[u] = "queued" => writeCount[u] = 0
      BY DEF Inv, HoldsAt
    <3>3. \A u \in Thread : pc[u] \in {"shared", "releasing"} => writeCount[u] < MaxHolds
      BY DEF Inv, HoldsAt
    <3> QED
      BY <1>6, <3>1, <3>2, <3>3, Counts DEF ForWriting
  <2>2. \A u \in Thread : updateCount'[u] \in 0..2 * MaxHolds
    BY <1>3, <1>4, <2>1 DEF Backed
  <2> QED
    BY <1>1, <1>2, <1>3, <1>6, <2>2 DEF TypeOK
<1>8. Exclusive'
  BY <1>1 DEF Inv, TypeOK, Exclusive, LockUpdate, GrantUpdate, UnlockUpdate, Goes,
              MutexFree, Others
<1>9. AloneInShared'
  BY <1>6 DEF Inv, AloneInShared
<1> QED
  BY <1>2, <1>4, <1>5, <1>7, <1>8, <1>9 DEF Inv

\* The write lock, first half: the mutex.
LEMMA MutexKeeps ==
    ASSUME Inv, NEW t \in Thread, LockWrite(t) \/ GrantMutex(t) \/ UnlockMutex(t)
    PROVE  Inv'
<1> USE BoundAssumption
<1>1. TypeOK /\ QueueSound /\ queue' = queue
  BY DEF Inv, LockWrite, GrantMutex, UnlockMutex
<1>2. QueueSound' /\ queue' \in Seq(Thread)
  BY <1>1, QueueKept DEF LockWrite, GrantMutex, UnlockMutex, TypeOK
<1>3. readCount' = readCount /\ writeCount' = writeCount
  BY DEF LockWrite, GrantMutex, UnlockMutex
<1>4. updateCount' \in [Thread -> Int] /\ pc' \in [Thread -> Places]
  <2>1. updateCount \in [Thread -> Int] /\ updateCount[t] \in Int
    BY <1>1, Counts DEF TypeOK
  <2>2. updateCount' \in {updateCount, [updateCount EXCEPT ![t] = @ + 1],
                          [updateCount EXCEPT ![t] = @ - 1]}
    BY DEF LockWrite, GrantMutex, UnlockMutex
  <2>3. updateCount[t] + 1 \in Int /\ updateCount[t] - 1 \in Int
    BY <2>1
  <2>4. updateCount' \in [Thread -> Int]
    BY <2>1, <2>2, <2>3
  <2>5. pc' \in {[pc EXCEPT ![t] = "shared"], [pc EXCEPT ![t] = "writing"],
                 [pc EXCEPT ![t] = "running"]}
    BY DEF LockWrite, GrantMutex, UnlockMutex, Goes
  <2> QED
    BY <1>1, <2>4, <2>5 DEF TypeOK, Places
<1>5. Backed'
  <2>1. \A u \in Thread \ {t} : /\ updateCount'[u] = updateCount[u]
                                /\ pc'[u] = pc[u] /\ writeCount'[u] = writeCount[u]
    BY <1>1 DEF TypeOK, LockWrite, GrantMutex, UnlockMutex, Goes
  <2>2. ForWriting(t) <= updateCount[t] /\ updateCount[t] <= MaxHolds + ForWriting(t)
    BY DEF Inv, Backed
  <2>3. CASE Goes(t, "writing") /\ updateCount' = updateCount /\ pc[t] = "running"
    <3>1. \A u \in Thread : ForWriting(u)' = ForWriting(u)
      BY <1>1, <1>3, <2>3 DEF ForWriting, TypeOK, Goes
    <3> QED
      BY <2>3, <3>1 DEF Inv, Backed
  <2>4. CASE /\ Goes(t, "shared") /\ pc[t] \in {"running", "writing"}
             /\ updateCount' = [updateCount EXCEPT ![t] = @ + 1]
    <3>1. pc'[t] = "shared" /\ updateCount'[t] = updateCount[t] + 1
      BY <1>1, <2>4 DEF TypeOK, Goes
    <3>2. ForWriting(t)' = ForWriting(t) + 1
      BY <1>3, <2>4, <3>1, Counts DEF ForWriting
    <3>3. ForWriting(t) + 1 <= updateCount[t] + 1 /\ updateCount[t] + 1 <= MaxHolds + ForWriting(t) + 1
      BY <2>2, Counts
    <3>4. ForWriting(t)' <= updateCount'[t] /\ updateCount'[t] <= MaxHolds + ForWriting(t)'
      BY <3>1, <3>2, <3>3, Counts
    <3> QED
      BY <2>1, <3>4, BackedKept
  <2>5. CASE UnlockMutex(t)
    <3>1. updateCount'[t] = updateCount[t] - 1
      BY <1>1, <2>5 DEF UnlockMutex, TypeOK
    <3>2. pc'[t] = "running" /\ pc[t] = "releasing"
      BY <1>1, <2>5 DEF UnlockMutex, TypeOK, Goes
    <3>3. ForWriting(t)' = ForWriting(t) - 1
      BY <1>3, <3>2, Counts DEF ForWriting
    <3>4. ForWriting(t)' <= updateCount'[t] /\ updateCount'[t] <= MaxHolds + ForWriting(t)'
      BY <2>2, <3>1, <3>3, Counts
    <3> QED
      BY <2>1, <3>4, BackedKept
  <2> QED
    BY <2>3, <2>4, <2>5 DEF LockWrite, GrantMutex
<1>6. \A u \in Thread : HoldsAt(u)'
  <2>1. CASE LockWrite(t)
    <3>1. ASSUME ~MutexFree(t) PROVE updateCount[t] = 0 /\ writeCount[t] = 0
      <4>1. PICK u \in Others(t) : updateCount[u] # 0
        BY <3>1 DEF MutexFree
      <4>2. updateCount[u] > 0
        BY <4>1, Counts DEF Others
      <4>3. updateCount[t] = 0
        BY <4>1, <4>2 DEF Inv, Exclusive, Others
      <4> QED
        BY <4>3, Counts
    <3> QED
      BY <2>1, <3>1 DEF Inv, TypeOK, HoldsAt, LockWrite, Goes
  <2>2. CASE GrantMutex(t)
    BY <2>2 DEF Inv, TypeOK, HoldsAt, GrantMutex, Goes
  <2>3. CASE UnlockMutex(t)
    BY <2>3 DEF Inv, TypeOK, HoldsAt, UnlockMutex, Goes
  <2> QED
    BY <2>1, <2>2, <2>3
<1>7. TypeOK'
  <2>1. ASSUME NEW u \in Thread PROVE ForWriting(u)' \in 0..MaxHolds
    <3>1. HoldsAt(u)' /\ writeCount[u] \in 0..MaxHolds /\ writeCount' = writeCount
      BY <1>3, <1>6, Counts
    <3> QED
      BY <3>1, BoundAssumption DEF HoldsAt, ForWriting
  <2>2. \A u \in Thread : updateCount'[u] \in 0..2 * MaxHolds
    BY <1>4, <1>5, <2>1 DEF Backed
  <2> QED
    BY <1>1, <1>2, <1>3, <1>4, <2>2 DEF TypeOK
<1>8. Exclusive'
  <2>1. CASE updateCount' = updateCount
    BY <2>1 DEF Inv, Exclusive
  <2>2. CASE MutexFree(t) /\ updateCount' = [updateCount EXCEPT ![t] = @ + 1]
    <3>1. \A u \in Thread : u # t => updateCount[u] = 0 /\ updateCount'[u] = 0
      BY <1>1, <2>2 DEF TypeOK, MutexFree, Others
    <3> QED
      BY <3>1 DEF Exclusive
  <2>3. CASE UnlockMutex(t)
    <3>1. updateCount[t] > 0
      BY <2>3, Counts DEF UnlockMutex
    <3>2. \A u \in Thread : u # t => updateCount'[u] = 0
      BY <1>1, <2>3, <3>1 DEF Inv, TypeOK, Exclusive, UnlockMutex
    <3> QED
      BY <3>2 DEF Exclusive
  <2> QED
    BY <2>1, <2>2, <2>3 DEF LockWrite, GrantMutex
<1>9. AloneInShared'
  BY <1>3 DEF Inv, AloneInShared
<1> QED
  BY <1>2, <1>5, <1>6, <1>7, <1>8, <1>9 DEF Inv

\* A hold on its way becomes a hold, and the other way round.
LEMMA SharedCounts ==
    ASSUME Inv, NEW t \in Thread, LockShared(t) \/ GrantShared(t) \/ UnlockWrite(t)
    PROVE  \A u \in Thread : ForWriting(u)' = ForWriting(u)
<1> SUFFICES ASSUME NEW u \in Thread PROVE ForWriting(u)' = ForWriting(u)
  OBVIOUS
<1>1. pc \in [Thread -> Places] /\ writeCount \in [Thread -> 0..MaxHolds]
  BY DEF Inv, TypeOK
<1>2. CASE u # t
  BY <1>1, <1>2 DEF ForWriting, LockShared, GrantShared, UnlockWrite, Goes
<1>3. CASE u = t
  <2>1. CASE LockShared(t) /\ writeCount' = writeCount
    <3>1. pc'[t] = "queued" /\ pc[t] = "shared"
      BY <1>1, <2>1, Counts DEF LockShared, Goes
    <3> QED
      BY <1>3, <2>1, <3>1 DEF ForWriting
  <2>2. CASE (LockShared(t) /\ writeCount' # writeCount) \/ GrantShared(t)
    <3>1. pc'[t] = "running" /\ pc[t] \in {"shared", "queued"} /\ writeCount'[t] = writeCount[t] + 1
      BY <1>1, <2>2 DEF LockShared, GrantShared, Goes
    <3> QED
      BY <1>3, <3>1, Counts DEF ForWriting
  <2>3. CASE UnlockWrite(t)
    <3>1. pc'[t] = "releasing" /\ pc[t] = "running" /\ writeCount'[t] = writeCount[t] - 1
      BY <1>1, <2>3 DEF UnlockWrite, Goes
    <3> QED
      BY <1>3, <3>1, Counts DEF ForWriting
  <2> QED
    BY <2>1, <2>2, <2>3
<1> QED
  BY <1>2, <1>3

\* The write lock, second half: sharedLock.
LEMMA SharedKeeps ==
    ASSUME Inv, NEW t \in Thread, LockShared(t) \/ GrantShared(t) \/ UnlockWrite(t)
    PROVE  Inv'
<1> USE BoundAssumption
<1>1. TypeOK /\ QueueSound
  BY DEF Inv
<1>2. QueueSound' /\ queue' \in Seq(Thread)
  <2>1. CASE LockShared(t) /\ queue' = queue
    BY <1>1, <2>1, QueueKept DEF LockShared, TypeOK
  <2>2. CASE LockShared(t) /\ queue' # queue
    BY <1>1, <2>2, QueueAppended DEF LockShared
  <2>3. CASE GrantShared(t)
    BY <1>1, <2>3, QueueShortened DEF GrantShared
  <2>4. CASE UnlockWrite(t)
    BY <1>1, <2>4, QueueKept DEF UnlockWrite, TypeOK
  <2> QED
    BY <2>1, <2>2, <2>3, <2>4
<1>3. TypeOK'
  <2>1. \/ writeCount' = writeCount
        \/ writeCount' = [writeCount EXCEPT ![t] = @ + 1] /\ writeCount[t] < MaxHolds
        \/ writeCount' = [writeCount EXCEPT ![t] = @ - 1] /\ writeCount[t] > 0
    BY Counts DEF LockShared, GrantShared, UnlockWrite, Inv, HoldsAt
  <2>2. writeCount' \in [Thread -> 0..MaxHolds]
    <3>1. writeCount[t] < MaxHolds => writeCount[t] + 1 \in 0..MaxHolds
      BY Counts
    <3>2. writeCount[t] > 0 => writeCount[t] - 1 \in 0..MaxHolds
      BY Counts
    <3> QED
      BY <1>1, <2>1, <3>1, <3>2 DEF TypeOK
  <2>3. pc' \in {[pc EXCEPT ![t] = "queued"], [pc EXCEPT ![t] = "running"],
                 [pc EXCEPT ![t] = "releasing"]}
    BY DEF LockShared, GrantShared, UnlockWrite, Goes
  <2>4. pc' \in [Thread -> Places]
    BY <1>1, <2>3 DEF TypeOK, Places
  <2>5. updateCount' = updateCount /\ readCount' = readCount
    BY DEF LockShared, GrantShared, UnlockWrite
  <2> QED
    BY <1>1, <1>2, <2>2, <2>4, <2>5 DEF TypeOK
<1>4. Backed'
  <2>1. updateCount' = updateCount
    BY DEF LockShared, GrantShared, UnlockWrite
  <2>2. \A u \in Thread : ForWriting(u)' = ForWriting(u)
    BY SharedCounts
  <2> QED
    BY <2>1, <2>2 DEF Inv, Backed
<1>5. Exclusive'
  BY DEF Inv, Exclusive, LockShared, GrantShared, UnlockWrite
<1>6. AloneInShared'
  <2>1. CASE LockShared(t)
    <3>1. readCount' = readCount /\ \A u \in Thread : u # t => writeCount'[u] = writeCount[u]
      BY <1>1, <2>1 DEF TypeOK, LockShared
    <3>2. SharedFree(t) \/ writeCount' = writeCount
      BY <2>1 DEF LockShared
    <3>3. readCount[t] = 0
      BY <2>1 DEF Inv, HoldsAt, LockShared
    <3> QED
      BY <3>1, <3>2, <3>3, Counts DEF Inv, AloneInShared, SharedFree, Others
  <2>2. CASE GrantShared(t)
    <3>1. readCount' = readCount /\ \A u \in Thread : u # t => writeCount'[u] = writeCount[u]
      BY <1>1, <2>2 DEF TypeOK, GrantShared
    <3>2. SharedFree(t)
      BY <2>2 DEF GrantShared
    <3> QED
      BY <3>1, <3>2, Counts DEF AloneInShared, SharedFree, Others
  <2>3. CASE UnlockWrite(t)
    BY <2>3 DEF Inv, TypeOK, AloneInShared, UnlockWrite
  <2> QED
    BY <2>1, <2>2, <2>3
<1>7. \A u \in Thread : HoldsAt(u)'
  <2>1. CASE LockShared(t)
    <3>1. ASSUME ~SharedFree(t) PROVE writeCount[t] = 0
      BY <3>1 DEF Inv, TypeOK, AloneInShared, SharedFree, Others
    <3> QED
      BY <2>1, <3>1 DEF Inv, TypeOK, HoldsAt, LockShared, Goes
  <2>2. CASE GrantShared(t)
    BY <2>2 DEF Inv, TypeOK, HoldsAt, GrantShared, Goes
  <2>3. CASE UnlockWrite(t)
    BY <2>3 DEF Inv, TypeOK, HoldsAt, UnlockWrite, Goes
  <2> QED
    BY <2>1, <2>2, <2>3
<1> QED
  BY <1>2, <1>3, <1>4, <1>5, <1>6, <1>7 DEF Inv

LEMMA Inductive == Inv /\ [Next]_vars => Inv'
<1> SUFFICES ASSUME Inv, [Next]_vars PROVE Inv'
  OBVIOUS
<1>1. CASE UNCHANGED vars
  BY <1>1 DEF vars, Inv, TypeOK, Backed, ForWriting, Exclusive, AloneInShared,
              HoldsAt, QueueSound
<1>2. CASE Next
  <2>1. PICK t \in Thread : Step(t)
    BY <1>2 DEF Next
  <2> QED
    BY <2>1, ReadKeeps, UpdateKeeps, MutexKeeps, SharedKeeps DEF Step
<1> QED
  BY <1>1, <1>2

THEOREM Invariance == Spec => []Inv
  BY Initially, Inductive, PTL DEF Spec

-----------------------------------------------------------------------------
(* The properties *)

\* Every count and place keeps its type.
THEOREM TypeCorrect == Spec => []TypeOK
<1>1. Inv => TypeOK
  BY DEF Inv
<1> QED
  BY <1>1, Invariance, PTL

\* A thread that writes is alone in the three locks.
THEOREM Exclusion == Spec => []WriterIsAlone
<1>1. ASSUME Inv PROVE WriterIsAlone
  <2> SUFFICES ASSUME NEW t \in Thread, writeCount[t] > 0, NEW u \in Others(t)
               PROVE  readCount[u] = 0 /\ updateCount[u] = 0 /\ writeCount[u] = 0
    BY DEF WriterIsAlone
  <2>1. u \in Thread /\ u # t
    BY DEF Others
  <2>2. updateCount[t] > 0
    BY <1>1, Counts
  <2> QED
    BY <1>1, <2>1, <2>2 DEF Inv, Exclusive, AloneInShared
<1> QED
  BY <1>1, Invariance, PTL

\* The holder of the update lock reads without waiting.
THEOREM UpdaterReads == Spec => []UpdaterNeverQueues
<1>1. ASSUME Inv PROVE UpdaterNeverQueues
  <2> SUFFICES ASSUME NEW t \in Thread, updateCount[t] > 0, pc[t] = "reading" PROVE FALSE
    BY DEF UpdaterNeverQueues
  <2> QED
    BY <1>1 DEF Inv, HoldsAt
<1> QED
  BY <1>1, Invariance, PTL

\* The queue grows at its end and shrinks at its head.
LEMMA QueueMoves ==
    ASSUME NEW u \in Thread, Step(u)
    PROVE  \/ queue' = queue
           \/ queue' = Append(queue, u) /\ pc[u] \in {"running", "shared"}
           \/ queue # <<>> /\ queue' = Tail(queue)
BY DEF Step, LockRead, GrantRead, UnlockRead, LockUpdate, GrantUpdate, UnlockUpdate,
       LockWrite, GrantMutex, LockShared, GrantShared, UnlockWrite, UnlockMutex

LEMMA NobodyGetsAhead ==
    ASSUME Inv, NEW t \in Thread, pc[t] = "queued", NEW u \in Thread, Step(u)
    PROVE  Ahead(t)' \subseteq Ahead(t)
<1> SUFFICES ASSUME NEW v \in Thread, NEW i \in DOMAIN queue', NEW j \in DOMAIN queue',
                    i < j, queue'[i] = v, queue'[j] = t
             PROVE  \E k, l \in DOMAIN queue : k < l /\ queue[k] = v /\ queue[l] = t
  BY DEF Ahead
<1>1. queue \in Seq(Thread) /\ Len(queue) \in Nat /\ DOMAIN queue = 1..Len(queue)
  BY DEF Inv, TypeOK
<1>2. CASE queue' = Append(queue, u) /\ pc[u] \in {"running", "shared"}
  <2>1. DOMAIN queue' = 1..Len(queue) + 1 /\ queue'[Len(queue) + 1] = u
    BY <1>1, <1>2
  <2>2. \A k \in 1..Len(queue) : queue'[k] = queue[k]
    BY <1>1, <1>2
  <2>3. j # Len(queue) + 1
    BY <1>2, <2>1
  <2> QED
    BY <1>1, <2>1, <2>2, <2>3
<1>3. CASE queue # <<>> /\ queue' = Tail(queue)
  <2>1. DOMAIN queue' = 1..Len(queue) - 1 /\ \A k \in 1..Len(queue) - 1 : queue'[k] = queue[k + 1]
    BY <1>1, <1>3
  <2>2. i + 1 \in DOMAIN queue /\ j + 1 \in DOMAIN queue /\ i + 1 < j + 1
    BY <1>1, <2>1
  <2> QED
    BY <2>1, <2>2
<1> QED
  BY <1>1, <1>2, <1>3, QueueMoves

LEMMA NobodyGetsIn ==
    ASSUME Inv, NEW t \in Thread, pc[t] = "queued", pc'[t] = "queued",
           queue # <<>>, Head(queue) = t, NEW u \in Thread, Step(u)
    PROVE  Holders' \subseteq Holders
<1>1. TypeOK
  BY DEF Inv
<1>2. ASSUME LockRead(u) PROVE Holders' \subseteq Holders
  <2>1. WriterFirst
    BY DEF WriterFirst
  <2>2. UNCHANGED writeCount /\ \A v \in Thread : v # u => readCount'[v] = readCount[v]
    BY <1>1, <1>2 DEF TypeOK, LockRead
  <2>3. readCount'[u] = readCount[u] \/ u \in Holders
    BY <1>2, <2>1 DEF LockRead, MayRead, Holders
  <2> QED
    BY <2>2, <2>3 DEF Holders
<1>3. ~GrantRead(u) /\ ~GrantShared(u)
  BY <1>1 DEF TypeOK, GrantRead, GrantShared, Goes
<1>4. ~LockShared(u)
  <2> SUFFICES ASSUME pc[u] = "shared" PROVE FALSE
    BY DEF LockShared
  <2>1. ForWriting(u) > 0 /\ ForWriting(t) > 0
    BY Counts DEF ForWriting
  <2>2. updateCount[u] > 0 /\ updateCount[t] > 0
    BY <2>1, Counts DEF Inv, Backed
  <2> QED
    BY <2>2 DEF Inv, Exclusive
<1>5. ASSUME UnlockRead(u) \/ UnlockWrite(u) PROVE Holders' \subseteq Holders
  <2>1. u \in Holders
    BY <1>5 DEF UnlockRead, UnlockWrite, Holders
  <2>2. \A v \in Thread : v # u => readCount'[v] = readCount[v] /\ writeCount'[v] = writeCount[v]
    BY <1>1, <1>5 DEF TypeOK, UnlockRead, UnlockWrite
  <2> QED
    BY <2>1, <2>2 DEF Holders
<1>6. ASSUME \/ LockUpdate(u) \/ GrantUpdate(u) \/ UnlockUpdate(u)
             \/ LockWrite(u) \/ GrantMutex(u) \/ UnlockMutex(u)
      PROVE  Holders' \subseteq Holders
  BY <1>6 DEF Holders, LockUpdate, GrantUpdate, UnlockUpdate, LockWrite, GrantMutex, UnlockMutex
<1> QED
  BY <1>2, <1>3, <1>4, <1>5, <1>6 DEF Step

\* A writer that has the mutex waits for those who hold the read lock or are
\* ahead of it in the queue, and for nobody who comes later, be it a reader or a
\* writer: what is left for fairness in WriterServed is that these go on.
THEOREM NoOvertaking == Spec => WriterNotOvertaken
<1>1. Inv /\ [Next]_vars
      => [\A t \in Thread : pc[t] = "queued" /\ pc'[t] = "queued" =>
              /\ Ahead(t)' \subseteq Ahead(t)
              /\ queue # <<>> /\ Head(queue) = t => Holders' \subseteq Holders]_vars
  <2> SUFFICES ASSUME Inv, Next, NEW t \in Thread, pc[t] = "queued", pc'[t] = "queued"
               PROVE  /\ Ahead(t)' \subseteq Ahead(t)
                      /\ queue # <<>> /\ Head(queue) = t => Holders' \subseteq Holders
    OBVIOUS
  <2>1. PICK u \in Thread : Step(u)
    BY DEF Next
  <2> QED
    BY <2>1, NobodyGetsAhead, NobodyGetsIn
<1> QED
  BY <1>1, Invariance, PTL DEF Spec, WriterNotOvertaken

\* A set of places in the queue has a first one.
LEMMA FirstInQueue ==
    ASSUME NEW T \in SUBSET Nat, T # {}
    PROVE  \E i \in T : \A j \in T : ~(j < i)
<1>1. PICK i \in T : \A j \in T : ~(<<j, i>> \in OpToRel(<, Nat))
  BY NatLessThanWellFounded, WFMin
<1> QED
  BY <1>1 DEF OpToRel

\* Nobody waits in a circle: in any set of threads, one waits for none of the
\* others.  When all of them wait, it is the first of them in the queue, and
\* when none of them is queued, nobody among them has the mutex.
THEOREM NoDeadlock == Spec => []NoCircle
<1>1. ASSUME Inv PROVE NoCircle
  <2> SUFFICES ASSUME NEW S \in (SUBSET Thread) \ {{}}
               PROVE  \E t \in S : \A u \in S : ~WaitsFor(t, u)
    BY DEF NoCircle
  <2> DEFINE Waiting == {"reading", "updating", "writing", "queued"}
             Indexes == {i \in 1..Len(queue) : queue[i] \in S}
  <2>1. TypeOK /\ QueueSound /\ queue \in Seq(Thread) /\ DOMAIN queue = 1..Len(queue)
    BY <1>1 DEF Inv, TypeOK
  <2>2. CASE \E t \in S : pc[t] \notin Waiting
    <3>1. PICK t \in S : pc[t] \notin Waiting
      BY <2>2
    <3>2. \A j \in DOMAIN queue : queue[j] # t
      BY <2>1, <3>1 DEF QueueSound
    <3> QED
      BY <3>1, <3>2 DEF WaitsFor
  <2>3. CASE \A t \in S : pc[t] \in Waiting
    <3>1. \A u \in S : readCount[u] = 0 /\ writeCount[u] = 0
      BY <1>1, <2>3 DEF Inv, HoldsAt
    <3>2. CASE \E t \in S : pc[t] \in {"reading", "queued"} /\ \A j \in DOMAIN queue : queue[j] # t
      BY <3>1, <3>2 DEF WaitsFor
    <3>3. CASE Indexes # {}
      <4>1. PICK i \in Indexes : \A j \in Indexes : ~(j < i)
        <5>1. Indexes \in SUBSET Nat
          BY <2>1
        <5> QED
          BY <3>3, <5>1, FirstInQueue
      <4>2. queue[i] \in S /\ i \in DOMAIN queue /\ pc[queue[i]] \in {"reading", "queued"}
        BY <2>1, <4>1 DEF QueueSound
      <4>3. ASSUME NEW u \in S, NEW h \in DOMAIN queue, NEW j \in DOMAIN queue,
                   h < j, queue[h] = u, queue[j] = queue[i]
            PROVE  FALSE
        <5>1. j = i
          BY <2>1, <4>2, <4>3 DEF QueueSound
        <5>2. h \in Indexes
          BY <2>1, <4>3
        <5> QED
          BY <4>1, <4>3, <5>1, <5>2
      <4> QED
        BY <3>1, <4>2, <4>3 DEF WaitsFor
    <3>4. CASE /\ Indexes = {}
               /\ \A t \in S : pc[t] \in {"updating", "writing"}
      <4>1. \A u \in S : updateCount[u] = 0
        BY <1>1, <3>4 DEF Inv, HoldsAt
      <4>2. \A j \in DOMAIN queue : queue[j] \notin S
        BY <2>1, <3>4
      <4> QED
        BY <3>1, <3>4, <4>1, <4>2 DEF WaitsFor
    <3>5. CASE /\ Indexes = {}
               /\ \E t \in S : pc[t] \in {"reading", "queued"}
      <4>1. \A j \in DOMAIN queue : queue[j] \notin S
        BY <2>1, <3>5
      <4> QED
        BY <3>2, <3>5, <4>1
    <3> QED
      BY <2>3, <3>3, <3>4, <3>5
  <2> QED
    BY <2>2, <2>3
<1> QED
  BY <1>1, Invariance, PTL

-----------------------------------------------------------------------------
(* The refinement *)

\* Holds taken by LockUpdate, as LockContract counts them.
Taken == [t \in Thread |-> updateCount[t] - ForWriting(t)]

\* A step that moves both terms of Taken by the same amount is none there.
LEMMA TakenKept ==
    ASSUME Inv, NEW t \in Thread,
           \A u \in Thread \ {t} : updateCount'[u] = updateCount[u] /\ ForWriting(u)' = ForWriting(u),
           updateCount'[t] - ForWriting(t)' = updateCount[t] - ForWriting(t)
    PROVE  Taken' = Taken
<1>1. \A u \in Thread : updateCount'[u] - ForWriting(u)' = updateCount[u] - ForWriting(u)
  OBVIOUS
<1> QED
  BY <1>1 DEF Taken

\* One that moves the first term only.
LEMMA TakenMoved ==
    ASSUME Inv, Inv', NEW t \in Thread, NEW d \in Int,
           updateCount'[t] = updateCount[t] + d,
           \A u \in Thread \ {t} : updateCount'[u] = updateCount[u],
           \A u \in Thread : ForWriting(u)' = ForWriting(u)
    PROVE  Taken' = [Taken EXCEPT ![t] = @ + d]
<1>1. \A u \in Thread : updateCount'[u] - ForWriting(u)'
                        = IF u = t THEN updateCount[u] - ForWriting(u) + d ELSE updateCount[u] - ForWriting(u)
  BY Counts
<1> QED
  BY <1>1 DEF Taken

LEMMA ContractInit == Init => Contract!Init
<1> SUFFICES ASSUME Init PROVE Contract!Init
  OBVIOUS
<1>1. \A t \in Thread : pc[t] = "running" /\ updateCount[t] = 0 /\ writeCount[t] = 0
  BY DEF Init
<1>2. ASSUME NEW t \in Thread PROVE ForWriting(t) = 0
  BY <1>1 DEF ForWriting
<1>3. ASSUME NEW t \in Thread PROVE updateCount[t] - ForWriting(t) = 0
  <2>1. updateCount[t] \in Int /\ ForWriting(t) \in Int
    BY <1>1, <1>2
  <2> QED
    BY <1>1, <1>2, <2>1
<1> QED
  BY <1>3 DEF Init, Contract!Init

\* Another thread that has the mutex, and nothing else, has no update lock.
LEMMA OthersTookNothing ==
    ASSUME Inv, NEW u \in Thread, updateCount[u] = 0
    PROVE  Taken[u] = 0 /\ writeCount[u] = 0
<1>1. ForWriting(u) = 0
  BY Counts DEF Inv, Backed
<1> QED
  BY <1>1, Counts DEF Taken

\* Every step of the code is a step of the class comment, or none.
LEMMA ContractStep ==
    ASSUME Inv, Inv', NEW t \in Thread, Step(t)
    PROVE  Contract!Next \/ UNCHANGED Contract!held
<1> USE DEF Contract!Next, Contract!held, Contract!Others, Others
<1>1. TypeOK
  BY DEF Inv
<1>2. ASSUME updateCount' = updateCount, \A u \in Thread : ForWriting(u)' = ForWriting(u)
      PROVE  Taken' = Taken
  BY <1>2 DEF Taken
<1>3. CASE LockRead(t) \/ GrantRead(t) \/ UnlockRead(t)
  <2>1. updateCount' = updateCount /\ writeCount' = writeCount
    BY <1>3 DEF LockRead, GrantRead, UnlockRead
  <2>2. ASSUME NEW u \in Thread
        PROVE  pc'[u] \in {"shared", "queued", "releasing"}
                 <=> pc[u] \in {"shared", "queued", "releasing"}
    <3>1. CASE LockRead(t)
      BY <1>1, <3>1 DEF TypeOK, LockRead, Goes
    <3>2. CASE GrantRead(t)
      BY <1>1, <3>2 DEF TypeOK, GrantRead, Goes
    <3>3. CASE UnlockRead(t)
      BY <3>3 DEF UnlockRead
    <3> QED
      BY <1>3, <3>1, <3>2, <3>3
  <2>3. Taken' = Taken
    BY <1>2, <2>1, <2>2 DEF ForWriting
  <2>4. CASE readCount' = readCount
    BY <2>1, <2>3, <2>4 DEF Taken
  <2>5. CASE readCount' = [readCount EXCEPT ![t] = @ + 1] /\ readCount[t] < MaxHolds /\ NoOtherWriter(t)
    <3>1. Contract!Read(t)
      BY <2>1, <2>3, <2>5 DEF Contract!Read, NoOtherWriter, Taken
    <3> QED
      BY <3>1
  <2>6. CASE UnlockRead(t)
    <3>1. Contract!Unlock(t)
      BY <2>1, <2>3, <2>6 DEF Contract!Unlock, UnlockRead, Taken
    <3> QED
      BY <3>1
  <2>7. GrantRead(t) => readCount[t] < MaxHolds
    BY Counts DEF GrantRead, Inv, HoldsAt
  <2> QED
    BY <1>3, <2>4, <2>5, <2>6, <2>7 DEF LockRead, GrantRead, MayRead
<1>4. CASE LockUpdate(t) \/ GrantUpdate(t) \/ UnlockUpdate(t)
  <2>1. readCount' = readCount /\ writeCount' = writeCount
    BY <1>4 DEF LockUpdate, GrantUpdate, UnlockUpdate
  <2>2. \A u \in Thread : ForWriting(u)' = ForWriting(u)
    BY <1>1, <1>4, <2>1 DEF ForWriting, TypeOK, LockUpdate, GrantUpdate, UnlockUpdate, Goes
  <2>3. CASE updateCount' = updateCount
    BY <1>2, <2>1, <2>2, <2>3 DEF Taken
  <2>4. CASE /\ updateCount' = [updateCount EXCEPT ![t] = @ + 1] /\ MutexFree(t)
             /\ updateCount[t] < MaxHolds /\ readCount[t] = 0 /\ writeCount[t] = 0
             /\ pc[t] \in {"running", "updating"}
    <3>1. Taken' = [Taken EXCEPT ![t] = @ + 1]
      BY <1>1, <2>2, <2>4, TakenMoved DEF TypeOK
    <3>2. \A u \in Thread \ {t} : Taken[u] = 0 /\ writeCount[u] = 0
      BY <2>4, OthersTookNothing DEF MutexFree
    <3>3. Taken[t] < MaxHolds
      BY <2>4, Counts DEF Taken
    <3>4. Contract!Update(t)
      BY <2>1, <2>4, <3>1, <3>2, <3>3 DEF Contract!Update, Taken
    <3> QED
      BY <3>4
  <2>5. CASE UnlockUpdate(t)
    <3>1. updateCount'[t] = updateCount[t] + (-1) /\ \A u \in Thread \ {t} : updateCount'[u] = updateCount[u]
      BY <1>1, <2>5, Counts DEF UnlockUpdate, TypeOK
    <3>2. Taken' = [Taken EXCEPT ![t] = @ + (-1)]
      BY <2>2, <3>1, TakenMoved
    <3>3. \A u \in Thread : Taken[u] \in Int
      BY Counts DEF Taken
    <3>4. Taken' = [Taken EXCEPT ![t] = @ - 1]
      BY <3>2, <3>3
    <3>5. Taken[t] > 0
      BY <2>5, Counts DEF UnlockUpdate, ForWriting, Taken
    <3>6. Contract!Unlock(t)
      BY <2>1, <3>4, <3>5 DEF Contract!Unlock, Taken
    <3> QED
      BY <3>6
  <2>6. GrantUpdate(t) => /\ updateCount[t] < MaxHolds /\ readCount[t] = 0 /\ writeCount[t] = 0
                          /\ pc[t] = "updating"
    BY Counts DEF GrantUpdate, Inv, HoldsAt
  <2> QED
    BY <1>4, <2>3, <2>4, <2>5, <2>6 DEF LockUpdate, GrantUpdate
<1>5. CASE LockWrite(t) \/ GrantMutex(t) \/ UnlockMutex(t)
  <2>1. readCount' = readCount /\ writeCount' = writeCount
    BY <1>5 DEF LockWrite, GrantMutex, UnlockMutex
  <2>2. \A u \in Thread \ {t} : updateCount'[u] = updateCount[u] /\ ForWriting(u)' = ForWriting(u)
    BY <1>1, <1>5, <2>1 DEF TypeOK, LockWrite, GrantMutex, UnlockMutex, ForWriting, Goes
  <2>3. CASE Goes(t, "writing") /\ updateCount' = updateCount /\ pc[t] = "running"
    <3>1. ForWriting(t)' = ForWriting(t)
      BY <1>1, <2>1, <2>3 DEF ForWriting, TypeOK, Goes
    <3> QED
      BY <2>1, <2>2, <2>3, <3>1, TakenKept DEF Taken
  <2>4. CASE /\ Goes(t, "shared") /\ pc[t] \in {"running", "writing"}
             /\ updateCount' = [updateCount EXCEPT ![t] = @ + 1]
    <3>1. pc'[t] = "shared" /\ updateCount'[t] = updateCount[t] + 1
      BY <1>1, <2>4 DEF TypeOK, Goes
    <3>2. ForWriting(t)' = ForWriting(t) + 1
      BY <2>1, <2>4, <3>1, Counts DEF ForWriting
    <3>3. updateCount'[t] - ForWriting(t)' = updateCount[t] - ForWriting(t)
      BY <3>1, <3>2, Counts
    <3> QED
      BY <2>1, <2>2, <3>3, TakenKept DEF Taken
  <2>5. CASE UnlockMutex(t)
    <3>1. updateCount'[t] = updateCount[t] - 1 /\ pc'[t] = "running" /\ pc[t] = "releasing"
      BY <1>1, <2>5 DEF UnlockMutex, TypeOK, Goes
    <3>2. ForWriting(t)' = ForWriting(t) - 1
      BY <2>1, <3>1, Counts DEF ForWriting
    <3>3. updateCount'[t] - ForWriting(t)' = updateCount[t] - ForWriting(t)
      BY <3>1, <3>2, Counts
    <3> QED
      BY <2>1, <2>2, <3>3, TakenKept DEF Taken
  <2> QED
    BY <1>5, <2>3, <2>4, <2>5 DEF LockWrite, GrantMutex
<1>6. CASE LockShared(t) \/ GrantShared(t) \/ UnlockWrite(t)
  <2>1. updateCount' = updateCount /\ readCount' = readCount
    BY <1>6 DEF LockShared, GrantShared, UnlockWrite
  <2>2. Taken' = Taken
    BY <1>2, <1>6, <2>1, SharedCounts
  <2>3. CASE writeCount' = writeCount
    BY <2>1, <2>2, <2>3 DEF Taken
  <2>4. CASE /\ writeCount' = [writeCount EXCEPT ![t] = @ + 1] /\ SharedFree(t)
             /\ pc[t] \in {"shared", "queued"} /\ writeCount[t] < MaxHolds /\ readCount[t] = 0
    <3>1. updateCount[t] > 0
      BY <2>4, Counts
    <3>2. \A u \in Thread \ {t} : updateCount[u] = 0
      BY <3>1 DEF Inv, Exclusive
    <3>3. \A u \in Thread \ {t} : Taken[u] = 0 /\ writeCount[u] = 0
      BY <3>2, OthersTookNothing
    <3>4. Contract!Write(t)
      BY <2>1, <2>2, <2>4, <3>3 DEF Contract!Write, SharedFree, Taken
    <3> QED
      BY <3>4
  <2>5. CASE UnlockWrite(t)
    <3>1. Contract!Unlock(t)
      BY <2>1, <2>2, <2>5 DEF Contract!Unlock, UnlockWrite, Taken
    <3> QED
      BY <3>1
  <2>6. pc[t] \in {"shared", "queued"} => writeCount[t] < MaxHolds /\ readCount[t] = 0
    BY Counts DEF Inv, HoldsAt
  <2> QED
    BY <1>6, <2>3, <2>4, <2>5, <2>6 DEF LockShared, GrantShared
<1> QED
  BY <1>3, <1>4, <1>5, <1>6 DEF Step

\* The code implements its class comment.
THEOREM Refinement == Spec => ImplementsContract
<1>1. Inv /\ Inv' /\ [Next]_vars => [Contract!Next]_(Contract!held)
  <2> SUFFICES ASSUME Inv, Inv', [Next]_vars
               PROVE  Contract!Next \/ UNCHANGED Contract!held
    OBVIOUS
  <2>1. CASE UNCHANGED vars
    BY <2>1 DEF vars, ForWriting, Contract!held
  <2>2. CASE Next
    <3>1. PICK t \in Thread : Step(t)
      BY <2>2 DEF Next
    <3> QED
      BY <3>1, ContractStep
  <2> QED
    BY <2>1, <2>2
<1> QED
  BY <1>1, ContractInit, Invariance, PTL DEF Spec, ImplementsContract, Contract!Spec
=============================================================================
