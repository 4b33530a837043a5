--------------------------- MODULE UnconfirmedPool ---------------------------
(***************************************************************************)
(* The unconfirmed transactions of a node (wcg/TransactionProcessorImpl):  *)
(* the pool table in the database, the copies of it kept in memory, and    *)
(* the holds its transactions place on the senders' unconfirmed balances,  *)
(* while blocks are pushed, popped off, rescanned and forged.              *)
(*                                                                         *)
(* A step is one database transaction made under the write lock of the     *)
(* blockchain, or the part of a thread's work done before it takes the     *)
(* lock.  A sweep of the waiting transactions keeps the lock over several  *)
(* database transactions.                                                  *)
(*                                                                         *)
(* Time and the contents of transactions are left out: whether a waiting   *)
(* transaction is valid just now, and which ones have expired, is any      *)
(* outcome.  So is which of too many waiting transactions are dropped.     *)
(***************************************************************************)
EXTENDS Integers, Sequences, FiniteSets, FiniteSetsExt, SequencesExt

CONSTANTS
    Account,
    Forger,         \* The account that earns the fees of every block.
    InitialBalance, \* Balance of each account at the genesis block.
    Tx,
    Sender, Recipient,
    Amount, Fee,
    Deposit,        \* UNCONFIRMED_POOL_DEPOSIT_NQT, for a referenced transaction.
    DuplicateKey,   \* What no two unconfirmed transactions may share, or NoKey.
    NoKey,
    MaxUnconfirmed, \* wcg.maxUnconfirmedTransactions
    MaxHeight       \* Bound on the height of the chain.

ASSUME AccountAssumption ==
    /\ Forger \in Account
    /\ InitialBalance \in [Account -> Nat]

ASSUME TxAssumption ==
    /\ IsFiniteSet(Tx)
    /\ Sender \in [Tx -> Account] /\ Recipient \in [Tx -> Account]
    /\ Amount \in [Tx -> Nat] /\ Fee \in [Tx -> Nat] /\ Deposit \in [Tx -> Nat]

ASSUME BoundAssumption == MaxUnconfirmed \in Nat /\ MaxHeight \in Nat

VARIABLES
    (* In the database *)
    chain,          \* The transactions of every block above the genesis block.
    ledger,         \* ledger[h + 1]: the account table as of height h.
    pool,           \* Table unconfirmed_transaction: the height of each row.
    (* In memory *)
    cache,          \* transactionCache
    cacheInitialized,
    waiting,        \* waitingTransactions, with the number of entries of each.
    duplicates,     \* unconfirmedDuplicates
    unswept,        \* What the sweep under way has still to look at.
    condemned,      \* Expired transactions a thread is about to remove.
    culprits        \* What the forger removes, having failed to forge with it.

durable == <<chain, ledger, pool>>
memory == <<cache, cacheInitialized, waiting, duplicates, unswept, condemned, culprits>>
vars == <<durable, memory>>

-----------------------------------------------------------------------------
(* Helpers *)

Height == Len(chain)

Pooled == DOMAIN pool

Confirmed == UNION {chain[h] : h \in 1..Height}

Queues == [Tx -> 0..MaxUnconfirmed]
EmptyQueue == [t \in Tx |-> 0]

\* What the weights w add up to over S.
Total(w, S) == MapThenSumSet(LAMBDA t : w[t], S)
Size(bag) == Total(bag, Tx)
Without(bag, t) == [bag EXCEPT ![t] = @ - 1]

Added(queue, S) == [t \in Tx |-> queue[t] + (IF t \in S THEN 1 ELSE 0)]

\* MUTANT: nothing is dropped.
QueuedUnbounded(queue, S) == {q \in Queues : q = Added(queue, S)}

\* The queue with the transactions of S added, the worst dropped if too many.
Queued(queue, S) ==
    LET all == Added(queue, S)
    IN  {q \in Queues :
            /\ \A t \in Tx : q[t] <= all[t]
            /\ Size(q) = IF Size(all) > MaxUnconfirmed THEN MaxUnconfirmed ELSE Size(all)}

\* What a transaction keeps back from its sender while it waits, and what it costs.
Hold == [t \in Tx |-> Amount[t] + Fee[t] + Deposit[t]]
Cost == [t \in Tx |-> Amount[t] + Fee[t]]

HeldBy(a, S) == Total(Hold, {t \in S : Sender[t] = a})
SpentBy(a, S) == Total(Cost, {t \in S : Sender[t] = a})
EarnedBy(a, S) ==
    Total(Amount, {t \in S : Recipient[t] = a}) + (IF a = Forger THEN Total(Fee, S) ELSE 0)

Accounts == ledger[Height + 1]

\* applyUnconfirmed and undoUnconfirmed of the transactions of S
Reserve(accounts, S) ==
    [a \in Account |-> [accounts[a] EXCEPT !.unconfirmed = @ - HeldBy(a, S)]]
Release(accounts, S) ==
    [a \in Account |-> [accounts[a] EXCEPT !.unconfirmed = @ + HeldBy(a, S)]]

\* MUTANT: the holds of other transactions are not looked at.
AffordableByBalance(accounts, S) ==
    \A a \in Account : HeldBy(a, S) <= accounts[a].balance

\* No transaction of S may spend what another one of S pays out.
Affordable(accounts, S) ==
    \A a \in Account : HeldBy(a, S) <= accounts[a].unconfirmed

\* accept: reserve everything, pay the forger, apply, give deposits back.
ApplyBlock(accounts, S) ==
    [a \in Account |->
        LET gain == EarnedBy(a, S) - SpentBy(a, S)
        IN  [balance |-> accounts[a].balance + gain,
             unconfirmed |-> accounts[a].unconfirmed + gain]]

\* What a scan does: blocks are applied again, one account table on top of the other.
Reapply(tables, blocks) ==
    FoldLeft(LAMBDA l, S : Append(l, ApplyBlock(l[Len(l)], S)), tables, blocks)

AtHeight(accounts) == [ledger EXCEPT ![Height + 1] = accounts]

KeysOf(S) == {DuplicateKey[t] : t \in S} \ {NoKey}

Genesis == [a \in Account |->
    [balance |-> InitialBalance[a], unconfirmed |-> InitialBalance[a]]]

\* No thread holds the write lock, or the update lock a forger keeps throughout.
Unlocked == unswept = EmptyQueue /\ culprits = {}

-----------------------------------------------------------------------------
Init ==
    /\ chain = <<>> /\ ledger = <<Genesis>> /\ pool = <<>>
    /\ cache = {} /\ cacheInitialized = FALSE
    /\ waiting = EmptyQueue /\ duplicates = {}
    /\ unswept = EmptyQueue /\ condemned = {} /\ culprits = {}

(* Transactions come in *)

\* MUTANT: the blockchain is not asked.
KnownUnconfirmed(t) == t \in Pooled \cup cache

\* getUnconfirmedTransaction finds it, or the blockchain has it.
Known(t) == t \in Pooled \cup cache \cup Confirmed

\* processTransaction, when it does not throw.
Accept(t) ==
    /\ ~Known(t)
    /\ Affordable(Accounts, {t})
    /\ DuplicateKey[t] \notin duplicates
    /\ ledger' = AtHeight(Reserve(Accounts, {t}))
    /\ pool' = [u \in Pooled \cup {t} |-> IF u = t THEN Height ELSE pool[u]]
    /\ cache' = IF Cardinality(cache) < MaxUnconfirmed THEN cache \cup {t} ELSE cache
    /\ duplicates' = duplicates \cup KeysOf({t})

\* broadcast, and processPeerTransactions for each transaction received.
Receive(t) ==
    /\ Unlocked
    /\ Accept(t)
    /\ UNCHANGED <<chain, cacheInitialized, waiting, unswept, condemned, culprits>>

\* broadcast by a listener while its own thread is accepting a block.
BroadcastLater(t) ==
    /\ Unlocked
    /\ t \notin Confirmed
    /\ waiting' \in Queued(waiting, {t})
    /\ UNCHANGED <<durable, cache, cacheInitialized, duplicates, unswept, condemned, culprits>>

(* processWaitingTransactions *)

BeginSweep ==
    /\ Unlocked
    /\ unswept' = waiting
    /\ UNCHANGED <<durable, cache, cacheInitialized, waiting, duplicates, condemned, culprits>>

SweepAccepts(t) ==
    /\ unswept[t] > 0
    /\ Accept(t)
    /\ unswept' = Without(unswept, t) /\ waiting' = Without(waiting, t)
    /\ UNCHANGED <<chain, cacheInitialized, condemned, culprits>>

\* Known already, expired, too old or invalid.
SweepDrops(t) ==
    /\ unswept[t] > 0
    /\ unswept' = Without(unswept, t) /\ waiting' = Without(waiting, t)
    /\ UNCHANGED <<durable, cache, cacheInitialized, duplicates, condemned, culprits>>

\* Not valid at present.
SweepKeeps(t) ==
    /\ unswept[t] > 0 /\ ~Known(t)
    /\ unswept' = Without(unswept, t)
    /\ UNCHANGED <<durable, cache, cacheInitialized, waiting, duplicates, condemned, culprits>>

(* Transactions leave *)

\* The expired transactions are read before the lock is taken.
FindExpired(S) ==
    /\ condemned = {} /\ S # {} /\ S \subseteq Pooled
    /\ condemned' = S
    /\ UNCHANGED <<durable, cache, cacheInitialized, waiting, duplicates, unswept, culprits>>

\* MUTANT: holds are released although the row is gone.
RemoveTwice(S) ==
    /\ pool' = [t \in Pooled \ S |-> pool[t]]
    /\ ledger' = AtHeight(Release(Accounts, S))
    /\ cache' = cache \ (S \cap Pooled)
    /\ UNCHANGED <<chain, cacheInitialized, waiting, duplicates, unswept>>

\* MUTANT: the cached copies stay.
RemoveUncached(S) ==
    /\ pool' = [t \in Pooled \ S |-> pool[t]]
    /\ ledger' = AtHeight(Release(Accounts, S \cap Pooled))
    /\ UNCHANGED <<chain, cache, cacheInitialized, waiting, duplicates, unswept>>

\* removeUnconfirmedTransaction of each, when its row is still there.
RemoveFromPool(S) ==
    /\ pool' = [t \in Pooled \ S |-> pool[t]]
    /\ ledger' = AtHeight(Release(Accounts, S \cap Pooled))
    /\ cache' = cache \ (S \cap Pooled)
    /\ UNCHANGED <<chain, cacheInitialized, waiting, duplicates, unswept>>

RemoveExpired ==
    /\ Unlocked /\ condemned # {}
    /\ RemoveFromPool(condemned)
    /\ condemned' = {}
    /\ UNCHANGED culprits

\* clearUnconfirmedTransactions
Clear ==
    /\ Unlocked
    /\ ledger' = AtHeight(Release(Accounts, Pooled))
    /\ pool' = <<>> /\ cache' = {} /\ waiting' = EmptyQueue /\ duplicates' = {}
    /\ UNCHANGED <<chain, cacheInitialized, unswept, condemned, culprits>>

\* MUTANT: the transactions do not wait to come back.
RequeueInMemoryForgetting ==
    /\ waiting' = waiting
    /\ cache' = {} /\ duplicates' = {}

\* requeueAllUnconfirmedTransactions, as far as memory goes.
RequeueInMemory ==
    /\ waiting' \in Queued(waiting, Pooled)
    /\ cache' = {} /\ duplicates' = {}

Requeue ==
    /\ Unlocked
    /\ RequeueInMemory
    /\ ledger' = AtHeight(Release(Accounts, Pooled))
    /\ pool' = <<>>
    /\ UNCHANGED <<chain, cacheInitialized, unswept, condemned, culprits>>

\* getCachedUnconfirmedTransactions
FillCache ==
    /\ unswept = EmptyQueue /\ ~cacheInitialized
    /\ cache' = cache \cup Pooled
    /\ cacheInitialized' = TRUE
    /\ UNCHANGED <<durable, waiting, duplicates, unswept, condemned, culprits>>

(* Blocks *)

\* MUTANT: the pool is emptied after the block is added, at the new height.
PushBeforeRequeue(S) ==
    LET released == Release(Accounts, Pooled) IN
    /\ Unlocked
    /\ Height < MaxHeight
    /\ S \cap Confirmed = {}
    /\ Affordable(released, S)
    /\ RequeueInMemory
    /\ chain' = Append(chain, S)
    /\ ledger' = Append(ledger, ApplyBlock(released, S))
    /\ pool' = <<>>
    /\ UNCHANGED <<cacheInitialized, unswept, condemned, culprits>>

\* pushBlock of valid transactions, received or selected from the pool: the
\* pool is emptied, the block saved and applied, in one database transaction.
Push(S) ==
    LET released == Release(Accounts, Pooled) IN
    /\ Unlocked
    /\ Height < MaxHeight
    /\ S \cap Confirmed = {}
    /\ Affordable(released, S)
    /\ RequeueInMemory
    /\ chain' = Append(chain, S)
    /\ ledger' = Append(AtHeight(released), ApplyBlock(released, S))
    /\ pool' = <<>>
    /\ UNCHANGED <<cacheInitialized, unswept, condemned, culprits>>

\* accept throws: the database is rolled back, the memory is not.
PushFails ==
    /\ Unlocked
    /\ RequeueInMemory
    /\ UNCHANGED <<durable, cacheInitialized, unswept, condemned, culprits>>

\* popOffTo(h): the rows of the blocks popped off wait again, and so do their
\* transactions if the caller gives them to processLater.  After a failure it goes
\* to the last block, where there is nothing to pop, and forgets the keys.
PopOff(h, later) ==
    LET requeued == {t \in Pooled : pool[t] > h}
        popped == UNION {chain[g] : g \in h + 1..Height}
    IN
    /\ Unlocked
    /\ h <= Height
    /\ chain' = SubSeq(chain, 1, h)
    /\ ledger' = SubSeq(ledger, 1, h + 1)
    /\ pool' = [t \in Pooled \ requeued |-> pool[t]]
    /\ \E queue \in Queued(waiting, requeued) :
          waiting' \in Queued(queue, IF later THEN popped ELSE {})
    /\ cache' = cache \ requeued
    /\ duplicates' = {}
    /\ UNCHANGED <<cacheInitialized, unswept, condemned, culprits>>

\* MUTANT: the tables are rolled back to h, and block h is applied twice.
PartialRescanOffByOne(h) ==
    LET requeued == {t \in Pooled : pool[t] > h - 1} IN
    /\ Unlocked
    /\ h \in 1..Height
    /\ ledger' = Reapply(SubSeq(ledger, 1, h + 1), SubSeq(chain, h, Height))
    /\ pool' = [t \in Pooled \ requeued |-> pool[t]]
    /\ waiting' \in Queued(waiting, requeued)
    /\ cache' = cache \ requeued
    /\ duplicates' = {}
    /\ UNCHANGED <<chain, cacheInitialized, unswept, condemned, culprits>>

\* MUTANT: the rows of the last block stay in the pool.
PartialRescanKeepingRows(h) ==
    LET requeued == {t \in Pooled : pool[t] > h} IN
    /\ Unlocked
    /\ h \in 1..Height + 1
    /\ ledger' = Reapply(SubSeq(ledger, 1, h), SubSeq(chain, h, Height))
    /\ pool' = [t \in Pooled \ requeued |-> pool[t]]
    /\ waiting' \in Queued(waiting, requeued)
    /\ cache' = cache \ requeued
    /\ duplicates' = {}
    /\ UNCHANGED <<chain, cacheInitialized, unswept, condemned, culprits>>

\* scan(h): the tables are rolled back, the blocks from h on applied again.  At the
\* height of the next block it throws, after the rollback to the last one.
PartialRescan(h) ==
    LET requeued == {t \in Pooled : pool[t] > h - 1} IN
    /\ Unlocked
    /\ h \in 1..Height + 1
    /\ ledger' = Reapply(SubSeq(ledger, 1, h), SubSeq(chain, h, Height))
    /\ pool' = [t \in Pooled \ requeued |-> pool[t]]
    /\ waiting' \in Queued(waiting, requeued)
    /\ cache' = cache \ requeued
    /\ duplicates' = {}
    /\ UNCHANGED <<chain, cacheInitialized, unswept, condemned, culprits>>

\* scan(0): the tables are truncated, and the pool table with them.
FullRescan ==
    /\ Unlocked
    /\ ledger' = Reapply(<<Genesis>>, chain)
    /\ pool' = <<>>
    /\ UNCHANGED <<chain, memory>>

\* generateBlock: a transaction selected from the pool is not accepted, before or
\* after the pool is requeued.  The waiting transactions are swept once more,
\* then the culprit is removed, all under the update lock.
ForgeFails(t) ==
    /\ Unlocked /\ t \in Pooled
    /\ RequeueInMemory \/ UNCHANGED <<waiting, cache, duplicates>>
    /\ unswept' = waiting' /\ culprits' = {t}
    /\ UNCHANGED <<durable, cacheInitialized, condemned>>

RemoveCulprit ==
    /\ unswept = EmptyQueue /\ culprits # {}
    /\ RemoveFromPool(culprits)
    /\ culprits' = {}
    /\ UNCHANGED condemned

\* Memory is lost.
Restart ==
    /\ cache' = {} /\ cacheInitialized' = FALSE
    /\ waiting' = EmptyQueue /\ duplicates' = {}
    /\ unswept' = EmptyQueue /\ condemned' = {} /\ culprits' = {}
    /\ UNCHANGED durable

\* rebroadcastAllUnconfirmedTransactions, after the start of a node that is neither
\* offline nor a light client, or asked for.
Rebroadcast ==
    /\ Unlocked
    /\ duplicates' = duplicates \cup KeysOf(Pooled)
    /\ UNCHANGED <<durable, cache, cacheInitialized, waiting, unswept, condemned, culprits>>

PoolNext ==
    \/ \E t \in Tx : Receive(t) \/ BroadcastLater(t)
    \/ \E t \in Tx : SweepAccepts(t) \/ SweepDrops(t) \/ SweepKeeps(t)
    \/ BeginSweep
    \/ \E S \in SUBSET Tx : FindExpired(S)
    \/ RemoveExpired
    \/ Clear \/ Requeue \/ FillCache
    \/ Restart \/ Rebroadcast

BlockNext ==
    \/ \E S \in SUBSET Tx : Push(S)
    \/ PushFails
    \/ \E h \in 0..MaxHeight, later \in BOOLEAN : PopOff(h, later)
    \/ \E h \in 1..MaxHeight + 1 : PartialRescan(h)
    \/ FullRescan
    \/ \E t \in Tx : ForgeFails(t)
    \/ RemoveCulprit

Next == PoolNext \/ BlockNext

Spec == Init /\ [][Next]_vars

-----------------------------------------------------------------------------
(* Properties *)

TypeOK ==
    /\ chain \in Seq(SUBSET Tx) /\ Height <= MaxHeight
    /\ ledger \in Seq([Account -> [balance : Int, unconfirmed : Int]])
    /\ Len(ledger) = Height + 1
    /\ Pooled \subseteq Tx /\ pool \in [Pooled -> 0..MaxHeight]
    /\ cache \subseteq Tx /\ cacheInitialized \in BOOLEAN
    /\ waiting \in Queues /\ Size(waiting) <= MaxUnconfirmed
    /\ duplicates \subseteq KeysOf(Tx)
    /\ unswept \in Queues
    /\ condemned \subseteq Tx
    /\ culprits \subseteq Tx /\ Cardinality(culprits) <= 1

\* What an account has less in its unconfirmed balance than in its balance is
\* exactly what its transactions in the pool hold back: no hold is lost or
\* kept when transactions are removed, requeued, included, popped or rescanned.
HoldsMatchPool ==
    \A a \in Account :
        Accounts[a].balance - Accounts[a].unconfirmed = HeldBy(a, Pooled)

\* checkBalance never throws: neither the chain nor the pool spends a coin twice.
NoDoubleSpending ==
    \A h \in 1..Height + 1 : \A a \in Account :
        /\ 0 <= ledger[h][a].unconfirmed
        /\ ledger[h][a].unconfirmed <= ledger[h][a].balance

\* No hold survives in the tables below the last block, and every row of the
\* pool is of the last block: popping off a block finds all rows it must move.
PoolIsCurrent ==
    /\ \A t \in Pooled : pool[t] = Height
    /\ \A h \in 1..Height : \A a \in Account : ledger[h][a].unconfirmed = ledger[h][a].balance

\* A transaction is in one block at most and never also in the pool.
ConfirmedOnce ==
    /\ Pooled \cap Confirmed = {}
    /\ \A g, h \in 1..Height : g # h => chain[g] \cap chain[h] = {}

\* The pool and the rescans never touch a confirmed balance.
BalancesFollowChain ==
    [][chain' = chain =>
          \A h \in 1..Height + 1, a \in Account :
              ledger'[h][a].balance = ledger[h][a].balance]_vars

\* A transaction that leaves the pool was included, removed, cleared, or is
\* waiting to come back, unless the queue is full.  A rescan from the genesis
\* block is the exception (see CachedIsKept).
NothingLost ==
    [][\A t \in Pooled \ Pooled' :
          \/ t \in Confirmed'
          \/ waiting'[t] > 0 \/ Size(waiting') = MaxUnconfirmed
          \/ RemoveExpired \/ RemoveCulprit \/ Clear \/ FullRescan]_vars

\* No other step leaves a transaction in the cache that is not in the pool:
\* the cache never answers for a transaction whose hold has been given up.
CacheInPool ==
    [][\A t \in cache' \ Pooled' : t \in cache \ Pooled \/ FullRescan]_vars

\* What is in the pool keeps duplicates of it out: the node forgets the key of a
\* transaction that stays in the pool only when it is restarted, when a block is
\* not accepted, and when the tables are rolled back to the last block.
KeysRemembered ==
    [][KeysOf(Pooled) \subseteq duplicates =>
          \/ KeysOf(Pooled') \subseteq duplicates'
          \/ PushFails \/ (\E t \in Tx : ForgeFails(t)) \/ Restart
          \/ (\E later \in BOOLEAN : PopOff(Height, later)) \/ PartialRescan(Height + 1)]_vars

\* A transaction in the cache is one the node still has.
CachedIsKept == \A t \in cache : t \in Pooled \/ waiting[t] > 0
=============================================================================
