# A verification project for the WCG node

TLA+ models of the Java node under `src/Source/src/java/wcg` (a fork of Nxt) and
of the part of its wallet, under `src/Source/html/www/js`, that chooses nodes and
checks their answers; the configurations that model-check them on small
instances; and TLAPS proofs for every value of the constants.

## 1. The system

The node keeps a chain of blocks and, derived from it, the state of accounts,
aliases, assets, currencies, polls and so on. Every piece of derived state lives
in a database table that can be rolled back, so that blocks can be taken off the
chain again. The parts, what each keeps, how they interact and what makes them
correct:

| Part | State | Operations | What makes it correct |
|---|---|---|---|
| Derived tables (`db/*EntityDbTable`) | rows per key and height, a `latest` flag | insert, delete, rollback, trim, truncate | one latest row at most; a rollback is exact; a trim is invisible |
| Value tables (`db/*ValuesDbTable`) | lists of rows per key and height | the same | the same, list by list |
| Blockchain processor (`BlockchainProcessorImpl`, `BlockDb`) | blocks, scan flag, last trim height | push, pop off, rescan, full reset, trim, restart | tables match the blocks, a crash at any commit is recoverable, no rollback below a trim |
| Download and fork resolution (`BlockchainProcessorImpl`) | the peers asked, common block, popped-off blocks | ask, compare, fetch, push, undo, judge, put back, second opinion | the chain never gets weaker, no transaction is lost, the node catches up |
| Unconfirmed transactions (`TransactionProcessorImpl`) | pool table, cache, waiting queue, duplicates | receive, sweep, expire, requeue, clear, restart | holds on balances are those of the pool, nothing spent twice, nothing lost |
| Transaction types (`TransactionType`, `Attachment`, `Appendix`) | none | validate, apply, hold and release | what is applied was validated in the same state |
| Aliases (`Alias`) | owner and offer of each name | assign, sell, transfer, buy, delete | the chain alone decides owner and offer |
| Accounts (`Account`) | balances, leases, properties, assets, currencies | credit, debit, lease | no negative balance, lessors counted once |
| Account control (`AccountRestrictions`) | mandatory phasing per account | set, lift | a controlled account cannot escape its control |
| Phasing (`PhasingPoll`, `PhasingParams`) | pending transactions, votes | start, vote, finish early, finish | finished once, the hold released once |
| Polls (`Poll`, `Vote`) | votes, results | create, vote, count | counted once, as of the finish height |
| Asset exchange (`Asset`, `Order`, `Trade`) | orders, quantities | place, cancel, match | asset quantities and coins are conserved |
| Monetary system (`Currency*`, `Exchange*`) | supply, offers, founders | issue, reserve, exchange, mint, delete | supply and reserves are conserved |
| Shuffling (`Shuffling*`, `Shuffler`) | stage, participants, deposits | register, process, verify, cancel | the deposit goes to one account |
| Digital goods (`DigitalGoodsStore`) | goods, purchases | list, buy, deliver, refund, expire | a purchase is paid or refunded once |
| Tagged data, prunable messages | data that expires | add, extend, prune, restore | pruned data is restored unchanged |
| Interest (`InterestManager`) | payments, outside the derived tables | pay per block, undo | undone with the block |
| Forging (`Generator`, `Hub`) | forgers, hit times | forge, retry, pop off a late block | one block per height is forged |
| Peers (`peer/*`) | connection states, blacklist | connect, answer, blacklist | every request ends |
| Locks (`util/ReadWriteUpdateLock`) | counts per thread, two JDK locks | read, update, write, unlock | the contract of the class comment, no deadlock, writers are served |
| Listeners and threads (`util/*`) | lists of listeners, pools of threads | notify, run | |
| Wallet: remote nodes (`remotenodesmgr.js`, `nrs.remote.nodes.js`, `nrs.server.js`) | registry of nodes, blacklist, reports of confirmations | bootstrap, discover, choose, request, confirm | it gets past its start, blames who failed, counts every answer once |
| Wallet: pages and forms | what is shown | | |
| Funding monitor, account ledger, HTTP API, user interface, tools | queues, logs | | |

How they interact. Every change of the chain or the pool is made under the one
write lock of `BlockchainImpl`. The processor pushes and pops blocks and, through
`DerivedDbTable.rollback`, `trim` and `truncate`, every table. It calls the
transaction types to validate and apply transactions, empties the pool before
every block, and tells listeners (`BLOCK_PUSHED`, `BLOCK_SCANNED`, ...) which
trim the tables, finish phased transactions and polls, release leases and expire
purchases. The pool is itself a derived table, which is why popping a block
requeues it.

What is hard about it:

* Deleting blocks, rolling back tables and rescanning are sequences of database
  commits; the node can be killed between any two of them, or one may throw.
* The trim runs in the background under the read lock, and the height it reached
  is remembered in memory only.
* The pool is mirrored in memory by three collections that are not rolled back
  with the database.
* Work is prepared before the lock is taken (expired transactions) and used after.
* Rollback must restore exactly what a node would have that never saw the blocks
  that were popped off; otherwise two nodes with the same chain disagree.
* A download compares, reads and decides before the lock is taken, and its fork
  resolution undoes and redoes blocks that may no longer be acceptable.
* In the wallet every callback may find that another one has changed the node
  that requests go to, the registry, or the report it belongs to.
* Forks, phasing, orders, shufflings: long sequences of legal transactions over
  many blocks, any suffix of which may be undone.

`PROJECT.json` lists the hazards by line, with the properties that cover them.

## 2. The modules

| Module | Models | Kind |
|---|---|---|
| `SnapshotStore` | what a derived table promises: a snapshot per height | abstract specification |
| `VersionedTable` | rows, flags, tombstones and trims of a derived table | implements `SnapshotStore` |
| `VersionedTableProofs` | theorems about `VersionedTable` | proofs |
| `BlockchainProcessor` | the commits of pushing, popping, rescanning, trimming, restarting | caller of the tables |
| `BlockchainProcessorProofs` | theorems about `BlockchainProcessor` | proofs |
| `LockContract` | who may hold what, per the comment of `ReadWriteUpdateLock` | abstract specification |
| `ReadWriteUpdateLock` | the lock as made of a JDK read/write lock and a mutex | implements `LockContract` |
| `ReadWriteUpdateLockProofs` | theorems about it | proofs |
| `BlockchainDownload` | `getMoreBlocksThread` with `downloadBlockchain` and `processFork` | component |
| `BlockchainDownloadProofs` | theorems about it | proofs |
| `RemoteNodes` | the wallet's registry of nodes, its requests and their confirmations | component |
| `RemoteNodesProofs` | theorems about it | proofs |
| `UnconfirmedPool` | pool, memory and balance holds through blocks | component |
| `FoldTheorems` | induction for sets, and what a fold computes | proofs |
| `UnconfirmedPoolProofs` | theorems about it | proofs |
| `Alias` | the alias transactions over two instances of `VersionedTable` | composition |
| `AliasProofs` | theorems about it | proofs |
| `MC...` | the small instances TLC checks | |

### VersionedTable and SnapshotStore

`version[k][h]` is the row of key `k` and height `h`, `latest[k]` the heights of
the rows that carry the flag. `Insert`, `Delete`, `Rollback`, `Trim` and
`Truncate` are the methods of the same names; `Get` is the two queries of
`EntityDbTable.get`. `UPDATE ... LIMIT 1` clears one flag only, which would be a
mistake if two rows were ever flagged: that none is, is `LatestIsNewest`. A trim
commits in batches, so `Trim` takes the set of keys already thinned and of keys
whose tombstones are purged; the code thins all keys before it purges tombstones.

A tombstone still holds the fields of the deleted entity. If its key comes back
and the blocks since the deletion are popped off, `rollback` flags the tombstone
and the deleted entity is alive again. Most tables are safe from this: their keys
never come back, or an entity is deleted only when its fields are all zero, so
that its tombstone reads as nothing. The constant `Reused` names the keys that
follow neither rule; with `Reused = {}` the table implements `SnapshotStore`
(the refinement maps every height that can still be read to what `Get` answers
there). The table `alias_offer` follows neither rule, see below.

### BlockchainProcessor

A step is what one commit makes durable. `phase` is what the thread that holds
the write lock is doing; `applied` is the sequence of blocks whose effects the
tables hold, `exact` whether no rollback missed rows that a trim had removed.
`PopOffTo` ... `PoppedOff` is `popOffTo`, `CutBlock` and `Cut` are
`popOffWithRescan`, `BeginFullScan` ... `ScanDone` is `scan`, `StartTrim` and
`Trim` the background trim, which sets the trim height before it has the lock.
A trim goes table by table and takes the read lock anew for each, so `Trim` may be
one of several steps of the same trim with blocks in between. `Crash` forgets
memory at any point; `Restart` is `addGenesisBlock` and the scan that an
unfinished one, or `wcg.forceScan`, calls for. A trim asked for through the API
while one runs in the background is one task here; a trim that throws and the
full scan that shuts the node down afterwards are not modelled.

### UnconfirmedPool

`chain` holds the transactions of every block, `ledger[h + 1]` the account table
as of height `h`, `pool` the pool table with the height of every row; `cache`,
`waiting`, `duplicates` are the memory of the same names in the code. A step is
one database transaction under the write lock; the sweep of the waiting
transactions, and a forger whose block failed, keep others out in between
(`unswept`, `culprits`). `FindExpired` happens before the lock is taken. Which
transactions are valid at present and which have expired is left open, and so is
which of too many waiting ones the queue drops. After a `Restart` the duplicates are
unknown until `Rebroadcast`, which only a node that is online and no light client
does by itself. A rollback to the last block (`PopOff(Height, ...)` after a failure,
`PartialRescan(Height + 1)`) moves no row but clears `duplicates` like any other.
Not in the model: the rebroadcasting that is timed, prunable parts, phased transactions, hallmarks of time.

### Alias

`PushBlock`, `AcceptBlock` and `PopOffTo` with at most one alias transaction per
block (all five share a duplicate key), validated as of the block before. The two
tables are instances of `VersionedTable`, written through its `Insert`, `Delete`
and `Rollback`. `Replayed(h)` is the reference: the state a node computes that
runs the blocks of the chain and nothing else.

### ReadWriteUpdateLock and LockContract

The class comment promises: many readers, one updater beside them, a writer alone,
and writing only from there. `LockContract` says so of who holds what.
`ReadWriteUpdateLock` is the code: the counts of each thread, `MutexFree` for the
`ReentrantLock`, and the read/write lock with its queue. Taking the write lock is
two steps, `GrantMutex` and `GrantShared`, and giving it back is two more, so other
threads get in between; `pc` says where in `lock()` a thread waits. The JDK's locks
are external: a reader goes ahead of the queue unless a writer heads it, as the
non-fair `ReentrantReadWriteLock` does. The exceptions that `lock` throws for a
reader who asks for more are the guards of `LockUpdate` and `LockWrite`.

### BlockchainDownload

A chain is represented by its last block in a fixed tree of blocks. `Ask`,
`Compare` and `Check` run without a lock and other threads move the chain between
them (`OthersMoveTip`); `Lock` takes the update lock and compares the claim once
more. `Fetch`, `AddBlock` and `EndOfBlocks` are `downloadBlockchain`; `PopMine`,
`PushFork`, the three `Judge...` and `PutBack` are `processFork`, one step per
block; `Consult` is the loop over the other peers, which may start another
download from the peer that disagrees. A download cut short, a peer that answers
nothing, a block that `pushBlock` refuses (`Doubtful`), a peer that moves to
another chain and a trim may come at any time. `PoppedTo`, `Popped` and `Lost` say what `popOffTo` does
on either side of `MinRollbackHeight`: below it, blocks are deleted down to the
height asked for, and none is returned; the rescan that follows trims again from the
genesis block on and so sets `lastTrimHeight` to what a chain that short allows
(`PopOff`). `held`, `seen`, `requeued` and `dropped`
record what happened since the lock was taken and only properties read them.
The bytes of blocks and the ids of blocks in answers are not modelled: peers do not lie about which
blocks are in their chain.

### RemoteNodes

A step is one callback of the page's single thread. `Start`, `ConfiguredAnswers`,
`Ignored`, `Rejected`, `Accepted` are `initRemoteNodesMgr`, `addBootstrapNode` and
the callback of `addBootstrapNodes`; `FindMoreNodes` and `PeersFound` the discovery;
`Send`, `Fails`, `Aborts`, `Answered` a request from `processAjaxRequest` to its
handlers; `ConfirmResponse`, `Confirms`, `Rejects`, `Errs` the confirmations. An
entry of the registry is an object; discovery replaces it while callbacks hold the
old one, so a reference is an address with a serial number. `accepted`, `resting`,
`overtaken`, `asked` and `errors` are there for the properties only.

## 3. What the runs check

| Run | Instance | Shows |
|---|---|---|
| `table` | 1 key, 2 entities, 5 heights | `LatestIsNewest`, `NoFutureRow`, and `ImplementsSnapshots`: the refinement |
| `processor_crash` | 2 blocks, 4 heights, 2 crashes, no trims | `Consistent`, `Recoverable`, `ScanFlagCleared`, `ComesBackUnlessStuck` |
| `scan_stuck` | the same | `ComesBack` fails |
| `processor_trim` | 2 blocks, 4 heights, `MaxRollback` 1, trims and rescans at any time, 1 crash | `RowsKept`, `EffectsKept` |
| `trim_restart` | 2 blocks, 6 heights, trims, full rescans, 1 crash | `RollbackSupported` fails |
| `pool` | 2 accounts, 3 transactions, 2 in memory, 2 blocks | holds, spending, single confirmation, memory |
| `pool_full_rescan` | the same | `CachedIsKept` fails |
| `alias_owner` | 2 accounts, 2 ids, 5 blocks | `OwnerAsReplayed` |
| `alias_offer` | the same, 4 blocks | `OfferAsReplayed` fails |
| `lock` | 3 threads | `WriterIsAlone`, `NoCircle`, `UpdaterNeverQueues`, `ImplementsContract`: the refinement, `WriterServed`, `WriterNotOvertaken` |
| `download` | 2 peers, a tree of forks, 3 moves of others | `NeverWeaker`, `ShallowFork`, `TransactionsKept`, `CatchesUp` |
| `remote_nodes` | 3 nodes, one unusable, 2 requests, 2 reports | `BlacklistKept`, `AnswersCounted`, `RejectionShows`, `BootstrapSettles`, `RightBlame` |

Bounds, and why they are enough. Keys of a table do not influence each other, so
one is enough; five heights allow insert, delete, insert, a trim in between and a
rollback to each of them. Two blocks tell a chain from another of the same
length; four heights hold a rescan interrupted twice, and, with `MaxRollback = 1`
and a trim at every second block, two trims one above the other with blocks on top,
popped off again or rescanned after a crash; six hold the same with
`MaxRollback = 2`. In the pool, one account can pay for either of its
transactions but not for both, two transactions are duplicates of each other, one
carries a deposit, and the queue is smaller than the set of transactions. Two
accounts, one price and two ids are enough for an alias to change hands, be sold
to anyone or to one, be deleted and be registered under another id. Deadlock is
not checked in these runs: a chain at its bound may have nothing left to do.

Three threads are a writer, a thread in its way and one that comes after both; no
rule of the lock is about a fourth. The tree of `download` has nine blocks: the
node's own chain, a shorter one that is stronger, and one whose first blocks are
weaker, so that a fork delivered in part is weaker and one delivered whole is not.
With `MaxFork = MaxRollback = 3` and four heights, forks lie inside, on and beyond
the limit and on both sides of the trim height. `MaxMoves = 3` counts what peers,
other threads and failures do together, and three are needed for the longest case
known: a chain moved between comparison and lock, an answer cut short, a block
refused. In `remote_nodes` three nodes with `bootstrap_nodes_count` up to 2 have
the last bootstrap answer accepted or rejected in every order, two requests overlap,
and a second report displaces the first. The state constraint `Explored` keeps these apart
where they do not meet: requests overlap while there is no report, since a report
reads of the requests only whether `remoteNode` is set; and discovery replaces no
entry once there are two reports, since an old object makes no difference to how
votes are counted. Deadlock is not checked there because a stranded bootstrap is
one; `BootstrapSettles` is about it. `lock` and `download` check it.

`processor_trim` constrains nothing: trims are asked for at any time, also between
the deletions of blocks, rescans start at any height, and the node is killed at any
commit. On such a node `Consistent` and `RollbackSupported` fail, since a rollback
to a height is exact only if nothing was trimmed above it, and the code judges that
by `lastTrimHeight`, which may lie below what was trimmed: after a restart, which
forgets it; after a trim asked for through the API, or one that starts late, on a
chain that got shorter; after one asked for on a node with
`wcg.trimDerivedTables=false`, which takes every height for one it can roll back to;
and while a rescan that starts above the genesis block trims
at lower heights again. `wcg-default.properties` (435-438) promises the rollback
without any such condition. What the run shows is that this is all there is to it:

* `RowsKept`: in every behaviour in which nothing is ever trimmed above what
  `getMinRollbackHeight` answers, at the moments when popping off or rescanning
  relies on it (`Remembered`), no rollback misses a row, whatever is popped off,
  rescanned or trimmed in between and whenever the node is killed.
* `EffectsKept`: with the height forgotten or lowered the tables may lack old rows,
  but they still have the effects of exactly the blocks of the chain whenever the
  write lock is free. One exception is named, `Resumable`, and it is a flaw of the
  code: `scan(h)` records `h` (line 1974) before it finds that `h` lies below the
  trim height and scans from the genesis block instead ("not supported, will do a
  full scan"). Killed in the middle, the node is restarted with the flag for `h`:
  if fewer than `h - 1` blocks had been applied by then, and the trim height, which
  is forgotten, does not forbid it, the scan goes on from `h` and leaves out the blocks
  between; if the rescan had failed and was deleting blocks, it may even be found
  unnecessary. The changelog (3064-3067) says that an interrupted rescan is triggered
  again until it completes.

`trim_restart` shows the first of the causes: trims are asked for at rising heights
(`TrimsRise`) and nobody rescans from above the genesis block (`FullRescansOnly`),
so that the restart alone is to blame. The other causes have no run of their own.
`processor_crash` runs with `NoTrims`, on a node configured not to trim, where
`Consistent` holds as it stands.

Fairness. `Spec` of `BlockchainProcessor` assumes weak fairness of `Proceed`: the
thread that holds the write lock goes on, and a node that is down is started
again. The code justifies it: the loops of `popOffTo`, `popOffWithRescan` and
`scan` wait for nothing but the database, and the scan is started before any
other thread. Nothing is assumed of pushes, requests, trims, crashes, or of the
operator who sets `wcg.forceScan` (`Restart(TRUE)`). Crashes are bounded, which
`ComesBackUnlessStuck` needs: a node killed for ever does not come back.

`FairSpec` of `ReadWriteUpdateLock` says that the JDK wakes the head of its queue
when it can go on, that a thread past the mutex calls the next lock, and that a
reader, however often it takes the lock again, gives it back at some time (strong fairness of
the last release, for between two of them it may be disabled). Nothing is assumed
of the mutex, which is not fair: `WriterServed` starts where a writer has it.
`FairSpec` of `BlockchainDownload` says that the thread goes on, as each of its
requests ends in an answer or a timeout and `while (true)` starts it again; that
peers come back; and that every peer that could be asked again and again is asked
at some time, since `getWeightedPeer` picks at random. `FairSpec` of `RemoteNodes`
says that the requests of the bootstrap end, as they time out after 30 seconds.

### Where the code and its documentation part

* `trim_restart`: `lastTrimHeight` starts at 0 after a restart, and
  `getMinRollbackHeight` then computes a height from the last block that may lie
  below what was trimmed. A trim at height 1000, blocks popped off, a restart, and
  the tables can be rolled back past what they hold.
* `scan_stuck`: `scan` takes a height up to that of the next block for valid, but
  there is no block to start at, and it throws after the scan flag is committed.
  If the node restarts at that height the scan throws again, and the node does
  not start. The flag gets there by a request for a rescan, or by a crash while a
  partial rescan that failed at its first block deletes the blocks.
* `pool_full_rescan`: a rescan from the genesis block truncates the pool table
  with the other tables and does not requeue its transactions; the cache goes on
  offering them. A later push of a block clears the cache and they are gone.
* `alias_offer`: sell, buy, sell again by the buyer, and pop off the last block:
  the first owner's offer is back, on this node only.

Some properties of the passing runs hold only because they name an exception, and
the exception is what the code does (for `RowsKept` and `EffectsKept` see above):

* `NeverWeaker`: when the common block lies below the trim height, `popOffTo`
  deletes the blocks above that height and returns none. `processFork` then has
  nothing to put back, and the node may be left with a weaker chain.
* `TransactionsKept`: a block of the node's own that is refused when it is put
  back stops the loop, and the transactions of it and of the blocks after it are
  not given to `processLater` as those of a losing fork are.
* `BootstrapSettles`: when the last bootstrap answer is a rejection and some but
  not enough nodes were accepted, or `bootstrap_nodes_count` is 0, the promise is never
  settled and the wallet waits for ever.
* `RightBlame`: the log message of a failing request calls `getRemoteNodeUrl`,
  which picks a new node if another failure has just given up the old one; the
  next statements blacklist that new node, which was never asked.
* `AnswersCounted`: the node to compare an answer with is read when the answer is
  there. If it was given up meanwhile, the callback throws before it counts a
  rejection.

`BlockchainDownload` shows two more things that `processFork` and the checks under
the lock make harmless: the second opinion compares the difficulty that the first
peer claimed (line 344 reads `response`, not `otherPeerResponse`), so a weaker
chain may be downloaded from another peer and is turned down only then; and the
depth of the fork is checked before the lock. In `RemoteNodes`, `Sample` has a node confirm
its own answer, since the result of `concat` is dropped; discovery ends for good
when all nodes are blacklisted at the moment it looks for one; and a node that is
blacklisted through an object that discovery has replaced is not blacklisted at all.

The model also shows that a push that fails after the pool was requeued leaves
the pool's transactions out of the cache and out of `unconfirmedDuplicates`
(`PushFails`), as do a restart and a rollback to the last block for the second
(`KeysRemembered` names these exceptions), and that filling the cache
from the table does not look at `maxUnconfirmedTransactions` (`FillCache`).

## 4. What is proved

`VersionedTableProofs`, for every set of keys and entities, every set `Reused`
and every height bound, from the two assumptions of `VersionedTable`
(`MaxHeightAssumption`; `ValuesAssumption`: the mark of a missing row is not an
entity):

* `TypeCorrect`, `LatestRowIsNewest`, `NoRowAboveTheChain`: the invariants of the
  run. None is inductive alone: rollback flags the newest row that is left and so
  needs that the flag was on the newest one, and an insertion at the current
  height gives the newest row only if no row lies above it. Their conjunction
  `Inv` is inductive, action by action.
* `KeptRefinement`: what is read of the keys outside `Reused` implements the
  snapshot store, whatever is done to the other ones; `Refinement`: with
  `Reused = {}`, `Spec => ImplementsSnapshots`. The argument
  goes through `Found(k, h)`, the row both queries select (`Selected`): one lemma
  per action says how it changes what is read at each known height
  (`InsertReads`, `DeleteReads`, `RollbackReads`, `TrimReads`, ...), and
  `RefineStep` assembles the abstract step from them. The contract on deleted keys
  is used in one place, `PastReads`: a row written over a tombstone makes the
  tombstone readable at the heights below. What `alias_offer` shows is
  therefore confined to the keys written again, never their neighbours.

`BlockchainProcessorProofs`, for every set of blocks and every bound, from
`ConfigurationAssumption`:

* `TypeCorrect`: `TypeOK` in every behaviour, trims and crashes included. It needs
  `Lengths`, which says phase by phase how the height in memory, the length of
  the block table and the number of applied blocks go together: otherwise a
  rescan could read past the last block or apply more than the chain holds.
* `ConsistentCorrect`, `RecoverableCorrect`, `ScanFlagClearedCorrect`: the three
  properties of `processor_crash`, under `NeverTrims` (a node configured not to
  trim that nobody asks to). The inductive invariant adds to `Lengths`: tables
  and chain never differ at a height both have (`Agree`); either no effects are
  missing, or a rescan is recorded that starts no later than the first that is
  (`Flagged`), which is what a restart relies on; and what a phase knows of flag
  and heights (`Underway`). There is one lemma per group of actions (`PushInv`,
  `PopInv`, `ScanInv`, `OtherInv`) with one step per action.
* `EffectsKeptCorrect`: `EffectsKept` with trims, crashes and rescans from any
  height and nothing assumed of them. What the forgotten trim height of
  `trim_restart` costs is therefore rows that a rollback needs (`exact`), never a
  block. The inductive invariant `Ordered` says in which phases the rescan flag is
  set, and that it stands for every effect that is missing. `EffectsFollowBlocks` is
  the same without the exception, for a node on which nobody asks for a rescan from
  above the genesis block (`FullRescansOnly`): then every scan is due from there.
* `RowsKeptCorrect`: `RowsKept`. The invariant `Kept` follows the rows through the
  commits of an operation and across a crash: `Remembered` is only assumed where the
  code reads the trim height, so what an operation decided by it must still hold when
  the tables are rolled back, several commits or a restart later. A rescan from
  the genesis block makes good what was missed, and `Kept` says when one is due.
* `RecoverableWithTrims`, `ScanFlagClearedWithTrims`: `Recoverable` on a node that
  trims needs both conditions, `ScanFlagCleared` only `Resumable`.
* `OperationsEnd`, the safety core of `ComesBackUnlessStuck`: every step of an
  operation or of a restart that succeeds lowers (`Survivors`, `Stage`,
  `RoundsLeft`), compared one after the other. The first is what makes rescans end
  that fail and start again: each failure deletes a block.

`ReadWriteUpdateLockProofs`, for every set of threads and every bound on nested
holds, from `BoundAssumption`:

* `TypeCorrect`, `Exclusion` (`WriterIsAlone`), `UpdaterReads`
  (`UpdaterNeverQueues`), `NoDeadlock` (`NoCircle`). The inductive invariant says
  what a thread holds at each place of `lock()` and `unlock()`, that one thread at
  most holds the mutex and every writer does, that a reader excludes writers, and
  that the queue is without repetition and holds exactly the threads that wait for
  the read/write lock. `NoCircle` follows: in
  a set of threads that all wait, none holds the read/write lock; if some of them
  are in its queue, the first of these waits for nobody in the set; if none is,
  nobody in the set holds the mutex either.
* `NoOvertaking` (`WriterNotOvertaken`), the safety core of `WriterServed`: nobody
  gets ahead of a writer in the queue, and once it is first nobody new takes the
  read/write lock. For readers that is the rule of the JDK's lock; for writers,
  whom that lock would let in, it is the mutex (`Exclusive`, `Backed`).
* `Refinement`: `Spec => ImplementsContract`. What the code holds on the way to or
  from the write lock counts as nothing held (`ForWriting`), so that taking the
  write lock is one step of the contract, the one that obtains the second lock.

`BlockchainDownloadProofs`, for every tree of blocks, any number of peers and
every bound, from `ChainAssumption` (how a chain grows by one block),
`DifficultyAssumption` (a block adds difficulty) and `BoundAssumption`:

* Lemmas about chains. The assumptions speak of a block and its parent; that a
  chain has one block per height, that those below a block are its chain
  (`Sound`), that two chains have a highest block in common and that `popOffTo`
  keeps, returns or loses each block (`PopsOff`) is shown for every block, by way
  of a lowest block that would not comply.
* `TypeCorrect` needs that Genesis, which has no parent, is never fetched, popped
  off or put back.
* `NeverWeakerCorrect` and `TransactionsKeptCorrect` follow from `Saved`. Between
  `popMine` and `putBack` the chain is weaker and its transactions are nowhere;
  what is invariant then (`Undone`) is that `mine`, with what was deleted, stands in
  for the chain found: its last block is as strong, and its blocks hold what is
  missing.
* `ShallowForkCorrect`. The common block is looked up and checked before the
  lock, so it may be gone when the download starts. If it is in the chain that was
  found, it never leaves the chain, and neither does what processFork goes back to
  (`OnChain`). If it is not, nothing that was fetched fits on the chain, nothing
  is pushed, and the chain is only cut when it is less than `MaxFork` longer than
  the common block (`OffChain`).
* `OfferObtained` and `LockGivenBack`, the safety cores of `CatchesUp`. In
  behaviours in which nothing gets in the way of a download between the answer of
  its peer and the last block (`Undisturbed`; the lock may wait, and trims and
  peers do as they like), it ends with a chain at least as strong as the one
  offered, or it deleted blocks of its own. The invariant `Obtaining` follows the
  blocks that were asked for through every stage: in the answer, on top of the
  chain, set aside as a fork, traded for the node's own blocks. And in every
  behaviour, each step that keeps the lock leaves fewer peers to ask, or reaches a
  later stage, or leaves fewer blocks in it (`Closer`).

`RemoteNodesProofs`, for any nodes, any number of requests and reports and every
bound, from `BoundAssumption`: the five safety properties of the run
`remote_nodes`, and `AnswersSettle`.

* `BlacklistKeptCorrect`, `RightBlameCorrect` rest on `NetInv`: only objects of the
  registry are blacklisted (`Registered`), and all requests that no failure has
  overtaken went to one node (`Requests`).
* `AnswersSettle` is what safety can say for `BootstrapSettles`: when every node
  that was tried has answered, the promise is settled or the case is one of
  `Stranded`. Its invariant `Decides` says that the counters add up to the answers.
* `TypeCorrect`, `AnswersCountedCorrect`, `RejectionShowsCorrect` rest on `Books`:
  in each report every node that was asked has one vote or is still due
  (`Balanced`), and a report not made yet has no answers (`Fresh`). The votes of
  all reports are added up by a recursive function, which `UpTo` reaches.

`UnconfirmedPoolProofs`, for every finite set of transactions, any accounts,
amounts, fees and deposits, and every bound, from `TxAssumption`,
`AccountAssumption` and `BoundAssumption`: all nine properties of the run `pool`.

* `HoldsMatchPoolCorrect`, `NoDoubleSpendingCorrect`, `BalancesFollowChainCorrect`
  rest on the inductive invariant `Books`. Neither of the first two is inductive:
  popping off goes back to an older account table, so each of them must be known
  to be without holds (`Settled`), and a rescan must know that every table is the
  one below it with a block applied (`Applied`). A block is applied to an empty
  pool, so that what it spends was held in the pool or is affordable.
* `ConfirmedOnceCorrect`, `PoolIsCurrentCorrect`: `Inv`. A pop-off brings a
  transaction back to the queue, never to the pool, and the pool is emptied first.
* `TypeCorrect`, by `MemoryTyped`: the sweep looks only at what still waits.
* `NothingLostCorrect`, `CacheInPoolCorrect`, `KeysRememberedCorrect` are action
  properties; each has one step per action. The last needs `Inv`: a rollback below
  the last block, which clears the keys, leaves no row in the pool, one to the last
  block leaves them all (`NothingToMove`).
* `CacheFollowsPool`: the failure of `pool_full_rescan` has one cause. As long as
  no rescan from the genesis block meets a pool that is not empty (`PoolSpared`),
  every transaction of the cache is in the pool and is offered with reason.

Balances, holds and the length of the queue are sums, which the model computes
with `MapThenSumSet`. That is a recursive function over the subsets of a set, and
what it computes takes induction, which the library states for predicates. The
lemmas of `FoldTheorems` state it for sets instead (`SubsetInduction`, `UpTo`): if
some subset did not comply, there would be a smallest one (`LeastOf`). From them
`UnconfirmedPoolProofs` shows that a total does not depend on the order of its
terms (`TotalTakesOut`), splits over parts (`TotalSplits`) and grows with its
terms; `Reapplied` says the same way what a scan makes of any number of blocks.

`AliasProofs`, for every set of accounts, prices and ids and every height bound,
from `HeightAssumption` and `AbsenceAssumption` (the marks of a missing entity, id
or row are none of them):

* `TypeCorrect` and `OwnerCorrect` (`OwnerAsReplayed`) instantiate
  `VersionedTableProofs` for both tables (`AP`, `OP`). An alias never comes back
  under an id that was deleted: the row of an id is no older than the transaction
  that created the alias (`Created`), and no two blocks of a chain have one id
  (`Blocks`). So the table of aliases obeys the contract on deleted keys, and what
  is read of it changes as `InsertReads`, `DeleteReads` and `RollbackReads` say.
  `PastSteps` says what `Replayed` makes of one more block. `alias_offer` does not
  obey the contract, which is why `OfferAsReplayed` fails in `alias_offer`.
* `OfferWhenSoldOnce`: nothing else makes it fail. As long as no offer is written
  over the tombstone of an earlier one (`SoldOnce`), offers are read at every
  height as a replay of the chain reads them (`OfferReads`), through every pop-off.

Only model-checked: liveness (`ComesBackUnlessStuck`, `WriterServed`, `CatchesUp`,
`BootstrapSettles`), which the prover cannot reach. What is proved of each is its
safety core: `OperationsEnd`; `NoOvertaking`; `OfferObtained` and `LockGivenBack`;
`AnswersSettle`. What TLC adds is that fairness then gets there: that the measures,
which are proved to fall, reach their end.

## 5. Not modelled

* Phasing and account control: a hold then outlives the block, and finishing a
  transaction early involves votes, linked transactions and control in one
  block; `UnconfirmedPool` would need holds across blocks. Shufflings, digital
  goods, currencies, polls and leases are sequential transactions like those of
  `Alias`; what is hard about them, undoing blocks, is `VersionedTable`. Order
  matching and dividends are arithmetic inside one block.
* Value tables: `VersionedTable` with a list in place of a row.
* Listeners that call back into the processor (the checksum listener pops blocks
  off inside a scan), a trim that throws, prunable data, and interest payments,
  whose tables are updated by listeners.
* Forging: the choice of the forger is arithmetic on hits. That a forger pushes or
  pops a block is a step of other modules.
* In the download: peers that send other blocks than they announced, a
  `RuntimeException` from `pushBlock` inside `processFork`, and the debugging
  property `simulateEndlessDownload`.
* In the wallet: the desktop client's list of nodes, signing, and the check of
  transaction bytes. The pages and forms keep no state but what they show, and
  `mobile/platforms/ios` holds copies of the same files.
* Parsing and formatting of bytes and JSON, cryptography, HTTP, database schema
  and tools: data rather than control, or beyond the sizes a model checker can
  reach.
