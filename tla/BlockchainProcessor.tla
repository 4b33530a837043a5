------------------------- MODULE BlockchainProcessor -------------------------
(***************************************************************************)
(* How wcg/BlockchainProcessorImpl keeps the derived tables in step with   *)
(* the block table while blocks are pushed, popped and rescanned, tables   *)
(* are trimmed in the background, and the node is killed at any commit.    *)
(*                                                                         *)
(* A step is what one database commit makes durable.  Pushing a block is   *)
(* one commit.  Popping blocks commits the deletion of every block, and    *)
(* the rollback of the tables only at the end.  A rescan commits the       *)
(* truncation of the tables and then every block it applies.               *)
(*                                                                         *)
(* The tables are represented by the blocks whose effects they hold; what  *)
(* a rollback or a trim does to their rows is the subject of               *)
(* VersionedTable, of whose contract this module is the caller.            *)
(***************************************************************************)
EXTENDS Integers, Sequences

CONSTANTS
    Block,          \* Blocks that can be pushed on top of a chain.
    MaxHeight,      \* Bound on the height of the chain.
    MaxRollback,    \* Constants.MAX_ROLLBACK
    TrimFrequency,  \* wcg.trimFrequency
    TrimTables,     \* wcg.trimDerivedTables
    MaxCrashes      \* Bound on the number of crashes.

ASSUME ConfigurationAssumption ==
    /\ MaxHeight \in Nat /\ MaxRollback \in Nat /\ MaxCrashes \in Nat
    /\ TrimFrequency \in Nat \ {0}
    /\ TrimTables \in BOOLEAN

VARIABLES
    (* In the database *)
    blocks,         \* The block table above the genesis block.
    applied,        \* The blocks whose effects are in the derived tables.
    trimmed,        \* Highest height the tables were trimmed to.
    exact,          \* The tables hold exactly the effects of applied.
    scanTable,      \* The row of table scan: is a rescan due, and from where.
    (* In memory *)
    tip,            \* blockchain.getHeight()
    lastTrimHeight,
    trimTask,       \* The background trim: "none", "queued" or "trimming".
    phase,          \* What the thread with the write lock is doing.
    target,         \* Height it deletes blocks down to, or rescans from.
    crashes         \* Number of crashes so far.

durable == <<blocks, applied, trimmed, exact, scanTable>>
memory == <<tip, lastTrimHeight, trimTask, phase, target>>
vars == <<durable, memory, crashes>>

Heights == 0..MaxHeight

Phases == {"idle",       \* The write lock is free.
           "popping",    \* popOffTo
           "cutting",    \* popOffWithRescan, deleting blocks
           "resetting",  \* fullReset, deleting all blocks
           "scanDue",    \* About to scan from target.
           "scanning",
           "scanFailed", \* Deleting the blocks that could not be applied.
           "down"}

TypeOK ==
    /\ blocks \in Seq(Block) /\ Len(blocks) <= MaxHeight
    /\ applied \in Seq(Block) /\ Len(applied) <= MaxHeight
    /\ trimmed \in Heights
    /\ exact \in BOOLEAN
    /\ scanTable \in [rescan : BOOLEAN, height : 0..MaxHeight + 2]
    /\ tip \in Heights
    /\ lastTrimHeight \in Heights
    /\ trimTask \in {"none", "queued", "trimming"}
    /\ phase \in Phases
    /\ target \in 0..MaxHeight + 2
    /\ crashes \in 0..MaxCrashes

-----------------------------------------------------------------------------
(* Helpers *)

Larger(m, n) == IF m >= n THEN m ELSE n

DropLast(s) == SubSeq(s, 1, Len(s) - 1)

NoScan == [rescan |-> FALSE, height |-> 0]
ScanFrom(h) == [rescan |-> TRUE, height |-> h]

\* The height a trim would trim to at height h; 0 means there is nothing to do.
TrimHeight(h) == Larger(h - MaxRollback, 0)

MinRollbackHeight ==
    IF ~TrimTables THEN 0
    ELSE IF lastTrimHeight > 0 THEN lastTrimHeight
    ELSE TrimHeight(tip)

\* Every derived table is rolled back to height h; this is exact only if no
\* trim went past h + 1.
RollbackTables(h) ==
    /\ applied' = IF h < Len(applied) THEN SubSeq(applied, 1, h) ELSE applied
    /\ exact' = (exact /\ (h < Len(applied) => trimmed <= h + 1))

\* The BLOCK_PUSHED listener queues a trim unless one is under way.
QueueTrim(h) ==
    trimTask' = IF TrimTables /\ h % TrimFrequency = 0 /\ trimTask = "none"
                THEN "queued" ELSE trimTask

-----------------------------------------------------------------------------
Init ==
    /\ blocks = <<>> /\ applied = <<>>
    /\ trimmed = 0 /\ exact = TRUE
    /\ scanTable = NoScan
    /\ tip = 0 /\ lastTrimHeight = 0
    /\ trimTask = "none"
    /\ phase = "idle" /\ target = 0
    /\ crashes = 0

(* Pushing *)

\* A valid block: saved and applied in one transaction.  A block that is not
\* accepted leaves no trace here, its transaction is rolled back.
PushBlock(b) ==
    /\ phase = "idle"
    /\ Len(blocks) < MaxHeight
    /\ blocks' = Append(blocks, b)
    /\ applied' = Append(applied, b)
    /\ tip' = tip + 1
    /\ QueueTrim(tip')
    /\ UNCHANGED <<trimmed, exact, scanTable, lastTrimHeight, phase, target, crashes>>

(* Popping *)

\* MUTANT: takes any height for one that the tables can be rolled back to.
PopOffToAnyHeight(h) ==
    /\ phase = "idle"
    /\ h < tip
    /\ target' = h
    /\ phase' = "popping"
    /\ UNCHANGED <<blocks, applied, trimmed, exact, scanTable, tip, lastTrimHeight, trimTask, crashes>>

\* popOffTo(h): a fork, a better last block, a failed checksum or the popOff
\* API.  Below the trim height the blocks are cut off and the rest rescanned.
PopOffTo(h) ==
    /\ phase = "idle"
    /\ h < tip
    /\ target' = h
    /\ IF h < MinRollbackHeight
         THEN phase' = "cutting" /\ scanTable' = ScanFrom(0)
         ELSE phase' = "popping" /\ UNCHANGED scanTable
    /\ UNCHANGED <<blocks, applied, trimmed, exact, tip, lastTrimHeight, trimTask, crashes>>

\* MUTANT: does not stop at the common block.
PopLastBlockUnbounded ==
    /\ phase = "popping"
    /\ blocks' = DropLast(blocks)
    /\ tip' = tip - 1
    /\ UNCHANGED <<applied, trimmed, exact, scanTable, lastTrimHeight, trimTask,
                   phase, target, crashes>>

\* deleteBlocksFrom commits after every block, before the tables follow.
PopLastBlock ==
    /\ phase = "popping"
    /\ Len(blocks) > target
    /\ blocks' = DropLast(blocks)
    /\ tip' = tip - 1
    /\ UNCHANGED <<applied, trimmed, exact, scanTable, lastTrimHeight, trimTask,
                   phase, target, crashes>>

PoppedOff ==
    /\ phase = "popping"
    /\ Len(blocks) = target
    /\ RollbackTables(target)
    /\ phase' = "idle"
    /\ UNCHANGED <<blocks, trimmed, scanTable, tip, lastTrimHeight, trimTask, target, crashes>>

\* MUTANT: the exception is not followed by a rollback of the tables.
PopOffFailsHalfway ==
    /\ phase = "popping"
    /\ Len(blocks) > target
    /\ phase' = "idle"
    /\ UNCHANGED <<durable, tip, lastTrimHeight, trimTask, target, crashes>>

\* Deleting a block or rolling back a table throws: the tables are rolled back
\* to the last block that is left.
PopOffFails ==
    /\ phase = "popping"
    /\ Len(blocks) > target
    /\ target' = Len(blocks)
    /\ UNCHANGED <<durable, tip, lastTrimHeight, trimTask, phase, crashes>>

\* popOffWithRescan.
CutBlock ==
    /\ phase = "cutting"
    /\ Len(blocks) > target
    /\ blocks' = DropLast(blocks)
    /\ UNCHANGED <<applied, trimmed, exact, scanTable, tip, lastTrimHeight, trimTask,
                   phase, target, crashes>>

Cut ==
    /\ phase = "cutting"
    /\ Len(blocks) = target
    /\ tip' = Len(blocks)
    /\ phase' = "scanDue" /\ target' = 0
    /\ UNCHANGED <<durable, lastTrimHeight, trimTask, crashes>>

\* fullReset: popOffTo(0) or the fullReset API.
FullReset ==
    /\ phase = "idle"
    /\ scanTable' = ScanFrom(0)
    /\ phase' = "resetting"
    /\ UNCHANGED <<blocks, applied, trimmed, exact, tip, lastTrimHeight, trimTask,
                   target, crashes>>

DeleteAll ==
    /\ phase = "resetting"
    /\ blocks' = <<>>
    /\ tip' = 0
    /\ phase' = "scanDue" /\ target' = 0
    /\ UNCHANGED <<applied, trimmed, exact, scanTable, lastTrimHeight, trimTask, crashes>>

(* Rescanning *)

\* scan(h, validate) from the API.  The flag is committed with the first step.
RequestScan(h) ==
    /\ phase = "idle"
    /\ phase' = "scanDue" /\ target' = h
    /\ UNCHANGED <<durable, tip, lastTrimHeight, trimTask, crashes>>

NoScanNeeded ==
    /\ phase = "scanDue"
    /\ target > tip + 1 /\ target >= MinRollbackHeight
    /\ scanTable' = NoScan
    /\ phase' = "idle"
    /\ UNCHANGED <<blocks, applied, trimmed, exact, tip, lastTrimHeight, trimTask,
                   target, crashes>>

\* The tables are truncated and the genesis block is applied; its BLOCK_SCANNED
\* listener sets the trim height anew.
BeginFullScan ==
    /\ phase = "scanDue"
    /\ target = 0 \/ target < MinRollbackHeight
    /\ scanTable' = ScanFrom(target)
    /\ applied' = <<>> /\ trimmed' = 0 /\ exact' = TRUE
    /\ tip' = 0
    /\ lastTrimHeight' = IF TrimTables THEN 0 ELSE lastTrimHeight
    /\ phase' = "scanning"
    /\ UNCHANGED <<blocks, trimTask, target, crashes>>

\* MUTANT: the tables are rolled back before the rescan is recorded.
BeginPartialScanUnscheduled ==
    /\ phase = "scanDue"
    /\ target \in Larger(MinRollbackHeight, 1)..tip
    /\ RollbackTables(target - 1)
    /\ tip' = target - 1
    /\ phase' = "scanning"
    /\ UNCHANGED <<blocks, trimmed, scanTable, lastTrimHeight, trimTask, target, crashes>>

\* MUTANT: no rescan of the last block alone.
BeginPartialScanOffByOne ==
    /\ phase = "scanDue"
    /\ target \in Larger(MinRollbackHeight, 1)..tip - 1
    /\ scanTable' = ScanFrom(target)
    /\ RollbackTables(target - 1)
    /\ tip' = target - 1
    /\ phase' = "scanning"
    /\ UNCHANGED <<blocks, trimmed, lastTrimHeight, trimTask, target, crashes>>

BeginPartialScan ==
    /\ phase = "scanDue"
    /\ target \in Larger(MinRollbackHeight, 1)..tip
    /\ scanTable' = ScanFrom(target)
    /\ RollbackTables(target - 1)
    /\ tip' = target - 1
    /\ phase' = "scanning"
    /\ UNCHANGED <<blocks, trimmed, lastTrimHeight, trimTask, target, crashes>>

\* There is no block at the height of the next one: after the flag is committed
\* findBlockAtHeight throws, which leaves the flag behind.
ScanThrows ==
    /\ phase = "scanDue"
    /\ target = tip + 1 /\ target >= MinRollbackHeight
    /\ scanTable' = ScanFrom(target)
    /\ RollbackTables(tip)
    /\ phase' = "idle"
    /\ UNCHANGED <<blocks, trimmed, tip, lastTrimHeight, trimTask, target, crashes>>

\* The next block is applied; the BLOCK_SCANNED listener trims on the spot.
ScanBlock ==
    /\ phase = "scanning"
    /\ tip < Len(blocks)
    /\ applied' = Append(applied, blocks[tip + 1])
    /\ tip' = tip + 1
    /\ IF TrimTables /\ tip' % TrimFrequency = 0
         THEN /\ lastTrimHeight' = TrimHeight(tip')
              /\ trimmed' = Larger(trimmed, lastTrimHeight')
         ELSE UNCHANGED <<lastTrimHeight, trimmed>>
    /\ UNCHANGED <<blocks, exact, scanTable, trimTask, phase, target, crashes>>

\* The next block cannot be applied: it and all later ones are deleted.
ScanFails ==
    /\ phase = "scanning"
    /\ tip < Len(blocks)
    /\ target' = tip
    /\ phase' = "scanFailed"
    /\ UNCHANGED <<durable, tip, lastTrimHeight, trimTask, crashes>>

DropUnscanned ==
    /\ phase = "scanFailed"
    /\ Len(blocks) > target
    /\ blocks' = DropLast(blocks)
    /\ UNCHANGED <<applied, trimmed, exact, scanTable, tip, lastTrimHeight, trimTask,
                   phase, target, crashes>>

\* popOffTo(lastBlock): below the last trim height it scans all over again.
ScanAborted ==
    /\ phase = "scanFailed"
    /\ Len(blocks) = target
    /\ IF tip < MinRollbackHeight
         THEN /\ phase' = "scanDue" /\ target' = 0
              /\ UNCHANGED <<applied, exact, scanTable>>
         ELSE /\ phase' = "idle" /\ scanTable' = NoScan
              /\ RollbackTables(tip)
              /\ UNCHANGED target
    /\ UNCHANGED <<blocks, trimmed, tip, lastTrimHeight, trimTask, crashes>>

\* MUTANT: stops after a batch of blocks.
ScanDoneEarly ==
    /\ phase = "scanning"
    /\ scanTable' = NoScan
    /\ phase' = "idle"
    /\ UNCHANGED <<blocks, applied, trimmed, exact, tip, lastTrimHeight, trimTask,
                   target, crashes>>

ScanDone ==
    /\ phase = "scanning"
    /\ tip = Len(blocks)
    /\ scanTable' = NoScan
    /\ phase' = "idle"
    /\ UNCHANGED <<blocks, applied, trimmed, exact, tip, lastTrimHeight, trimTask,
                   target, crashes>>

(* Trimming in the background *)

\* trimDerivedTables from the API.
RequestTrim ==
    /\ trimTask = "none" /\ phase # "down"
    /\ trimTask' = "queued"
    /\ UNCHANGED <<durable, tip, lastTrimHeight, phase, target, crashes>>

\* The trim height is set without any lock, even while blocks are popped.
StartTrim ==
    /\ trimTask = "queued"
    /\ lastTrimHeight' = TrimHeight(tip)
    /\ trimTask' = IF lastTrimHeight' > 0 THEN "trimming" ELSE "none"
    /\ UNCHANGED <<durable, tip, phase, target, crashes>>

\* The next table is trimmed under the read lock, to what is the trim height by
\* now.  Blocks may come and go before the one after it.
Trim ==
    /\ trimTask = "trimming"
    /\ phase = "idle"
    /\ trimmed' = Larger(trimmed, lastTrimHeight)
    /\ trimTask' \in {"trimming", "none"}
    /\ UNCHANGED <<blocks, applied, exact, scanTable, tip, lastTrimHeight,
                   phase, target, crashes>>

(* Crash and restart *)

\* Everything committed survives, what is in memory is lost.
Crash ==
    /\ phase # "down"
    /\ crashes < MaxCrashes
    /\ crashes' = crashes + 1
    /\ phase' = "down"
    /\ tip' = 0 /\ lastTrimHeight' = 0 /\ trimTask' = "none" /\ target' = 0
    /\ UNCHANGED durable

\* The rescan that is due starts at a height where there is no block.
Stuck == scanTable.rescan /\ scanTable.height = Len(blocks) + 1

\* addGenesisBlock pops off to the last block in the database, then a rescan
\* that did not finish is started again, or a full one if wcg.forceScan is set.
Restart(force) ==
    /\ phase = "down"
    /\ force \/ ~Stuck
    /\ tip' = Len(blocks)
    /\ RollbackTables(Len(blocks))
    /\ phase' = IF force \/ scanTable.rescan THEN "scanDue" ELSE "idle"
    /\ target' = IF force THEN 0 ELSE scanTable.height
    /\ UNCHANGED <<blocks, trimmed, scanTable, lastTrimHeight, trimTask, crashes>>

\* The scan throws, which ends the start of the node.
RestartFails ==
    /\ phase = "down"
    /\ Stuck
    /\ RollbackTables(Len(blocks))
    /\ UNCHANGED <<blocks, trimmed, scanTable, memory, crashes>>

-----------------------------------------------------------------------------
\* The thread with the write lock, or the starting node, goes on.
Proceed ==
    \/ PopLastBlock \/ PoppedOff
    \/ CutBlock \/ Cut \/ DeleteAll
    \/ NoScanNeeded \/ BeginFullScan \/ BeginPartialScan \/ ScanThrows
    \/ ScanBlock \/ ScanDone
    \/ DropUnscanned \/ ScanAborted
    \/ Restart(FALSE) \/ RestartFails

Next ==
    \/ \E b \in Block : PushBlock(b)
    \/ \E h \in Heights : PopOffTo(h)
    \/ FullReset
    \/ \E h \in 0..MaxHeight + 2 : RequestScan(h)
    \/ Proceed
    \/ PopOffFails \/ ScanFails
    \/ RequestTrim \/ StartTrim \/ Trim
    \/ Crash \/ Restart(TRUE)

\* An operation that has begun, and a restart, are carried through.
Spec == Init /\ [][Next]_vars /\ WF_vars(Proceed)

\* Nobody asks for a trim.
NoTrims == trimTask' = "none"

\* Trims are requested at rising heights only, and start before a block is popped.
TrimsRise ==
    /\ trimTask = "none" /\ trimTask' = "queued" =>
           tip' >= Larger(lastTrimHeight, trimmed) + MaxRollback
    /\ trimTask = "queued" /\ trimTask' = "queued" => tip' >= tip

\* Nobody asks for a rescan that starts above the genesis block.
FullRescansOnly ==
    phase = "idle" /\ phase' = "scanDue" => target' = 0

-----------------------------------------------------------------------------
(* Properties *)

\* Whenever the write lock is free, the derived tables hold exactly the
\* effects of the blocks in the block table, in memory and on disk.
Consistent == phase = "idle" => applied = blocks /\ exact /\ tip = Len(blocks)

\* Unless a rescan is flagged, no block is in the table without its effects,
\* and the rows that bring the tables back to the last block are still there:
\* a node killed at any commit can be restarted without a rescan.
Recoverable ==
    ~scanTable.rescan =>
        /\ exact
        /\ Len(blocks) <= Len(applied)
        /\ blocks = SubSeq(applied, 1, Len(blocks))
        /\ Len(blocks) < Len(applied) => trimmed <= Len(blocks) + 1

\* What popOffTo and scan take for granted when they compare a height with the
\* trim height: that nothing was trimmed above it.  The code does not ensure it,
\* a restart, a late trim of a shorter chain or a rescan lowers the trim height.
Remembered ==
    phase = "idle" \/ (phase = "scanDue" /\ target > 0) => trimmed <= MinRollbackHeight

\* While they are right about that, no rollback misses a row, whatever is popped
\* off, rescanned or trimmed meanwhile and whenever the node is killed.
RowsKept == []Remembered => [](phase = "idle" => exact)

\* A rescan is due from a height up to which the effects are there.  The code
\* ensures it but for one case: a rescan from below the trim height, recorded
\* with that height but run from the genesis block, and killed on the way.
Resumable ==
    phase = "scanDue" => target <= Len(applied) + 1 \/ applied = blocks

\* Otherwise the tables have the effects of the blocks, in their order, whenever
\* the write lock is free: a forgotten trim may cost rows, never a block.
EffectsKept == []Resumable => [](phase = "idle" => applied = blocks /\ tip = Len(blocks))

\* A rollback of up to MaxRollback blocks that is done on the rows of the tables
\* finds the rows it needs.  The documentation of wcg.trimDerivedTables promises it.
RollbackSupported ==
    phase = "idle" =>
        \A h \in Heights :
            h < tip /\ h >= Larger(tip - MaxRollback, MinRollbackHeight) => trimmed <= h + 1

\* A rescan flagged in the database is cleared only when the tables match.
ScanFlagCleared ==
    [][scanTable.rescan /\ ~scanTable'.rescan => applied' = blocks']_vars

\* A node that went down comes back to work.
ComesBack == (phase = "down") ~> (phase = "idle")

\* It does, unless it died with a rescan due from the height of the next block.
ComesBackUnlessStuck ==
    (phase = "down") ~> (phase = "idle" \/ (phase = "down" /\ Stuck))
=============================================================================
