-------------------------- MODULE BlockchainDownload --------------------------
(***************************************************************************)
(* How wcg/BlockchainProcessorImpl follows its peers: getMoreBlocksThread  *)
(* asks a peer for a better chain, finds the last block in common without  *)
(* a lock, downloads the blocks after it under the update lock, and adds   *)
(* them under the write lock.  When they do not extend the node's own      *)
(* chain, processFork undoes that one and keeps whichever is stronger.     *)
(*                                                                         *)
(* Until the update lock is taken, other threads push, replace and pop the *)
(* last block; peers change their chain at any time, and the trim thread   *)
(* moves lastTrimHeight at any time.  A chain is represented by its last   *)
(* block, and what it took to validate a block by whether it is Doubtful.  *)
(***************************************************************************)
EXTENDS Integers, Sequences, FiniteSets

CONSTANTS
    Block, Genesis,
    Parent,         \* getPreviousBlockId() of the blocks but Genesis
    Chain,          \* The blocks of the chain that ends with a block.
    Height,
    Difficulty,     \* getCumulativeDifficulty()
    Timestamp,
    Doubtful,       \* Blocks that pushBlock may refuse.
    Peer,
    PeerTip,        \* The last blocks of the chains that peers may have.
    MaxFork,        \* 720, the blocks that a download may undo or ask for
    SegSize,        \* 36, the blocks in one request
    ConfirmAfter,   \* 10, the new blocks that need no second opinion
    Confirmations,  \* wcg.numberOfForkConfirmations
    MaxRollback,    \* Constants.MAX_ROLLBACK
    TrimFrequency,  \* wcg.trimFrequency
    MaxMoves        \* Bound on what other threads and peers do, failures included.

ASSUME ChainAssumption ==
    /\ Genesis \in Block /\ Parent \in [Block \ {Genesis} -> Block]
    /\ Chain \in [Block -> SUBSET Block] /\ Height \in [Block -> Nat]
    /\ Chain[Genesis] = {Genesis} /\ Height[Genesis] = 0
    /\ \A b \in Block \ {Genesis} :
           Chain[b] = Chain[Parent[b]] \cup {b} /\ Height[b] = Height[Parent[b]] + 1
    /\ \A b \in Block : \A c \in Chain[b] : Height[c] <= Height[b]

ASSUME DifficultyAssumption ==
    /\ Difficulty \in [Block -> Nat] /\ Timestamp \in [Block -> Nat]
    /\ \A b \in Block \ {Genesis} : Difficulty[Parent[b]] < Difficulty[b]

ASSUME BoundAssumption ==
    /\ PeerTip \subseteq Block /\ Doubtful \subseteq Block
    /\ {SegSize, ConfirmAfter, Confirmations, MaxMoves} \subseteq Nat
    /\ MaxRollback \in Nat /\ MaxFork \in 1..MaxRollback
    /\ TrimFrequency \in Nat \ {0}

VARIABLES
    tip,            \* blockchain.getLastBlock()
    lastTrimHeight,
    (* The peers *)
    peerTip,        \* The last block of every peer.
    connected,      \* The peers that are connected and not blacklisted.
    moves,          \* What they did so far.
    (* downloadPeer *)
    pc,
    feeder, peers,  \* The peer asked first, and connectedPublicPeers.
    claim,          \* betterCumulativeDifficulty
    common, ids,    \* commonBlock, and the blocks of chainBlockIds after it.
    asked,          \* The other peers asked for a second opinion.
    confirmations,
    (* downloadBlockchain and processFork *)
    source, base,   \* Their parameters feederPeer and commonBlock.
    rest,           \* The blocks the loop under way has still to look at.
    fork,           \* forkBlocks
    mine,           \* myPoppedOffBlocks, lowest first
    strongest,      \* curCumulativeDifficulty
    pushed,         \* pushedForkBlocks > 0
    (* What happened since the lock was taken, for the properties *)
    held,           \* The last block at that time.
    seen,           \* Every block that was in the chain.
    requeued,       \* The blocks whose transactions went to processLater.
    dropped         \* Blocks deleted by a rescan, or refused when put back.

node == <<tip, lastTrimHeight>>
session == <<feeder, peers, claim, common, ids, asked, confirmations, source, base>>
loops == <<rest, fork, mine, strongest, pushed>>
history == <<held, seen, requeued, dropped>>
vars == <<node, peerTip, connected, moves, pc, session, loops, history>>

Unlocked == {"idle",      \* downloadPeer is not running.
             "compare",   \* Has asked for the cumulative difficulty.
             "check",     \* Has the ids after the last common block.
             "lock"}      \* About to take the update lock.
Locked == {"fetch",       \* About to request blocks.
           "add",         \* Adding the blocks, under the write lock up to "putBack".
           "popMine", "pushFork", "judge", "putBack",
           "consult"}     \* About to ask the next peer for a second opinion.

TypeOK ==
    /\ tip \in Block /\ lastTrimHeight \in Nat
    /\ peerTip \in [Peer -> Block] /\ connected \subseteq Peer /\ moves \in 0..MaxMoves
    /\ pc \in Unlocked \cup Locked
    /\ feeder \in Peer /\ peers \subseteq Peer /\ claim \in Nat
    /\ common \in Block /\ ids \in Seq(Block)
    /\ asked \subseteq Peer /\ confirmations \in Nat
    /\ source \in Peer /\ base \in Block
    /\ rest \in Seq(Block) /\ fork \in Seq(Block) /\ mine \in Seq(Block)
    /\ strongest \in Nat /\ pushed \in BOOLEAN
    /\ held \in Block /\ seen \subseteq Block /\ requeued \subseteq Block /\ dropped \subseteq Block

-----------------------------------------------------------------------------
(* Chains *)

Larger(m, n) == IF m >= n THEN m ELSE n
Smaller(m, n) == IF m <= n THEN m ELSE n

Elements(s) == {s[i] : i \in DOMAIN s}

At(b, h) == CHOOSE c \in Chain[b] : Height[c] = h

\* The blocks after c up to b, lowest first.
Between(c, b) == [i \in 1..(Height[b] - Height[c]) |-> At(b, Height[c] + i)]

First(n, s) == SubSeq(s, 1, Smaller(n, Len(s)))

\* The last block that two chains have in common.
Meet(a, b) == CHOOSE m \in Chain[a] \cap Chain[b] :
                  \A c \in Chain[a] \cap Chain[b] : Height[c] <= Height[m]

\* The trim height that a trim at height h sets.
TrimHeight(h) == Larger(h - MaxRollback, 0)

MinRollbackHeight ==
    IF lastTrimHeight > 0 THEN lastTrimHeight ELSE TrimHeight(Height[tip])

\* popOffTo(b) returns what it popped.  Below MinRollbackHeight it deletes the
\* blocks above that height instead, whoever's they are, and returns nothing.
Cuts(b) == Height[b] < MinRollbackHeight

PoppedTo(b) ==
    IF Cuts(b) THEN At(tip, Smaller(Height[b], Height[tip]))
    ELSE IF b \in Chain[tip] THEN b ELSE tip

Popped(b) == IF ~Cuts(b) /\ b \in Chain[tip] THEN Between(b, tip) ELSE <<>>

Lost(b) == IF Cuts(b) THEN Chain[tip] \ Chain[PoppedTo(b)] ELSE {}

\* MUTANT: the rescan leaves the trim height as it was.
PopOffStale(b) ==
    /\ tip' = PoppedTo(b) /\ dropped' = dropped \cup Lost(b)
    /\ UNCHANGED lastTrimHeight

\* popOffTo(b).  Deleting blocks is followed by a rescan of those that are left,
\* which trims at every TrimFrequency-th of them, the genesis block included.
PopOff(b) ==
    /\ tip' = PoppedTo(b) /\ dropped' = dropped \cup Lost(b)
    /\ IF Cuts(b)
         THEN lastTrimHeight' = TrimHeight(Height[tip'] - (Height[tip'] % TrimFrequency))
         ELSE UNCHANGED lastTrimHeight

-----------------------------------------------------------------------------
EndSession ==
    /\ peers' = {} /\ claim' = 0 /\ common' = Genesis /\ ids' = <<>>
    /\ asked' = {} /\ confirmations' = 0 /\ base' = Genesis
    /\ rest' = <<>> /\ fork' = <<>> /\ mine' = <<>> /\ strongest' = 0 /\ pushed' = FALSE
    /\ held' = Genesis /\ seen' = {} /\ requeued' = {} /\ dropped' = {}

Init ==
    /\ tip = Genesis /\ lastTrimHeight = 0
    /\ peerTip \in [Peer -> PeerTip] /\ connected = Peer /\ moves = 0
    /\ pc = "idle"
    /\ feeder \in Peer /\ source = feeder
    /\ peers = {} /\ claim = 0 /\ common = Genesis /\ ids = <<>>
    /\ asked = {} /\ confirmations = 0 /\ base = Genesis
    /\ rest = <<>> /\ fork = <<>> /\ mine = <<>> /\ strongest = 0 /\ pushed = FALSE
    /\ held = Genesis /\ seen = {} /\ requeued = {} /\ dropped = {}

Goes(place) == pc' = place

(* downloadPeer, before the lock *)

Ask(p) ==
    /\ pc = "idle" /\ p \in connected /\ Cardinality(connected) > Confirmations
    /\ Difficulty[peerTip[p]] > Difficulty[tip]
    /\ feeder' = p /\ peers' = connected /\ claim' = Difficulty[peerTip[p]]
    /\ Goes("compare")
    /\ UNCHANGED <<node, peerTip, connected, moves, loops, history>>
    /\ UNCHANGED <<common, ids, asked, confirmations, source, base>>

\* getCommonMilestoneBlockId and getBlockIdsAfterCommon
Compare ==
    /\ pc = "compare"
    /\ LET m == Meet(tip, peerTip[feeder])
       IN  /\ m # peerTip[feeder]
           /\ common' = m
           /\ ids' = First(MaxFork - 1, Between(m, peerTip[feeder]))
    /\ Goes("check")
    /\ UNCHANGED <<node, peerTip, connected, moves, loops, history>>
    /\ UNCHANGED <<feeder, peers, claim, asked, confirmations, source, base>>

Check ==
    /\ pc = "check"
    /\ common \in Chain[tip] /\ Height[tip] - Height[common] < MaxFork
    /\ Goes("lock")
    /\ UNCHANGED <<node, peerTip, connected, moves, session, loops, history>>

\* A move of a peer, a failure, or a step of another thread.
Moves == moves < MaxMoves /\ moves' = moves + 1

\* The early returns: no answer, nothing new, too far from the common block,
\* or a claim that the chain has caught up with.
GiveUp ==
    /\ \/ pc = "compare" /\ Moves
       \/ pc = "compare" /\ peerTip[feeder] \in Chain[tip] /\ UNCHANGED moves
       \/ /\ pc = "check" /\ ~(common \in Chain[tip] /\ Height[tip] - Height[common] < MaxFork)
          /\ UNCHANGED moves
       \/ pc = "lock" /\ claim <= Difficulty[tip] /\ UNCHANGED moves
    /\ Goes("idle")
    /\ EndSession
    /\ UNCHANGED <<node, peerTip, connected, feeder, source>>

Lock ==
    /\ pc = "lock"
    /\ claim > Difficulty[tip]
    /\ source' = feeder /\ base' = common
    /\ Goes("fetch")
    /\ held' = tip /\ seen' = Chain[tip] /\ requeued' = {} /\ dropped' = {}
    /\ UNCHANGED <<node, peerTip, connected, moves, loops>>
    /\ UNCHANGED <<feeder, peers, claim, common, ids, asked, confirmations>>

(* downloadBlockchain *)

\* Peers may send fewer blocks than asked for, and the slowest, or one that
\* does not answer, is disconnected.
Fetch ==
    /\ pc = "fetch"
    /\ \/ rest' = ids /\ UNCHANGED <<connected, moves>>
       \/ /\ Moves
          /\ \E n \in 0..Len(ids) : rest' = First(n, ids)
          /\ \E gone \in {{}} \cup {{q} : q \in peers} : connected' = connected \ gone
    /\ fork' = <<>>
    /\ Goes("add")
    /\ UNCHANGED <<node, peerTip, session, history, mine, strongest, pushed>>

\* The peer that sent a block: the first segment comes from the feeder.
Senders(b) == IF Height[b] - Height[base] <= SegSize THEN {source} ELSE peers \cup {source}

Push(b) == /\ tip' = b /\ seen' = seen \cup {b}
           /\ UNCHANGED <<connected, moves>>

Refuse(b, q) == /\ b \in Doubtful /\ Moves
                /\ connected' = connected \ {q}       \* blacklist
                /\ UNCHANGED <<tip, seen>>

\* MUTANT: the chain is taken to be as short as it was before the lock.
RoomUnchecked == TRUE

Room == Height[tip] - Height[common] < MaxFork

AddBlock ==
    /\ pc = "add" /\ rest # <<>> /\ Room
    /\ LET b == Head(rest)
       IN  \/ /\ Parent[b] = tip
              /\ Push(b) \/ \E q \in Senders(b) : Refuse(b, q)
              /\ UNCHANGED fork
           \/ /\ Parent[b] # tip
              /\ fork' = Append(fork, b)
              /\ UNCHANGED <<tip, seen, connected, moves>>
    /\ rest' = Tail(rest)
    /\ UNCHANGED <<lastTrimHeight, peerTip, pc, session, mine, strongest, pushed>>
    /\ UNCHANGED <<held, requeued, dropped>>

EndOfBlocks ==
    /\ pc = "add" /\ (rest = <<>> \/ ~Room)
    /\ Goes(IF fork # <<>> /\ Room THEN "popMine" ELSE "consult")
    /\ UNCHANGED <<node, peerTip, connected, moves, session, loops, history>>

(* processFork *)

\* Deleting the blocks above a height the chain does not reach throws.
PopMine ==
    /\ pc = "popMine"
    /\ strongest' = Difficulty[tip]
    /\ PopOff(base) /\ mine' = Popped(base)
    /\ rest' = fork /\ pushed' = FALSE
    /\ IF Cuts(base) /\ Height[base] >= Height[tip]
       THEN Goes("consult") /\ asked' = peers
       ELSE Goes("pushFork") /\ UNCHANGED asked
    /\ UNCHANGED <<peerTip, connected, moves, fork, held, seen, requeued>>
    /\ UNCHANGED <<feeder, peers, claim, common, ids, confirmations, source, base>>

\* Blocks that do not extend the chain are passed over.
PushFork ==
    /\ pc = "pushFork" /\ rest # <<>>
    /\ tip = base \/ pushed
    /\ LET b == Head(rest)
       IN  \/ /\ Parent[b] = tip
              /\ \/ Push(b) /\ pushed' = TRUE /\ rest' = Tail(rest)
                 \/ Refuse(b, source) /\ rest' = <<>> /\ UNCHANGED pushed
           \/ /\ Parent[b] # tip
              /\ rest' = Tail(rest)
              /\ UNCHANGED <<tip, seen, connected, moves, pushed>>
    /\ UNCHANGED <<lastTrimHeight, peerTip, pc, session, fork, mine, strongest>>
    /\ UNCHANGED <<held, requeued, dropped>>

EndOfFork ==
    /\ pc = "pushFork"
    /\ rest = <<>> \/ ~(tip = base \/ pushed)
    /\ Goes("judge")
    /\ UNCHANGED <<node, peerTip, connected, moves, session, loops, history>>

\* MUTANT: what was pushed is always kept.
JudgeKeeps ==
    /\ pc = "judge" /\ pushed
    /\ requeued' = requeued \cup Elements(mine)
    /\ Goes("consult")
    /\ UNCHANGED <<node, peerTip, connected, moves, session, loops, held, seen, dropped>>

JudgeWeaker ==
    /\ pc = "judge" /\ pushed /\ Difficulty[tip] < strongest
    /\ connected' = connected \ {source}              \* blacklist
    /\ PopOff(base)
    /\ requeued' = requeued \cup Elements(Popped(base))
    /\ pushed' = FALSE
    /\ Goes("putBack")
    /\ UNCHANGED <<peerTip, moves, session, rest, fork, mine, strongest, held, seen>>

\* MUTANT: the transactions of the undone blocks are forgotten.
JudgeForgets ==
    /\ pc = "judge" /\ pushed /\ Difficulty[tip] >= strongest
    /\ Goes("consult")
    /\ UNCHANGED <<node, peerTip, connected, moves, session, loops, history>>

JudgeStronger ==
    /\ pc = "judge" /\ pushed /\ Difficulty[tip] >= strongest
    /\ requeued' = requeued \cup Elements(mine)
    /\ Goes("consult")
    /\ UNCHANGED <<node, peerTip, connected, moves, session, loops, held, seen, dropped>>

JudgeNothing ==
    /\ pc = "judge" /\ ~pushed
    /\ Goes("putBack")
    /\ UNCHANGED <<node, peerTip, connected, moves, session, loops, history>>

PutBack ==
    /\ pc = "putBack" /\ mine # <<>>
    /\ \/ /\ Parent[Head(mine)] = tip
          /\ Push(Head(mine))
          /\ mine' = Tail(mine)
          /\ UNCHANGED dropped
       \/ /\ IF Parent[Head(mine)] = tip THEN Head(mine) \in Doubtful /\ Moves
                                    ELSE UNCHANGED moves
          /\ dropped' = dropped \cup Elements(mine)
          /\ mine' = <<>>
          /\ UNCHANGED <<tip, seen, connected>>
    /\ UNCHANGED <<lastTrimHeight, peerTip, pc, session, rest, fork, strongest, pushed>>
    /\ UNCHANGED <<held, requeued>>

EndOfPutBack ==
    /\ pc = "putBack" /\ mine = <<>>
    /\ Goes("consult")
    /\ UNCHANGED <<node, peerTip, connected, moves, session, loops, history>>

(* downloadPeer, the second opinion *)

Undecided ==
    /\ asked = {} => Height[tip] - Height[common] > ConfirmAfter
    /\ confirmations < Confirmations

\* The peer has the chain's last block, or it has nothing to tell, or the
\* blocks that it has are requested.  The difficulty compared is the one that
\* the first peer claimed.
Consult(q) ==
    /\ pc = "consult" /\ Undecided /\ q \in peers \ (asked \cup {feeder})
    /\ asked' = asked \cup {q}
    /\ LET last == At(peerTip[q], Smaller(Height[peerTip[q]], Height[common] + MaxFork))
           m == Meet(tip, last)
           follows == common \in Chain[tip] \cap (Chain[peerTip[q]] \ {peerTip[q]})
       IN  \/ UNCHANGED <<pc, source, base, ids, confirmations>>
           \/ /\ follows /\ m = tip
              /\ confirmations' = confirmations + 1
              /\ UNCHANGED <<pc, source, base, ids>>
           \/ /\ follows /\ m # tip
              /\ Height[tip] - Height[m] < MaxFork /\ claim > Difficulty[tip]
              /\ source' = q /\ base' = m /\ ids' = First(MaxFork - 1, Between(m, last))
              /\ Goes("fetch")
              /\ UNCHANGED confirmations
    /\ UNCHANGED <<node, peerTip, connected, moves, loops, history, feeder, peers, claim, common>>

\* getBlock answers null if the common block is gone, and the loop ends with an
\* exception.
Unlock ==
    /\ pc = "consult"
    /\ ~Undecided \/ peers \subseteq asked \cup {feeder} \/ common \notin Chain[tip]
    /\ Goes("idle")
    /\ EndSession
    /\ UNCHANGED <<node, peerTip, connected, moves, feeder, source>>

-----------------------------------------------------------------------------
(* The other threads and the peers *)

\* processPeerBlock pushes or replaces the last block, and Generator pushes
\* one, or pops one that is late: with the lock, so not during a download.
OthersMoveTip ==
    /\ pc \in Unlocked /\ Moves
    /\ \/ \E b \in Block \ {Genesis} :
             /\ tip' = b
             /\ \/ Parent[b] = tip
                \/ tip # Genesis /\ Parent[b] = Parent[tip] /\ Timestamp[b] < Timestamp[tip]
       \/ tip # Genesis /\ tip' = Parent[tip]
    /\ UNCHANGED <<lastTrimHeight, peerTip, connected, pc, session, loops, history>>

\* MUTANT: a short chain gives a negative height.
TrimBelowZero ==
    /\ lastTrimHeight' = Height[tip] - MaxRollback
    /\ UNCHANGED <<tip, peerTip, connected, moves, pc, session, loops, history>>

\* doTrimDerivedTables reads the height without a lock.
Trim ==
    /\ lastTrimHeight' = TrimHeight(Height[tip])
    /\ UNCHANGED <<tip, peerTip, connected, moves, pc, session, loops, history>>

PeerMoves(p) ==
    /\ Moves
    /\ \E b \in PeerTip : peerTip' = [peerTip EXCEPT ![p] = b]
    /\ UNCHANGED <<node, connected, pc, session, loops, history>>

\* A peer connects, or its time on the blacklist is over.
Return(p) ==
    /\ connected' = connected \cup {p}
    /\ UNCHANGED <<node, peerTip, moves, pc, session, loops, history>>

-----------------------------------------------------------------------------
Thread ==
    \/ Compare \/ Check \/ Lock \/ Fetch \/ AddBlock \/ EndOfBlocks
    \/ PopMine \/ PushFork \/ EndOfFork \/ JudgeWeaker \/ JudgeStronger \/ JudgeNothing
    \/ PutBack \/ EndOfPutBack \/ (\E q \in Peer : Consult(q)) \/ Unlock

Next ==
    \/ \E p \in Peer : Ask(p) \/ PeerMoves(p) \/ Return(p)
    \/ Thread \/ GiveUp \/ OthersMoveTip \/ Trim

Spec == Init /\ [][Next]_vars

\* The thread goes on, as every request ends in an answer or a timeout, and
\* peers come back.  Peers.getWeightedPeer picks at random, and so picks each
\* of them again and again.
Fairness ==
    /\ WF_vars(Thread \/ GiveUp)
    /\ \A p \in Peer : WF_vars(Return(p)) /\ SF_vars(Ask(p))

FairSpec == Spec /\ Fairness

-----------------------------------------------------------------------------
(* Properties *)

\* A download never leaves the node with a weaker chain than it found, unless
\* it deleted a block as strong as that for good.
NeverWeaker ==
    pc = "consult" =>
        \/ Difficulty[tip] >= Difficulty[held]
        \/ \E b \in dropped : Difficulty[b] >= Difficulty[held]

\* A download undoes fewer than MaxFork of the blocks it found, also when the
\* chain grew between the check of the common block and the lock.
ShallowFork ==
    pc \in Locked => Height[held] - Height[Meet(tip, held)] < MaxFork

\* The transactions of every block that was in the chain, if only for a
\* moment, are in the chain or go back to the pool; only the blocks that a
\* rescan deletes, or that are refused when they are put back, take theirs along.
TransactionsKept ==
    pc = "consult" => seen \subseteq Chain[tip] \cup requeued \cup dropped

\* The peer has blocks within reach that make a stronger chain.
Ahead(p) ==
    LET m == Meet(tip, peerTip[p])
        got == First(MaxFork - 1, Between(m, peerTip[p]))
    IN  /\ Height[tip] - Height[m] < MaxFork
        /\ got # <<>> /\ Difficulty[got[Len(got)]] > Difficulty[tip]

\* Once the peers and the other threads are quiet, the node catches up with
\* every peer within reach, although it may have to delete blocks of its own and
\* rescan to make room for a fork; and whatever happens, it gives the lock back.
CatchesUp ==
    /\ []<>(pc = "idle")
    /\ \A p \in Peer : <>[](pc = "idle" => ~Ahead(p))
=============================================================================
