----------------------- MODULE BlockchainDownloadProofs -----------------------
(***************************************************************************)
(* What BlockchainDownload.tla checks on a tree of nine blocks, proved for *)
(* every tree of blocks, any number of peers and any bound: types, that a  *)
(* download never weakens the chain, bounds what it undoes and keeps the   *)
(* transactions of the blocks that were in the chain.  And two facts that  *)
(* its liveness rests on: what it obtains when nothing gets in its way,    *)
(* and that every step brings it closer to its end.                        *)
(***************************************************************************)
EXTENDS BlockchainDownload, SequenceTheorems, WellFoundedInduction, TLAPS

-----------------------------------------------------------------------------
(* Chains.  The assumptions say how a chain grows by one block; what follows *)
(* for whole chains is shown for a lowest block that would not comply.       *)

\* A chain has one block at each height, and those below a block are its chain.
Sound(b) ==
    /\ \A h \in 0..Height[b] : \E c \in Chain[b] : Height[c] = h
    /\ \A c, d \in Chain[b] : Height[c] = Height[d] => c = d
    /\ \A c, d \in Chain[b] : Height[d] <= Height[c] => d \in Chain[c]
    /\ \A c \in Chain[b] : Chain[c] \subseteq Chain[b]

LEMMA SmallestHeight ==
    ASSUME NEW T \in SUBSET Nat, T # {}
    PROVE  \E i \in T : \A j \in T : i <= j
<1>1. PICK i \in T : \A j \in T : ~(<<j, i>> \in OpToRel(<, Nat))
  BY NatLessThanWellFounded, WFMin
<1>2. \A j \in T : ~(j < i)
  BY <1>1 DEF OpToRel
<1> QED
  BY <1>2

LEMMA OneMoreBlock ==
    ASSUME NEW b \in Block \ {Genesis}, Sound(Parent[b])
    PROVE  Sound(b)
<1> DEFINE p == Parent[b]
<1>1. p \in Block /\ Chain[b] = Chain[p] \cup {b} /\ Height[b] = Height[p] + 1
  BY ChainAssumption
<1>2. Height[p] \in Nat /\ Chain[p] \subseteq Block /\ \A c \in Chain[p] : Height[c] \in Nat /\ Height[c] <= Height[p]
  BY <1>1, ChainAssumption
<1> HIDE DEF p
<1>3. \A h \in 0..Height[b] : \E c \in Chain[b] : Height[c] = h
  <2> SUFFICES ASSUME NEW h \in 0..Height[b] PROVE \E c \in Chain[b] : Height[c] = h
    OBVIOUS
  <2>1. CASE h = Height[b]
    BY <1>1, <2>1
  <2>2. CASE h # Height[b]
    <3>1. h \in 0..Height[p]
      BY <1>1, <1>2, <2>2
    <3> QED
      BY <1>1, <3>1 DEF Sound, p
  <2> QED
    BY <2>1, <2>2
<1>4. \A c \in Chain[p] : Height[c] < Height[b]
  BY <1>1, <1>2
<1>5. \A c, d \in Chain[b] : Height[c] = Height[d] => c = d
  <2>1. \A c, d \in Chain[p] : Height[c] = Height[d] => c = d
    BY DEF Sound, p
  <2> QED
    BY <1>1, <1>2, <1>4, <2>1
<1>6. \A c, d \in Chain[b] : Height[d] <= Height[c] => d \in Chain[c]
  <2>1. \A c, d \in Chain[p] : Height[d] <= Height[c] => d \in Chain[c]
    BY DEF Sound, p
  <2>2. \A c \in Chain[p] : ~(Height[b] <= Height[c])
    BY <1>1, <1>2
  <2> QED
    BY <1>1, <2>1, <2>2
<1>7. \A c \in Chain[b] : Chain[c] \subseteq Chain[b]
  <2>1. \A c \in Chain[p] : Chain[c] \subseteq Chain[p]
    BY DEF Sound, p
  <2> QED
    BY <1>1, <2>1
<1> QED
  BY <1>3, <1>5, <1>6, <1>7 DEF Sound

LEMMA ChainsSound == \A b \in Block : Sound(b)
<1> DEFINE Bad == {b \in Block : ~Sound(b)}
           Heights == {Height[b] : b \in Bad}
<1> SUFFICES ASSUME Bad # {} PROVE FALSE
  OBVIOUS
<1>1. Heights \in SUBSET Nat /\ Heights # {}
  BY ChainAssumption
<1>2. PICK b \in Bad : \A c \in Bad : Height[b] <= Height[c]
  <2> HIDE DEF Heights
  <2>1. PICK h \in Heights : \A j \in Heights : h <= j
    BY <1>1, SmallestHeight
  <2> USE DEF Heights
  <2> QED
    BY <2>1
<1>3. CASE b = Genesis
  <2>1. Chain[b] = {Genesis} /\ Height[b] = 0
    BY <1>3, ChainAssumption
  <2>2. 0..Height[b] = {0}
    BY <2>1
  <2>3. Sound(b)
    BY <2>1, <2>2, <1>3 DEF Sound
  <2> QED
    BY <2>3
<1>4. CASE b # Genesis
  <2>1. Parent[b] \in Block /\ Height[Parent[b]] \in Nat /\ Height[b] = Height[Parent[b]] + 1
    BY <1>4, ChainAssumption
  <2>2. Parent[b] \notin Bad
    BY <1>2, <2>1
  <2> QED
    BY <1>4, <2>1, <2>2, OneMoreBlock
<1> QED
  BY <1>3, <1>4

\* The block of a chain at a height.
LEMMA AtHeight ==
    ASSUME NEW b \in Block, NEW h \in 0..Height[b]
    PROVE  At(b, h) \in Chain[b] /\ At(b, h) \in Block /\ Height[At(b, h)] = h
<1>1. \E c \in Chain[b] : Height[c] = h
  BY ChainsSound DEF Sound
<1>2. Chain[b] \subseteq Block
  BY ChainAssumption
<1> QED
  BY <1>1, <1>2 DEF At

LEMMA ChainMember ==
    ASSUME NEW b \in Block, NEW c \in Chain[b]
    PROVE  /\ c \in Block /\ Height[b] \in Nat /\ Height[c] \in 0..Height[b]
           /\ At(b, Height[c]) = c
           /\ Chain[c] \subseteq Chain[b]
<1>1. c \in Block /\ Height[b] \in Nat /\ Height[c] \in 0..Height[b]
  BY ChainAssumption
<1>2. At(b, Height[c]) \in Chain[b] /\ Height[At(b, Height[c])] = Height[c]
  BY <1>1, AtHeight
<1>3. At(b, Height[c]) = c
  BY <1>2, ChainsSound DEF Sound
<1>4. Chain[c] \subseteq Chain[b]
  BY ChainsSound DEF Sound
<1> QED
  BY <1>1, <1>3, <1>4

LEMMA OwnChain ==
    ASSUME NEW b \in Block
    PROVE  b \in Chain[b] /\ Chain[b] \subseteq Block /\ Height[b] \in Nat
  BY ChainAssumption

\* Only Genesis has height 0, and it is in every chain.
LEMMA GenesisOnly ==
    ASSUME NEW b \in Block
    PROVE  Genesis \in Chain[b] /\ (Height[b] = 0 => b = Genesis)
<1>1. \A c \in Block : Height[c] = 0 => c = Genesis
  <2> SUFFICES ASSUME NEW c \in Block, c # Genesis PROVE Height[c] # 0
    OBVIOUS
  <2>1. Parent[c] \in Block /\ Height[c] = Height[Parent[c]] + 1
    BY ChainAssumption
  <2>2. Height[Parent[c]] \in Nat
    BY <2>1, ChainAssumption
  <2> QED
    BY <2>1, <2>2
<1>2. 0 \in 0..Height[b]
  BY OwnChain
<1> QED
  BY <1>1, <1>2, AtHeight

\* A block extends its parent's chain, and is stronger.
LEMMA Extends ==
    ASSUME NEW b \in Block \ {Genesis}
    PROVE  /\ Parent[b] \in Block /\ Chain[b] = Chain[Parent[b]] \cup {b}
           /\ Height[b] = Height[Parent[b]] + 1
           /\ Difficulty[Parent[b]] < Difficulty[b]
           /\ Difficulty[Parent[b]] \in Nat /\ Difficulty[b] \in Nat
  BY ChainAssumption, DifficultyAssumption

LEMMA MeetIsHighest ==
    ASSUME NEW a \in Block, NEW b \in Block
    PROVE  /\ Meet(a, b) \in Chain[a] \cap Chain[b]
           /\ \A c \in Chain[a] \cap Chain[b] : Height[c] <= Height[Meet(a, b)]
<1> DEFINE Common == Chain[a] \cap Chain[b]
           Below == {Height[a] - Height[c] : c \in Common}
<1>1. Height[a] \in Nat /\ \A c \in Common : Height[c] \in Nat /\ Height[a] - Height[c] \in Nat
  <2>1. \A c \in Common : Height[c] \in 0..Height[a]
    BY ChainMember
  <2> QED
    BY <2>1, OwnChain
<1>2. Below \in SUBSET Nat /\ Below # {}
  BY <1>1, GenesisOnly
<1>3. PICK m \in Common : \A c \in Common : Height[a] - Height[m] <= Height[a] - Height[c]
  <2> HIDE DEF Below
  <2>1. PICK h \in Below : \A j \in Below : h <= j
    BY <1>2, SmallestHeight
  <2> USE DEF Below
  <2> QED
    BY <2>1
<1>4. \A c \in Common : Height[c] <= Height[m]
  BY <1>1, <1>3
<1> QED
  BY <1>3, <1>4 DEF Meet

Later == Block \ {Genesis}

LEMMA BlocksBetween ==
    ASSUME NEW b \in Block, NEW c \in Chain[b]
    PROVE  /\ Between(c, b) \in Seq(Later)
           /\ Len(Between(c, b)) = Height[b] - Height[c]
           /\ \A i \in 1..Len(Between(c, b)) : Between(c, b)[i] = At(b, Height[c] + i)
<1>1. Height[b] \in Nat /\ Height[c] \in 0..Height[b]
  BY ChainMember
<1> DEFINE n == Height[b] - Height[c]
<1>2. n \in Nat
  BY <1>1
<1>3. \A i \in 1..n : At(b, Height[c] + i) \in Later
  <2> TAKE i \in 1..n
  <2>1. Height[c] + i \in 0..Height[b] /\ Height[c] + i # 0
    BY <1>1
  <2>2. At(b, Height[c] + i) \in Block /\ Height[At(b, Height[c] + i)] # 0
    BY <2>1, AtHeight
  <2> QED
    BY <2>2, ChainAssumption DEF Later
<1>4. Between(c, b) = [i \in 1..n |-> At(b, Height[c] + i)]
  BY DEF Between
<1> HIDE DEF n
<1>5. Between(c, b) \in [1..n -> Later]
  BY <1>3, <1>4
<1>6. Between(c, b) \in Seq(Later) /\ Len(Between(c, b)) = n
  BY <1>2, <1>5
<1> QED
  BY <1>4, <1>6 DEF n

\* The first elements of a sequence are elements of it.
LEMMA FirstOf ==
    ASSUME NEW S, NEW s \in Seq(S), NEW n \in Int
    PROVE  First(n, s) \in Seq(S)
<1>1. Smaller(n, Len(s)) \in Int /\ Smaller(n, Len(s)) <= Len(s)
  BY DEF Smaller
<1>2. \A i \in 1..Smaller(n, Len(s)) : s[i] \in S
  BY <1>1
<1> QED
  BY <1>1, <1>2, SubSeqProperties DEF First

\* popOffTo keeps, returns or loses each block of the chain.
LEMMA PopsOff ==
    ASSUME NEW b \in Block, tip \in Block, lastTrimHeight \in Nat
    PROVE  /\ PoppedTo(b) \in Chain[tip]
           /\ Popped(b) \in Seq(Later)
           /\ Lost(b) \subseteq Block
           /\ Chain[tip] \subseteq Chain[PoppedTo(b)] \cup Elements(Popped(b)) \cup Lost(b)
           /\ b \in Chain[tip] => PoppedTo(b) = b
<1>1. Height[b] \in Nat /\ Height[tip] \in Nat /\ tip \in Chain[tip] /\ Chain[tip] \subseteq Block
  BY OwnChain
<1>2. CASE Cuts(b)
  <2>1. Smaller(Height[b], Height[tip]) \in 0..Height[tip]
    BY <1>1 DEF Smaller
  <2>2. PoppedTo(b) \in Chain[tip]
    BY <1>2, <2>1, AtHeight DEF PoppedTo
  <2>3. Popped(b) = <<>> /\ Popped(b) \in Seq(Later)
    BY <1>2 DEF Popped
  <2>4. ASSUME b \in Chain[tip] PROVE PoppedTo(b) = b
    <3>1. Height[b] \in 0..Height[tip] /\ At(tip, Height[b]) = b
      BY <2>4, ChainMember
    <3>2. Smaller(Height[b], Height[tip]) = Height[b]
      BY <3>1 DEF Smaller
    <3> QED
      BY <1>2, <3>1, <3>2 DEF PoppedTo
  <2> QED
    BY <1>1, <1>2, <2>2, <2>3, <2>4 DEF Lost
<1>3. CASE ~Cuts(b) /\ b \notin Chain[tip]
  <2>1. PoppedTo(b) = tip /\ Popped(b) = <<>> /\ Lost(b) = {}
    BY <1>3 DEF PoppedTo, Popped, Lost
  <2> QED
    BY <1>1, <1>3, <2>1
<1>4. CASE ~Cuts(b) /\ b \in Chain[tip]
  <2>1. PoppedTo(b) = b /\ Popped(b) = Between(b, tip) /\ Lost(b) = {}
    BY <1>4 DEF PoppedTo, Popped, Lost
  <2>2. Popped(b) \in Seq(Later)
    BY <1>4, <2>1, BlocksBetween
  <2>3. ASSUME NEW c \in Chain[tip], c \notin Chain[b]
        PROVE  c \in Elements(Popped(b))
    <3>1. Height[c] \in 0..Height[tip] /\ At(tip, Height[c]) = c
      BY <2>3, ChainMember
    <3>2. Height[c] > Height[b]
      <4>1. ~(Height[c] <= Height[b])
        BY <1>4, <2>3, ChainsSound DEF Sound
      <4> QED
        BY <1>1, <3>1, <4>1
    <3> DEFINE i == Height[c] - Height[b]
    <3>3. i \in 1..(Height[tip] - Height[b]) /\ Height[b] + i = Height[c]
      BY <1>1, <3>1, <3>2
    <3>4. Len(Between(b, tip)) = Height[tip] - Height[b]
      BY <1>4, BlocksBetween
    <3>5. Between(b, tip)[i] = At(tip, Height[b] + i)
      BY <1>4, <3>3, <3>4, BlocksBetween
    <3>6. DOMAIN Between(b, tip) = 1..Len(Between(b, tip))
      BY <1>4, BlocksBetween
    <3> QED
      BY <2>1, <3>1, <3>3, <3>4, <3>5, <3>6 DEF Elements
  <2> QED
    BY <1>4, <2>1, <2>2, <2>3
<1> QED
  BY <1>2, <1>3, <1>4

-----------------------------------------------------------------------------
(* Types.  The blocks that are handled never include Genesis, which has no   *)
(* parent to compare with the last block.                                    *)

Types ==
    /\ TypeOK
    /\ ids \in Seq(Later) /\ rest \in Seq(Later) /\ fork \in Seq(Later) /\ mine \in Seq(Later)

LEMMA Empty == \A S : <<>> \in Seq(S)
  OBVIOUS

LEMMA LaterBlocks == \A s \in Seq(Later) : s \in Seq(Block)
  BY DEF Later

LEMMA TypesInit == Init => Types
<1> SUFFICES ASSUME Init PROVE Types
  OBVIOUS
<1> USE ChainAssumption, BoundAssumption DEF Init
<1>1. peerTip \in [Peer -> Block] /\ moves \in 0..MaxMoves
  OBVIOUS
<1>2. Genesis \in Block /\ pc \in Unlocked \cup Locked
  BY DEF Unlocked
<1> QED
  BY <1>1, <1>2, Empty DEF Types, TypeOK

\* The steps before the lock, and those of others.
LEMMA TypesOutside ==
    ASSUME Types,
           \/ \E p \in Peer : Ask(p) \/ PeerMoves(p) \/ Return(p)
           \/ Compare \/ Check \/ GiveUp \/ Lock \/ Unlock \/ OthersMoveTip \/ Trim
    PROVE  Types'
<1> USE DEF Types
<1>1. ASSUME NEW p \in Peer, Ask(p) PROVE Types'
  <2>1. Difficulty[peerTip[p]] \in Nat
    BY DifficultyAssumption DEF TypeOK
  <2> QED
    BY <1>1, <2>1 DEF Ask, TypeOK, node, loops, history, Goes, Unlocked
<1>2. ASSUME NEW p \in Peer, PeerMoves(p) PROVE Types'
  <2>1. peerTip' \in [Peer -> Block] /\ moves' \in 0..MaxMoves
    BY <1>2, BoundAssumption DEF PeerMoves, Moves, TypeOK
  <2> QED
    BY <1>2, <2>1 DEF PeerMoves, TypeOK, node, session, loops, history
<1>3. ASSUME NEW p \in Peer, Return(p) PROVE Types'
  BY <1>3 DEF Return, TypeOK, node, session, loops, history
<1>4. CASE Compare
  <2> DEFINE m == Meet(tip, peerTip[feeder])
  <2>1. peerTip[feeder] \in Block /\ tip \in Block /\ feeder \in Peer
    BY DEF TypeOK
  <2>2. m \in Chain[peerTip[feeder]] /\ m \in Block
    BY <2>1, MeetIsHighest, ChainMember
  <2>3. Between(m, peerTip[feeder]) \in Seq(Later)
    BY <2>1, <2>2, BlocksBetween
  <2>4. ids' \in Seq(Later) /\ common' = m
    BY <1>4, <2>3, FirstOf, BoundAssumption DEF Compare
  <2>5. ids' \in Seq(Block)
    BY <2>4, LaterBlocks
  <2> QED
    BY <1>4, <2>2, <2>4, <2>5 DEF Compare, TypeOK, node, loops, history, Goes, Unlocked
<1>5. CASE Check
  BY <1>5 DEF Check, TypeOK, node, session, loops, history, Goes, Unlocked
<1>6. ASSUME EndSession, pc' = "idle", UNCHANGED <<node, peerTip, feeder, source>>,
             connected' \subseteq Peer, moves' \in 0..MaxMoves
      PROVE  Types'
  <2>1. Genesis \in Block
    BY ChainAssumption
  <2> QED
    BY <1>6, <2>1, Empty DEF EndSession, TypeOK, node, Unlocked
<1>7. CASE GiveUp
  <2>1. moves' \in 0..MaxMoves
    BY <1>7, BoundAssumption DEF GiveUp, Moves, TypeOK
  <2> QED
    BY <1>6, <1>7, <2>1 DEF GiveUp, Goes, TypeOK
<1>8. CASE Unlock
  BY <1>6, <1>8 DEF Unlock, Goes, TypeOK
<1>9. CASE Lock
  <2>1. Chain[tip] \subseteq Block
    BY OwnChain DEF TypeOK
  <2> QED
    BY <1>9, <2>1 DEF Lock, TypeOK, node, loops, Goes, Locked
<1>10. CASE OthersMoveTip
  <2>1. tip' \in Block
    BY <1>10, Extends DEF OthersMoveTip, TypeOK
  <2>2. moves' \in 0..MaxMoves
    BY <1>10, BoundAssumption DEF OthersMoveTip, Moves, TypeOK
  <2> QED
    BY <1>10, <2>1, <2>2 DEF OthersMoveTip, TypeOK, session, loops, history
<1>11. CASE Trim
  <2>1. lastTrimHeight' \in Nat
    BY <1>11, BoundAssumption, OwnChain DEF Trim, TrimHeight, Larger, TypeOK
  <2> QED
    BY <1>11, <2>1 DEF Trim, TypeOK, session, loops, history
<1> QED
  BY <1>1, <1>2, <1>3, <1>4, <1>5, <1>7, <1>8, <1>9, <1>10, <1>11

LEMMA HeadAndTail ==
    ASSUME NEW S, NEW s \in Seq(S), s # <<>>
    PROVE  /\ Head(s) \in S /\ Tail(s) \in Seq(S) /\ Len(s) \in Nat \ {0}
           /\ Len(Tail(s)) = Len(s) - 1
           /\ \A i \in 1..Len(Tail(s)) : Tail(s)[i] = s[i + 1]
           /\ Head(s) = s[1]
  OBVIOUS

LEMMA ElementsIn ==
    ASSUME NEW s \in Seq(Later)
    PROVE  Elements(s) \subseteq Block
  BY DEF Elements, Later

LEMMA TypesAdding == ASSUME Types, Fetch \/ AddBlock \/ EndOfBlocks PROVE Types'
<1> USE DEF Types
<1>1. CASE Fetch
  <2>1. rest' \in Seq(Later)
    <3>1. ASSUME NEW n \in 0..Len(ids) PROVE First(n, ids) \in Seq(Later)
      BY FirstOf
    <3> QED
      BY <1>1, <3>1 DEF Fetch
  <2>2. connected' \subseteq Peer /\ moves' \in 0..MaxMoves
    BY <1>1, BoundAssumption, SMTT(30) DEF Fetch, Moves, TypeOK
  <2>3. rest' \in Seq(Block) /\ fork' \in Seq(Block) /\ fork' \in Seq(Later)
    BY <1>1, <2>1, LaterBlocks, Empty DEF Fetch
  <2> QED
    BY <1>1, <2>1, <2>2, <2>3, SMTT(30) DEF Fetch, TypeOK, node, session, history, Goes, Locked
<1>2. CASE AddBlock
  <2> DEFINE b == Head(rest)
  <2>1. b \in Later /\ rest' \in Seq(Later)
    BY <1>2, HeadAndTail DEF AddBlock
  <2> HIDE DEF b
  <2>2. fork' \in Seq(Later)
    <3>1. Append(fork, b) \in Seq(Later)
      BY <2>1
    <3> QED
      BY <1>2, <3>1 DEF AddBlock, b
  <2>3. rest' \in Seq(Block) /\ fork' \in Seq(Block)
    BY <2>1, <2>2, LaterBlocks
  <2>4. tip' \in Block /\ seen' \subseteq Block /\ connected' \subseteq Peer /\ moves' \in 0..MaxMoves
    BY <1>2, <2>1, BoundAssumption, SMTT(30) DEF AddBlock, Push, Refuse, Moves, TypeOK, b, Later
  <2> QED
    BY <1>2, <2>2, <2>3, <2>4, SMTT(30) DEF AddBlock, TypeOK, session
<1>3. CASE EndOfBlocks
  BY <1>3 DEF EndOfBlocks, TypeOK, node, session, loops, history, Goes, Locked
<1> QED
  BY <1>1, <1>2, <1>3

LEMMA RescanTrims ==
    ASSUME NEW b \in Block, tip \in Block, lastTrimHeight \in Nat, PopOff(b)
    PROVE  tip' \in Block /\ lastTrimHeight' \in Nat
<1>1. tip' = PoppedTo(b) /\ tip' \in Block
  BY PopsOff, OwnChain DEF PopOff
<1>2. Height[tip'] \in Nat /\ TrimFrequency \in Nat \ {0} /\ MaxRollback \in Nat
  BY <1>1, OwnChain, BoundAssumption
<1>3. TrimHeight(Height[tip'] - (Height[tip'] % TrimFrequency)) \in Nat
  BY <1>2 DEF TrimHeight, Larger
<1> QED
  BY <1>1, <1>3 DEF PopOff

LEMMA TypesForking ==
    ASSUME Types, PopMine \/ PushFork \/ EndOfFork PROVE Types'
<1> USE DEF Types
<1>0. tip \in Block /\ base \in Block /\ lastTrimHeight \in Nat
  BY DEF TypeOK
<1>1. CASE PopMine
  <2>1. /\ PoppedTo(base) \in Chain[tip] /\ Popped(base) \in Seq(Later) /\ Lost(base) \subseteq Block
    BY <1>0, PopsOff
  <2>2. /\ tip' \in Block /\ mine' \in Seq(Later) /\ dropped' \subseteq Block
        /\ lastTrimHeight' \in Nat
    BY <1>0, <1>1, <2>1, RescanTrims DEF PopMine, PopOff, TypeOK
  <2>3. mine' \in Seq(Block)
    BY <2>2, LaterBlocks
  <2>4. strongest' \in Nat
    BY <1>0, <1>1, DifficultyAssumption DEF PopMine
  <2>5. pc' \in Unlocked \cup Locked /\ asked' \subseteq Peer
    BY <1>1 DEF PopMine, Goes, Locked, TypeOK
  <2> QED
    BY <1>1, <2>2, <2>3, <2>4, <2>5 DEF PopMine, TypeOK
<1>2. CASE PushFork
  <2>1. Head(rest) \in Later /\ Tail(rest) \in Seq(Later)
    BY <1>2, HeadAndTail DEF PushFork
  <2>2. rest' \in Seq(Later)
    BY <1>2, <2>1, Empty DEF PushFork
  <2>3. rest' \in Seq(Block)
    BY <2>2, LaterBlocks
  <2>4. tip' \in Block /\ seen' \subseteq Block /\ connected' \subseteq Peer /\ moves' \in 0..MaxMoves
    BY <1>2, <2>1, BoundAssumption, SMTT(30) DEF PushFork, Push, Refuse, Moves, TypeOK, Later
  <2>5. pushed' \in BOOLEAN
    BY <1>2 DEF PushFork, TypeOK
  <2> QED
    BY <1>2, <2>2, <2>3, <2>4, <2>5 DEF PushFork, TypeOK, session
<1>3. CASE EndOfFork
  BY <1>3 DEF EndOfFork, TypeOK, node, session, loops, history, Goes, Locked
<1> QED
  BY <1>1, <1>2, <1>3

LEMMA TypesJudging ==
    ASSUME Types, JudgeWeaker \/ JudgeStronger \/ JudgeNothing PROVE Types'
<1> USE DEF Types
<1>0. tip \in Block /\ base \in Block /\ lastTrimHeight \in Nat
  BY DEF TypeOK
<1>1. CASE JudgeWeaker
  <2>1. /\ PoppedTo(base) \in Chain[tip] /\ Popped(base) \in Seq(Later) /\ Lost(base) \subseteq Block
    BY <1>0, PopsOff
  <2>2. /\ tip' \in Block /\ requeued' \subseteq Block /\ dropped' \subseteq Block
        /\ lastTrimHeight' \in Nat
    BY <1>0, <1>1, <2>1, RescanTrims, ElementsIn DEF JudgeWeaker, PopOff, TypeOK
  <2> QED
    BY <1>1, <2>2 DEF JudgeWeaker, TypeOK, session, Goes, Locked
<1>2. CASE JudgeStronger
  <2>1. requeued' \subseteq Block
    BY <1>2, ElementsIn DEF JudgeStronger, TypeOK
  <2> QED
    BY <1>2, <2>1 DEF JudgeStronger, TypeOK, node, session, loops, Goes, Locked
<1>3. CASE JudgeNothing
  BY <1>3 DEF JudgeNothing, TypeOK, node, session, loops, history, Goes, Locked
<1> QED
  BY <1>1, <1>2, <1>3

LEMMA TypesPuttingBack ==
    ASSUME Types, PutBack \/ EndOfPutBack PROVE Types'
<1> USE DEF Types
<1>1. CASE PutBack
  <2>1. Head(mine) \in Later /\ Tail(mine) \in Seq(Later) /\ Elements(mine) \subseteq Block
    BY <1>1, HeadAndTail, ElementsIn DEF PutBack
  <2>2. mine' \in Seq(Later)
    BY <1>1, <2>1, Empty DEF PutBack
  <2>3. mine' \in Seq(Block)
    BY <2>2, LaterBlocks
  <2>4. tip' \in Block /\ seen' \subseteq Block /\ dropped' \subseteq Block
    BY <1>1, <2>1 DEF PutBack, Push, TypeOK, Later
  <2>5. connected' \subseteq Peer /\ moves' \in 0..MaxMoves
    BY <1>1, BoundAssumption DEF PutBack, Push, Moves, TypeOK
  <2> QED
    BY <1>1, <2>2, <2>3, <2>4, <2>5 DEF PutBack, TypeOK, session
<1>2. CASE EndOfPutBack
  BY <1>2 DEF EndOfPutBack, TypeOK, node, session, loops, history, Goes, Locked
<1> QED
  BY <1>1, <1>2

\* The last block that a peer names, and the last of these that is the node's own.
LEMMA Answer ==
    ASSUME Types, NEW q \in Peer
    PROVE  LET last == At(peerTip[q], Smaller(Height[peerTip[q]], Height[common] + MaxFork))
           IN  /\ last \in Chain[peerTip[q]] /\ last \in Block
               /\ Meet(tip, last) \in Chain[tip] \cap Chain[last]
               /\ Meet(tip, last) \in Block
               /\ common \in Chain[tip] \cap Chain[peerTip[q]] =>
                      Height[common] <= Height[Meet(tip, last)]
<1> DEFINE h == Smaller(Height[peerTip[q]], Height[common] + MaxFork)
           last == At(peerTip[q], h)
<1>1. tip \in Block /\ peerTip[q] \in Block /\ common \in Block
  BY DEF Types, TypeOK
<1>2. Height[peerTip[q]] \in Nat /\ Height[common] \in Nat /\ MaxFork \in Nat
  BY <1>1, OwnChain, BoundAssumption
<1>3. h \in 0..Height[peerTip[q]]
  BY <1>2 DEF Smaller
<1>4. last \in Chain[peerTip[q]] /\ last \in Block /\ Height[last] = h
  BY <1>1, <1>3, AtHeight
<1>5. Meet(tip, last) \in Chain[tip] \cap Chain[last] /\ Meet(tip, last) \in Block
  BY <1>1, <1>4, MeetIsHighest, OwnChain
<1>6. ASSUME common \in Chain[tip] \cap Chain[peerTip[q]]
      PROVE  Height[common] <= Height[Meet(tip, last)]
  <2>1. Height[common] <= h
    <3>1. Height[common] <= Height[peerTip[q]]
      BY <1>1, <1>6, ChainMember
    <3> QED
      BY <1>2, <3>1 DEF Smaller
  <2>2. common \in Chain[last]
    BY <1>1, <1>4, <1>6, <2>1, ChainsSound DEF Sound
  <2> QED
    BY <1>1, <1>4, <1>6, <2>2, MeetIsHighest
<1> QED
  BY <1>4, <1>5, <1>6

LEMMA TypesConsulting == ASSUME Types, NEW q \in Peer, Consult(q) PROVE Types'
<1> DEFINE last == At(peerTip[q], Smaller(Height[peerTip[q]], Height[common] + MaxFork))
           m == Meet(tip, last)
<1>1. last \in Block /\ m \in Block /\ m \in Chain[last]
  BY Answer
<1>2. First(MaxFork - 1, Between(m, last)) \in Seq(Later)
  BY <1>1, BlocksBetween, FirstOf, BoundAssumption
<1> HIDE DEF m, last
<1>3. \/ UNCHANGED <<pc, source, base, ids, confirmations>>
      \/ confirmations' = confirmations + 1 /\ UNCHANGED <<pc, source, base, ids>>
      \/ /\ source' = q /\ base' = m /\ ids' = First(MaxFork - 1, Between(m, last))
         /\ pc' = "fetch" /\ UNCHANGED confirmations
  BY DEF Consult, Goes, m, last
<1>4. ids' \in Seq(Later)
  BY <1>2, <1>3 DEF Types
<1>5. ids' \in Seq(Block)
  BY <1>4, LaterBlocks
<1>6. /\ pc' \in Unlocked \cup Locked /\ source' \in Peer /\ base' \in Block
      /\ confirmations' \in Nat
  BY <1>1, <1>3 DEF Types, TypeOK, Locked
<1>7. asked' \subseteq Peer
  BY DEF Consult, Types, TypeOK
<1> QED
  BY <1>4, <1>5, <1>6, <1>7 DEF Consult, Types, TypeOK, node, loops, history

LEMMA TypesStep == Types /\ [Next]_vars => Types'
<1> SUFFICES ASSUME Types, [Next]_vars PROVE Types'
  OBVIOUS
<1>1. CASE Next
  BY <1>1, TypesOutside, TypesAdding, TypesForking, TypesJudging, TypesPuttingBack, TypesConsulting
     DEF Next, Thread
<1>2. CASE UNCHANGED vars
  BY <1>2 DEF vars, node, session, loops, history, Types, TypeOK
<1> QED
  BY <1>1, <1>2

\* The variables of the download keep their types, on every tree of blocks: the
\* last block, the popped-off blocks and those still to be pushed are blocks of
\* the tree, and no height is read of a block that is not there.
THEOREM TypeCorrect == Spec => []TypeOK
<1>1. Types => TypeOK
  BY DEF Types
<1> QED
  BY TypesInit, TypesStep, <1>1, PTL DEF Spec

-----------------------------------------------------------------------------
(* What a download keeps.  While the fork is tried out, the blocks in mine   *)
(* stand in for the chain that was found: nothing is lost as long as the     *)
(* last of them, or a block as strong, is in the chain, waits to be put back *)
(* or is known to be deleted.                                                *)

\* One of the blocks is as strong as d.
Deleted(blocks, d) == \E b \in blocks : Difficulty[b] >= d

Settled == {"fetch", "add", "popMine", "consult"}
Trying == {"pushFork", "judge", "putBack"}

Kept ==
    /\ Difficulty[tip] >= Difficulty[held] \/ Deleted(dropped, Difficulty[held])
    /\ seen \subseteq Chain[tip] \cup requeued \cup dropped

Undone ==
    /\ strongest >= Difficulty[held] \/ Deleted(dropped, Difficulty[held])
    /\ seen \subseteq Chain[tip] \cup requeued \cup dropped \cup Elements(mine)
    /\ IF mine = <<>> THEN Difficulty[tip] >= strongest \/ Deleted(dropped, strongest)
                      ELSE Difficulty[mine[Len(mine)]] >= strongest

Saved ==
    /\ Types
    /\ pc \in Settled => Kept
    /\ pc \in Trying => Undone

\* Difficulties are compared with those of blocks.
LEMMA Comparable ==
    ASSUME Types
    PROVE  /\ \A b \in Block : Difficulty[b] \in Nat
           /\ tip \in Block /\ held \in Block /\ strongest \in Nat
           /\ dropped \subseteq Block /\ seen \subseteq Block /\ base \in Block
           /\ lastTrimHeight \in Nat
           /\ Difficulty[tip] \in Nat /\ Difficulty[held] \in Nat
  BY DifficultyAssumption DEF Types, TypeOK

\* A deleted block stays deleted.
LEMMA StaysDeleted ==
    ASSUME NEW d, Deleted(dropped, d), dropped \subseteq dropped' PROVE Deleted(dropped', d)
  BY DEF Deleted

\* Pushing a block makes the chain stronger and keeps what is in it.
LEMMA Pushing ==
    ASSUME Types, NEW b \in Later, Parent[b] = tip, Push(b)
    PROVE  /\ tip' = b /\ Chain[tip'] = Chain[tip] \cup {b} /\ seen' = seen \cup {b}
           /\ Difficulty[tip] < Difficulty[tip']
           /\ Difficulty[tip] \in Nat /\ Difficulty[tip'] \in Nat
  BY Extends, Comparable DEF Push, Later

LEMMA KeptStays ==
    ASSUME Kept, UNCHANGED <<tip, held, seen, requeued, dropped>> PROVE Kept'
  BY DEF Kept, Deleted

LEMMA UndoneStays ==
    ASSUME Undone, UNCHANGED <<tip, held, seen, requeued, dropped, mine, strongest>>
    PROVE  Undone'
  BY DEF Undone, Deleted, Elements

LEMMA SavedAdding ==
    ASSUME Saved, Fetch \/ AddBlock \/ EndOfBlocks PROVE (pc \in Settled /\ Kept)'
<1>1. Types
  BY DEF Saved
<1>2. Kept
  BY DEF Saved, Settled, Fetch, AddBlock, EndOfBlocks
<1>3. CASE Fetch
  BY <1>2, <1>3, KeptStays DEF Fetch, node, history, Goes, Settled
<1>4. CASE EndOfBlocks
  BY <1>2, <1>4, KeptStays DEF EndOfBlocks, node, history, Goes, Settled
<1>5. CASE AddBlock
  <2> DEFINE b == Head(rest)
  <2>0. pc' \in Settled /\ held' = held /\ requeued' = requeued /\ dropped' = dropped
    BY <1>5 DEF AddBlock, Settled
  <2>1. b \in Later
    BY <1>1, <1>5, HeadAndTail DEF AddBlock, Types
  <2> HIDE DEF b
  <2>2. CASE Parent[b] = tip /\ Push(b)
    <3>1. /\ Chain[tip'] = Chain[tip] \cup {b} /\ seen' = seen \cup {b}
          /\ Difficulty[tip] < Difficulty[tip'] /\ Difficulty[tip] \in Nat /\ Difficulty[tip'] \in Nat
      BY <1>1, <2>1, <2>2, Pushing
    <3>2. Difficulty[held] \in Nat
      BY <1>1, Comparable
    <3>3. Difficulty[tip'] >= Difficulty[held'] \/ Deleted(dropped', Difficulty[held'])
      BY <1>2, <2>0, <3>1, <3>2 DEF Kept, Deleted
    <3>4. seen' \subseteq Chain[tip'] \cup requeued' \cup dropped'
      BY <1>2, <2>0, <3>1 DEF Kept
    <3> QED
      BY <2>0, <3>3, <3>4 DEF Kept
  <2>3. CASE UNCHANGED <<tip, seen>>
    BY <1>2, <2>0, <2>3, KeptStays
  <2> QED
    BY <1>5, <2>2, <2>3 DEF AddBlock, Refuse, b
<1> QED
  BY <1>3, <1>4, <1>5

\* What popOffTo takes off waits to be put back, or is deleted for good.
LEMMA SavedPopping == ASSUME Saved, PopMine PROVE Saved'
<1>1. Types /\ Types' /\ Kept /\ tip \in Block /\ base \in Block /\ lastTrimHeight \in Nat
  BY TypesForking, Comparable DEF Saved, Settled, PopMine
<1>2. /\ tip' = PoppedTo(base) /\ mine' = Popped(base) /\ dropped' = dropped \cup Lost(base)
      /\ strongest' = Difficulty[tip] /\ held' = held /\ seen' = seen /\ requeued' = requeued
  BY DEF PopMine, PopOff
<1>3. /\ PoppedTo(base) \in Chain[tip] /\ Popped(base) \in Seq(Later)
      /\ Chain[tip] \subseteq Chain[PoppedTo(base)] \cup Elements(Popped(base)) \cup Lost(base)
  BY <1>1, PopsOff
<1>4. \A d : Deleted(dropped, d) => Deleted(dropped', d)
  BY <1>2, StaysDeleted
<1>5. Difficulty[tip] \in Nat /\ Difficulty[held] \in Nat
  BY <1>1, Comparable
<1>6. strongest' >= Difficulty[held'] \/ Deleted(dropped', Difficulty[held'])
  BY <1>1, <1>2, <1>4 DEF Kept
<1>7. Elements(Popped(base)) = Elements(mine)'
  BY <1>2 DEF Elements
<1>8. seen' \subseteq Chain[tip'] \cup requeued' \cup dropped' \cup Elements(mine)'
  BY <1>1, <1>2, <1>3, <1>7 DEF Kept
<1>9. CASE ~Cuts(base) /\ base \in Chain[tip]
  <2>1. mine' = Between(base, tip) /\ tip' = base /\ Len(mine') = Height[tip] - Height[base]
    BY <1>1, <1>2, <1>9, BlocksBetween DEF Popped, PoppedTo
  <2>2. pc' = "pushFork"
    BY <1>9 DEF PopMine, Goes
  <2>3. Height[base] \in 0..Height[tip] /\ Height[tip] \in Nat
    BY <1>1, <1>9, ChainMember
  <2>4. CASE mine' = <<>>
    <3>1. Height[base] = Height[tip]
      BY <2>1, <2>3, <2>4
    <3>2. tip' = tip
      BY <1>1, <1>9, <2>1, <3>1, ChainsSound, OwnChain DEF Sound
    <3>3. Difficulty[tip'] >= strongest'
      BY <1>2, <1>5, <3>2
    <3> QED
      BY <1>1, <1>6, <1>8, <2>2, <2>4, <3>3 DEF Saved, Undone, Settled, Trying
  <2>5. CASE mine' # <<>>
    <3>1. Len(mine') \in 1..Len(mine')
      <4>1. mine' \in Seq(Later)
        BY <1>2, <1>3
      <4> QED
        BY <2>5, <4>1
    <3>2. mine'[Len(mine')] = At(tip, Height[base] + Len(mine'))
      BY <1>1, <1>9, <2>1, <3>1, BlocksBetween
    <3>3. mine'[Len(mine')] = tip
      <4>1. Height[base] + Len(mine') = Height[tip]
        BY <2>1, <2>3
      <4> QED
        BY <1>1, <3>2, <4>1, OwnChain, ChainMember
    <3>4. Difficulty[mine'[Len(mine')]] >= strongest'
      BY <1>2, <1>5, <3>3
    <3> QED
      BY <1>1, <1>6, <1>8, <2>2, <2>5, <3>4 DEF Saved, Undone, Settled, Trying
  <2> QED
    BY <2>4, <2>5
<1>10. CASE ~(~Cuts(base) /\ base \in Chain[tip])
  <2>1. mine' = <<>> /\ Elements(mine)' = {}
    BY <1>2, <1>10 DEF Popped, Elements
  <2>2. Difficulty[tip'] >= strongest' \/ Deleted(dropped', strongest')
    <3>1. CASE tip' = tip
      BY <1>2, <1>5, <3>1
    <3>2. CASE tip' # tip
      <4>1. Cuts(base)
        BY <1>2, <1>10, <3>2 DEF PoppedTo
      <4>2. tip \notin Chain[tip']
        <5>1. ASSUME tip \in Chain[tip'] PROVE tip' = tip
          <6>1. tip' \in Block /\ Height[tip] \in 0..Height[tip'] /\ Height[tip'] \in 0..Height[tip]
                /\ Height[tip] \in Nat /\ Height[tip'] \in Nat
            BY <1>1, <1>2, <1>3, <5>1, ChainMember, OwnChain
          <6>2. Height[tip] = Height[tip']
            BY <6>1
          <6> QED
            BY <1>1, <1>2, <1>3, <6>2, ChainsSound, OwnChain DEF Sound
        <5> QED
          BY <3>2, <5>1
      <4>3. tip \in dropped'
        BY <1>1, <1>2, <4>1, <4>2, OwnChain DEF Lost
      <4>4. Difficulty[tip] >= strongest'
        BY <1>2, <1>5
      <4> QED
        BY <4>3, <4>4 DEF Deleted
    <3> QED
      BY <3>1, <3>2
  <2>3. Undone'
    BY <1>6, <1>8, <2>1, <2>2 DEF Undone
  <2>4. CASE pc' = "pushFork"
    BY <1>1, <2>3, <2>4 DEF Saved, Settled, Trying
  <2>5. CASE pc' = "consult"
    <3>1. Cuts(base) /\ Height[base] >= Height[tip]
      BY <2>5 DEF PopMine, Goes
    <3>2. tip' = tip
      <4>1. Height[base] \in Nat /\ Height[tip] \in Nat /\ Smaller(Height[base], Height[tip]) = Height[tip]
        BY <1>1, <3>1, OwnChain DEF Smaller
      <4> QED
        BY <1>1, <1>2, <3>1, <4>1, OwnChain, ChainMember DEF PoppedTo
    <3>3. Kept'
      BY <1>1, <1>2, <1>4, <3>2 DEF Kept
    <3> QED
      BY <1>1, <2>5, <3>3 DEF Saved, Settled, Trying
  <2> QED
    BY <2>4, <2>5 DEF PopMine, Goes
<1> QED
  BY <1>9, <1>10

LEMMA SavedForking == ASSUME Saved, PushFork \/ EndOfFork PROVE (pc \in Trying /\ Undone)'
<1>1. Types /\ Undone
  BY DEF Saved, Trying, PushFork, EndOfFork
<1>2. CASE EndOfFork
  BY <1>1, <1>2, UndoneStays DEF EndOfFork, node, loops, history, Goes, Trying
<1>3. CASE PushFork
  <2> DEFINE b == Head(rest)
  <2>0. /\ pc' \in Trying /\ UNCHANGED <<held, requeued, dropped, mine, strongest>>
        /\ Elements(mine') = Elements(mine)
    BY <1>3 DEF PushFork, Trying
  <2>1. b \in Later
    BY <1>1, <1>3, HeadAndTail DEF PushFork, Types
  <2> HIDE DEF b
  <2>2. CASE Parent[b] = tip /\ Push(b)
    <3>1. /\ Chain[tip'] = Chain[tip] \cup {b} /\ seen' = seen \cup {b}
          /\ Difficulty[tip] < Difficulty[tip'] /\ Difficulty[tip] \in Nat /\ Difficulty[tip'] \in Nat
      BY <1>1, <2>1, <2>2, Pushing
    <3>2. strongest \in Nat
      BY <1>1, Comparable
    <3>3. seen' \subseteq Chain[tip'] \cup requeued' \cup dropped' \cup Elements(mine')
      BY <1>1, <2>0, <3>1 DEF Undone
    <3>4. mine = <<>> => Difficulty[tip'] >= strongest \/ Deleted(dropped, strongest)
      <4>1. Difficulty[tip] >= strongest => Difficulty[tip'] >= strongest
        BY <3>1, <3>2
      <4> QED
        BY <1>1, <4>1 DEF Undone
    <3> QED
      BY <1>1, <2>0, <3>3, <3>4 DEF Undone
  <2>3. CASE UNCHANGED <<tip, seen>>
    BY <1>1, <2>0, <2>3, UndoneStays
  <2> QED
    BY <1>3, <2>2, <2>3 DEF PushFork, Refuse, b
<1> QED
  BY <1>2, <1>3

LEMMA SavedJudging ==
    ASSUME Saved, JudgeWeaker \/ JudgeStronger \/ JudgeNothing
    PROVE  (pc \in Trying /\ Undone)' \/ (pc \in Settled /\ Kept)'
<1>1. Types /\ Undone
  BY DEF Saved, Trying, JudgeWeaker, JudgeStronger, JudgeNothing
<1>2. Difficulty[tip] \in Nat /\ strongest \in Nat /\ Difficulty[held] \in Nat
  BY <1>1, Comparable
<1>3. CASE JudgeNothing
  BY <1>1, <1>3, UndoneStays DEF JudgeNothing, node, loops, history, Goes, Trying
\* The fork is kept, and the transactions of the popped-off blocks go back.
<1>4. CASE JudgeStronger
  <2>1. /\ pc' \in Settled /\ UNCHANGED <<tip, held, seen, dropped>>
        /\ requeued' = requeued \cup Elements(mine)
    BY <1>4 DEF JudgeStronger, node, history, Goes, Settled
  <2>2. Difficulty[tip] >= strongest
    BY <1>4 DEF JudgeStronger
  <2>3. Difficulty[tip'] >= Difficulty[held'] \/ Deleted(dropped', Difficulty[held'])
    BY <1>1, <1>2, <2>1, <2>2 DEF Undone
  <2>4. seen' \subseteq Chain[tip'] \cup requeued' \cup dropped'
    BY <1>1, <2>1 DEF Undone
  <2> QED
    BY <2>1, <2>3, <2>4 DEF Kept
\* The fork is undone: its transactions go back, or are deleted with it.
<1>5. CASE JudgeWeaker
  <2>1. /\ tip' = PoppedTo(base) /\ requeued' = requeued \cup Elements(Popped(base))
        /\ dropped' = dropped \cup Lost(base)
        /\ UNCHANGED <<held, seen, mine, strongest>> /\ Elements(mine') = Elements(mine)
        /\ pc' \in Trying
    BY <1>5 DEF JudgeWeaker, PopOff, Goes, Trying
  <2>2. Chain[tip] \subseteq Chain[PoppedTo(base)] \cup Elements(Popped(base)) \cup Lost(base)
    BY <1>1, Comparable, PopsOff
  <2>3. \A d : Deleted(dropped, d) => Deleted(dropped', d)
    BY <2>1, StaysDeleted
  <2>4. seen' \subseteq Chain[tip'] \cup requeued' \cup dropped' \cup Elements(mine')
    BY <1>1, <2>1, <2>2 DEF Undone
  <2>5. ~(Difficulty[tip] >= strongest)
    BY <1>2, <1>5 DEF JudgeWeaker
  <2>6. strongest' >= Difficulty[held'] \/ Deleted(dropped', Difficulty[held'])
    BY <1>1, <2>1, <2>3 DEF Undone
  <2>7. IF mine' = <<>> THEN Deleted(dropped', strongest')
                        ELSE Difficulty[mine'[Len(mine')]] >= strongest'
    BY <1>1, <2>1, <2>3, <2>5 DEF Undone
  <2> QED
    BY <2>1, <2>4, <2>6, <2>7 DEF Undone
<1> QED
  BY <1>3, <1>4, <1>5

LEMMA SavedPuttingBack ==
    ASSUME Saved, PutBack \/ EndOfPutBack
    PROVE  (pc \in Trying /\ Undone)' \/ (pc \in Settled /\ Kept)'
<1>1. Types /\ Undone
  BY DEF Saved, Trying, PutBack, EndOfPutBack
<1>2. Difficulty[tip] \in Nat /\ strongest \in Nat /\ Difficulty[held] \in Nat
  BY <1>1, Comparable
<1>3. CASE EndOfPutBack
  <2>1. mine = <<>> /\ pc' \in Settled /\ UNCHANGED <<tip, held, seen, requeued, dropped>>
    BY <1>3 DEF EndOfPutBack, node, history, Goes, Settled
  <2>2. Difficulty[tip] >= Difficulty[held] \/ Deleted(dropped, Difficulty[held])
    <3>1. \A b \in dropped : Difficulty[b] \in Nat
      BY <1>1, Comparable
    <3> QED
      BY <1>1, <1>2, <2>1, <3>1 DEF Undone, Deleted
  <2>3. Elements(mine) = {}
    BY <2>1 DEF Elements
  <2>4. Kept
    BY <1>1, <2>2, <2>3 DEF Undone, Kept
  <2> QED
    BY <2>1, <2>4, KeptStays
<1>4. CASE PutBack
  <2> DEFINE b == Head(mine)
  <2>0. /\ pc' \in Trying /\ UNCHANGED <<held, requeued, strongest>>
    BY <1>4 DEF PutBack, Trying
  <2>1. /\ b \in Later /\ mine # <<>> /\ mine \in Seq(Later) /\ b = mine[1]
        /\ Len(mine) \in Nat \ {0} /\ Len(Tail(mine)) = Len(mine) - 1
        /\ \A i \in 1..Len(Tail(mine)) : Tail(mine)[i] = mine[i + 1]
        /\ Tail(mine) \in Seq(Later)
    BY <1>1, <1>4, HeadAndTail DEF PutBack, Types
  <2>2. DOMAIN mine = 1..Len(mine) /\ DOMAIN Tail(mine) = 1..Len(Tail(mine))
    BY <2>1
  <2>3. Difficulty[mine[Len(mine)]] >= strongest
    BY <1>1, <2>1 DEF Undone
  <2> HIDE DEF b
  <2>4. CASE Parent[b] = tip /\ Push(b) /\ mine' = Tail(mine) /\ dropped' = dropped
    <3>1. /\ tip' = b /\ Chain[tip'] = Chain[tip] \cup {b} /\ seen' = seen \cup {b}
      BY <1>1, <2>1, <2>4, Pushing
    <3>2. Elements(mine) = {b} \cup Elements(mine')
      <4>1. \A i \in 1..Len(mine) : i = 1 \/ (i - 1 \in 1..Len(Tail(mine)) /\ Tail(mine)[i - 1] = mine[i])
        BY <2>1
      <4>2. \A i \in 1..Len(Tail(mine)) : i + 1 \in 1..Len(mine) /\ Tail(mine)[i] = mine[i + 1]
        BY <2>1
      <4>3. 1 \in 1..Len(mine)
        BY <2>1
      <4>4. Elements(mine) \subseteq {b} \cup Elements(Tail(mine))
        <5> SUFFICES ASSUME NEW i \in 1..Len(mine), mine[i] # b PROVE mine[i] \in Elements(Tail(mine))
          BY <2>2 DEF Elements
        <5>1. i - 1 \in 1..Len(Tail(mine)) /\ Tail(mine)[i - 1] = mine[i]
          BY <2>1, <4>1
        <5> QED
          BY <2>2, <5>1 DEF Elements
      <4>5. Elements(Tail(mine)) \subseteq Elements(mine) /\ b \in Elements(mine)
        BY <2>1, <2>2, <4>2, <4>3 DEF Elements
      <4> QED
        BY <2>4, <4>4, <4>5
    <3>3. seen' \subseteq Chain[tip'] \cup requeued' \cup dropped' \cup Elements(mine')
      BY <1>1, <2>0, <2>4, <3>1, <3>2 DEF Undone
    <3>4. CASE mine' = <<>>
      <4>1. Len(mine) = 1
        <5>1. Tail(mine) = <<>>
          BY <2>4, <3>4
        <5>2. Len(Tail(mine)) = 0
          BY <5>1, EmptySeq
        <5>3. Len(mine) \in Nat /\ Len(Tail(mine)) = Len(mine) - 1
          BY <2>1
        <5> QED
          BY <5>2, <5>3
      <4>2. Difficulty[tip'] >= strongest'
        BY <2>0, <2>1, <2>3, <3>1, <4>1
      <4> QED
        BY <1>1, <2>0, <2>4, <3>3, <3>4, <4>2 DEF Undone
    <3>5. CASE mine' # <<>>
      <4>1. Len(Tail(mine)) \in 1..Len(Tail(mine)) /\ Len(Tail(mine)) + 1 = Len(mine)
        BY <2>1, <2>4, <3>5
      <4>2. mine'[Len(mine')] = mine[Len(mine)]
        BY <2>1, <2>4, <4>1
      <4> QED
        BY <1>1, <2>0, <2>3, <2>4, <3>3, <3>5, <4>2 DEF Undone
    <3> QED
      BY <3>4, <3>5
  <2>5. CASE UNCHANGED <<tip, seen>> /\ dropped' = dropped \cup Elements(mine) /\ mine' = <<>>
    <3>1. mine[Len(mine)] \in Elements(mine)
      BY <2>1, <2>2 DEF Elements
    <3>2. Deleted(dropped', strongest')
      BY <2>0, <2>3, <2>5, <3>1 DEF Deleted
    <3>3. \A d : Deleted(dropped, d) => Deleted(dropped', d)
      BY <2>5, StaysDeleted
    <3> QED
      BY <1>1, <2>0, <2>5, <3>2, <3>3 DEF Undone
  <2> QED
    BY <1>4, <2>4, <2>5 DEF PutBack, b
<1> QED
  BY <1>3, <1>4

LEMMA SavedConsulting ==
    ASSUME Saved, NEW q \in Peer, Consult(q) PROVE (pc \in Settled /\ Kept)'
<1>1. Kept
  BY DEF Saved, Settled, Consult
<1>2. pc' \in Settled
  BY DEF Consult, Goes, Settled
<1> QED
  BY <1>1, <1>2, KeptStays DEF Consult, node, history

LEMMA SavedOutside ==
    ASSUME Saved, Types',
           \/ \E p \in Peer : Ask(p) \/ PeerMoves(p) \/ Return(p)
           \/ Compare \/ Check \/ GiveUp \/ Lock \/ Unlock \/ OthersMoveTip \/ Trim
    PROVE  Saved'
<1>1. ASSUME pc' = pc, UNCHANGED <<tip, held, seen, requeued, dropped, mine, strongest>>
      PROVE  Saved'
  BY <1>1, KeptStays, UndoneStays DEF Saved
<1>2. ASSUME NEW p \in Peer, Ask(p) PROVE Saved'
  BY <1>2 DEF Ask, Goes, Saved, Settled, Trying
<1>3. ASSUME NEW p \in Peer, PeerMoves(p) \/ Return(p) PROVE Saved'
  BY <1>1, <1>3 DEF PeerMoves, Return, node, loops, history
<1>4. CASE Compare \/ Check \/ GiveUp \/ Unlock
  BY <1>4 DEF Compare, Check, GiveUp, Unlock, Goes, Saved, Settled, Trying
<1>5. CASE Lock
  <2>1. pc' \in Settled /\ pc' \notin Trying /\ tip' = tip /\ held' = tip /\ seen' = Chain[tip]
    BY <1>5 DEF Lock, node, Goes, Settled, Trying
  <2>2. Difficulty[tip] \in Nat
    BY Comparable DEF Saved
  <2>3. Kept'
    BY <2>1, <2>2 DEF Kept
  <2> QED
    BY <2>1, <2>3 DEF Saved
<1>6. CASE OthersMoveTip
  BY <1>6 DEF OthersMoveTip, Unlocked, Saved, Settled, Trying
<1>7. CASE Trim
  BY <1>1, <1>7 DEF Trim, loops, history
<1> QED
  BY <1>2, <1>3, <1>4, <1>5, <1>6, <1>7

LEMMA SavedStep == Saved /\ [Next]_vars => Saved'
<1> SUFFICES ASSUME Saved, [Next]_vars PROVE Saved'
  OBVIOUS
<1>1. Types'
  BY TypesStep DEF Saved
<1>2. ASSUME (pc \in Settled /\ Kept)' \/ (pc \in Trying /\ Undone)' PROVE Saved'
  BY <1>1, <1>2 DEF Saved, Settled, Trying
<1>3. CASE Fetch \/ AddBlock \/ EndOfBlocks
  BY <1>2, <1>3, SavedAdding
<1>4. CASE PopMine
  BY <1>4, SavedPopping
<1>5. CASE PushFork \/ EndOfFork
  BY <1>2, <1>5, SavedForking
<1>6. CASE JudgeWeaker \/ JudgeStronger \/ JudgeNothing
  BY <1>2, <1>6, SavedJudging
<1>7. CASE PutBack \/ EndOfPutBack
  BY <1>2, <1>7, SavedPuttingBack
<1>8. ASSUME NEW q \in Peer, Consult(q) PROVE Saved'
  BY <1>2, <1>8, SavedConsulting
<1>9. CASE \/ \E p \in Peer : Ask(p) \/ PeerMoves(p) \/ Return(p)
           \/ Compare \/ Check \/ GiveUp \/ Lock \/ Unlock \/ OthersMoveTip \/ Trim
  BY <1>1, <1>9, SavedOutside
<1>10. CASE UNCHANGED vars
  <2>1. UNCHANGED <<pc, tip, held, seen, requeued, dropped, mine, strongest>>
    BY <1>10 DEF vars, node, loops, history
  <2> QED
    BY <1>1, <2>1, KeptStays, UndoneStays DEF Saved
<1> QED
  BY <1>3, <1>4, <1>5, <1>6, <1>7, <1>8, <1>9, <1>10 DEF Next, Thread

\* What the two properties below follow from holds in every state.
THEOREM Safekeeping == Spec => []Saved
<1>1. Init => Saved
  BY TypesInit DEF Init, Saved, Settled, Trying
<1> QED
  BY <1>1, SavedStep, PTL DEF Spec

\* On every tree of blocks and against any number of peers, a download ends with
\* a chain that is not weaker than the one it found, or has deleted for good a
\* block as strong as that.
THEOREM NeverWeakerCorrect == Spec => []NeverWeaker
<1>1. Saved => NeverWeaker
  BY DEF Saved, Settled, Kept, Deleted, NeverWeaker
<1> QED
  BY Safekeeping, <1>1, PTL

\* Every block that was in the chain at some moment of a download is in it at the
\* end, or its transactions went back to the pool, or it is known to be deleted.
THEOREM TransactionsKeptCorrect == Spec => []TransactionsKept
<1>1. Saved => TransactionsKept
  BY DEF Saved, Settled, Kept, TransactionsKept
<1> QED
  BY Safekeeping, <1>1, PTL

-----------------------------------------------------------------------------
(* How much a download undoes.  It holds on to the common block: when that   *)
(* block is in the chain that was found, it stays in the chain, and so do    *)
(* the blocks that processFork goes back to.  When another thread took it    *)
(* off before the lock, no block of the peer fits on the chain; the chain    *)
(* can still be cut, but only to the height of the common block.             *)

\* The common block, and the one that the peer asked last has in common.
OnChain ==
    /\ common \in Chain[held] /\ common \in Chain[tip] /\ base \in Chain[tip]
    /\ Height[common] <= Height[base]
    /\ \/ Height[held] - Height[common] < MaxFork
       \/ held \in Chain[tip] /\ pc \in {"fetch", "add", "consult"}

\* Blocks that cannot be pushed, as they extend the common block.
Misfits(s) == \A i \in DOMAIN s : common \in Chain[Parent[s[i]]]

OffChain ==
    /\ common \notin Chain[held] /\ base = common /\ tip \in Chain[held]
    /\ Height[held] - Height[tip] < MaxFork
    /\ pc \in {"fetch", "add", "popMine"} => tip = held
    /\ Misfits(ids)
    /\ pc = "add" => Misfits(rest)
    /\ pc = "popMine" => Height[held] - Height[common] < MaxFork
    /\ pc \in Trying => mine = <<>> /\ pushed = FALSE

\* What the thread knows of the ids before the lock.
Fetched ==
    /\ pc \in {"check", "lock"} => Misfits(ids)
    /\ pc \in Locked => OnChain \/ OffChain

Shallow == Types /\ Fetched

LEMMA Shallowness == Shallow => ShallowFork
<1> SUFFICES ASSUME Shallow, pc \in Locked
             PROVE  Height[held] - Height[Meet(tip, held)] < MaxFork
  BY DEF ShallowFork
<1> DEFINE m == Meet(tip, held)
<1>1. tip \in Block /\ held \in Block /\ Types /\ common \in Block
  BY DEF Shallow, Types, TypeOK
<1>2. m \in Chain[held] /\ \A c \in Chain[tip] \cap Chain[held] : Height[c] <= Height[m]
  BY <1>1, MeetIsHighest
<1>3. /\ Height[held] \in Nat /\ Height[m] \in 0..Height[held] /\ Height[tip] \in Nat
      /\ Height[common] \in Nat /\ tip \in Chain[tip] /\ held \in Chain[held]
      /\ MaxFork \in Nat \ {0}
  BY <1>1, <1>2, ChainMember, OwnChain, BoundAssumption
<1> HIDE DEF m
<1>4. CASE OnChain
  <2>1. CASE Height[held] - Height[common] < MaxFork
    <3>1. Height[common] <= Height[m]
      BY <1>2, <1>4 DEF OnChain
    <3> QED
      BY <1>3, <2>1, <3>1 DEF m
  <2>2. CASE held \in Chain[tip]
    <3>1. Height[held] <= Height[m]
      BY <1>2, <1>3, <2>2
    <3> QED
      BY <1>3, <3>1 DEF m
  <2> QED
    BY <1>4, <2>1, <2>2 DEF OnChain
<1>5. CASE OffChain
  <2>1. Height[tip] <= Height[m] /\ Height[held] - Height[tip] < MaxFork
    BY <1>2, <1>3, <1>5 DEF OffChain
  <2> QED
    BY <1>3, <2>1 DEF m
<1> QED
  BY <1>4, <1>5 DEF Shallow, Fetched

\* What the steps under the lock use of it.
LEMMA Locking ==
    ASSUME Shallow, pc \in Locked
    PROVE  /\ Types
           /\ OnChain \/ OffChain
           /\ tip \in Block /\ held \in Block /\ base \in Block /\ common \in Block
           /\ lastTrimHeight \in Nat /\ MaxFork \in Nat \ {0}
           /\ Height[tip] \in Nat /\ Height[held] \in Nat /\ Height[common] \in Nat /\ Height[base] \in Nat
<1>1. Types /\ (OnChain \/ OffChain)
  BY DEF Shallow, Fetched
<1>2. tip \in Block /\ held \in Block /\ base \in Block /\ common \in Block /\ lastTrimHeight \in Nat
  BY <1>1 DEF Types, TypeOK
<1> QED
  BY <1>1, <1>2, OwnChain, BoundAssumption

\* The first elements of a sequence are where they were.
LEMMA Prefixes ==
    ASSUME NEW s \in Seq(Later), NEW k \in Int, k <= Len(s)
    PROVE  \A i \in DOMAIN SubSeq(s, 1, k) : i \in DOMAIN s /\ SubSeq(s, 1, k)[i] = s[i]
<1>1. DOMAIN s = 1..Len(s) /\ Len(s) \in Nat
  OBVIOUS
<1>2. \A i \in 1..k : s[i] \in Later
  OBVIOUS
<1>3. /\ Len(SubSeq(s, 1, k)) = IF 1 <= k THEN k - 1 + 1 ELSE 0
      /\ SubSeq(s, 1, k) \in Seq(Later)
      /\ \A i \in 1..(k - 1 + 1) : SubSeq(s, 1, k)[i] = s[1 + i - 1]
  BY <1>2, SubSeqProperties
<1>4. ASSUME NEW i \in DOMAIN SubSeq(s, 1, k)
      PROVE  i \in DOMAIN s /\ SubSeq(s, 1, k)[i] = s[i]
  <2>1. DOMAIN SubSeq(s, 1, k) = 1..Len(SubSeq(s, 1, k))
    BY <1>3
  <2>2. i \in 1..k
    BY <1>3, <2>1
  <2>3. SubSeq(s, 1, k)[i] = s[1 + i - 1] /\ 1 + i - 1 = i
    BY <1>3, <2>2
  <2> QED
    BY <1>1, <2>2, <2>3
<1> QED
  BY <1>4

LEMMA MisfitsKept ==
    ASSUME NEW s \in Seq(Later), Misfits(s), common' = common
    PROVE  /\ \A n \in Int : Misfits(First(n, s))'
           /\ Misfits(s)'
<1>1. DOMAIN s = 1..Len(s)
  OBVIOUS
<1>2. ASSUME NEW n \in Int PROVE Misfits(First(n, s))'
  <2> DEFINE k == Smaller(n, Len(s))
  <2>1. k \in Int /\ k <= Len(s)
    BY DEF Smaller
  <2> HIDE DEF k
  <2>2. \A i \in DOMAIN SubSeq(s, 1, k) : i \in DOMAIN s /\ SubSeq(s, 1, k)[i] = s[i]
    BY <2>1, Prefixes
  <2> QED
    BY <2>2 DEF Misfits, First, k
<1>3. Misfits(s)'
  BY DEF Misfits
<1> QED
  BY <1>2, <1>3

LEMMA MisfitsAfter ==
    ASSUME NEW s \in Seq(Later), Misfits(s), s # <<>>
    PROVE  /\ common \in Chain[Parent[Head(s)]]
           /\ \A i \in DOMAIN Tail(s) : common \in Chain[Parent[Tail(s)[i]]]
<1>1. /\ Head(s) = s[1] /\ 1 \in DOMAIN s /\ DOMAIN Tail(s) = 1..Len(Tail(s))
      /\ \A i \in 1..Len(Tail(s)) : i + 1 \in DOMAIN s /\ Tail(s)[i] = s[i + 1]
  BY HeadAndTail
<1> QED
  BY <1>1 DEF Misfits

\* The blocks after the common block extend it.
LEMMA BetweenMisfits ==
    ASSUME NEW b \in Block, NEW c \in Chain[b], common' = c
    PROVE  Misfits(Between(c, b))'
<1>1. /\ Between(c, b) \in Seq(Later) /\ Len(Between(c, b)) = Height[b] - Height[c]
      /\ \A i \in 1..Len(Between(c, b)) : Between(c, b)[i] = At(b, Height[c] + i)
  BY BlocksBetween
<1>2. Height[b] \in Nat /\ Height[c] \in 0..Height[b] /\ c \in Block
  BY ChainMember
<1>3. DOMAIN Between(c, b) = 1..Len(Between(c, b))
  BY <1>1
<1>4. ASSUME NEW i \in DOMAIN Between(c, b) PROVE c \in Chain[Parent[Between(c, b)[i]]]
  <2> DEFINE d == Between(c, b)[i]
  <2>1. i \in 1..(Height[b] - Height[c]) /\ d = At(b, Height[c] + i)
    BY <1>1, <1>3
  <2>2. Height[c] + i \in 0..Height[b] /\ Height[c] < Height[c] + i
    BY <1>2, <2>1
  <2>3. d \in Chain[b] /\ Height[d] = Height[c] + i
    BY <2>1, <2>2, AtHeight
  <2>4. d \in Later
    BY <1>1, <1>3
  <2> HIDE DEF d
  <2>5. c \in Chain[d] /\ c # d
    BY <1>2, <2>1, <2>2, <2>3, ChainsSound DEF Sound
  <2>6. Chain[d] = Chain[Parent[d]] \cup {d}
    BY <2>4, Extends DEF Later
  <2> QED
    BY <2>5, <2>6 DEF d
<1> QED
  BY <1>4 DEF Misfits

LEMMA ShallowUnlocked ==
    ASSUME Shallow,
           \/ \E p \in Peer : Ask(p) \/ PeerMoves(p) \/ Return(p)
           \/ Compare \/ Check \/ GiveUp \/ Unlock \/ OthersMoveTip \/ Trim
    PROVE  Fetched'
<1>1. ASSUME pc' = pc, UNCHANGED <<tip, held, common, base, ids, rest, mine, pushed>>
      PROVE  Fetched'
  <2>1. Misfits(ids)' <=> Misfits(ids)
    BY <1>1 DEF Misfits
  <2>2. Misfits(rest)' <=> Misfits(rest)
    BY <1>1 DEF Misfits
  <2> QED
    BY <1>1, <2>1, <2>2 DEF Shallow, Fetched, OnChain, OffChain
<1>2. ASSUME NEW p \in Peer, Ask(p) PROVE Fetched'
  BY <1>2 DEF Ask, Goes, Fetched, Locked
<1>3. ASSUME NEW p \in Peer, PeerMoves(p) \/ Return(p) PROVE Fetched'
  BY <1>1, <1>3 DEF PeerMoves, Return, node, session, loops, history
<1>4. CASE Trim
  BY <1>1, <1>4 DEF Trim, session, loops, history
<1>5. CASE GiveUp \/ Unlock
  BY <1>5 DEF GiveUp, Unlock, Goes, Fetched, Locked
<1>6. CASE Compare
  <2> DEFINE m == Meet(tip, peerTip[feeder])
  <2>1. peerTip[feeder] \in Block /\ tip \in Block
    BY DEF Shallow, Types, TypeOK
  <2>2. m \in Chain[peerTip[feeder]] /\ common' = m
    BY <1>6, <2>1, MeetIsHighest DEF Compare
  <2>3. /\ ids' = First(MaxFork - 1, Between(m, peerTip[feeder]))
        /\ Between(m, peerTip[feeder]) \in Seq(Later)
        /\ \A i \in DOMAIN Between(m, peerTip[feeder]) :
               m \in Chain[Parent[Between(m, peerTip[feeder])[i]]]
    BY <1>6, <2>1, <2>2, BlocksBetween, BetweenMisfits DEF Compare, Misfits
  <2>4. Misfits(ids)'
    <3> DEFINE s == Between(m, peerTip[feeder])
               k == Smaller(MaxFork - 1, Len(s))
    <3>1. k \in Int /\ k <= Len(s) /\ s \in Seq(Later)
      BY <2>3, BoundAssumption DEF Smaller
    <3>2. ids' = SubSeq(s, 1, k) /\ \A i \in DOMAIN s : m \in Chain[Parent[s[i]]]
      BY <2>3 DEF First
    <3> HIDE DEF s, k, m
    <3>3. \A i \in DOMAIN SubSeq(s, 1, k) : i \in DOMAIN s /\ SubSeq(s, 1, k)[i] = s[i]
      BY <3>1, Prefixes
    <3> QED
      BY <2>2, <3>2, <3>3 DEF Misfits
  <2> QED
    BY <1>6, <2>4 DEF Compare, Goes, Fetched, Locked
<1>7. CASE Check
  <2>1. UNCHANGED <<common, ids>> /\ pc = "check" /\ pc' = "lock"
    BY <1>7 DEF Check, session, Goes
  <2>2. Misfits(ids)'
    BY <2>1 DEF Shallow, Fetched, Misfits
  <2> QED
    BY <2>1, <2>2 DEF Fetched, Locked
<1>8. CASE OthersMoveTip
  <2>1. UNCHANGED <<common, ids, pc>> /\ pc \in Unlocked
    BY <1>8 DEF OthersMoveTip, session
  <2>2. Misfits(ids)' <=> Misfits(ids)
    BY <2>1 DEF Misfits
  <2> QED
    BY <2>1, <2>2 DEF Shallow, Fetched, Unlocked, Locked
<1> QED
  BY <1>2, <1>3, <1>4, <1>5, <1>6, <1>7, <1>8

LEMMA ShallowLocking == ASSUME Shallow, Lock PROVE Fetched'
<1>1. /\ tip' = tip /\ held' = tip /\ base' = common /\ common' = common /\ ids' = ids
      /\ pc = "lock" /\ pc' = "fetch"
  BY DEF Lock, node, Goes
<1>2. Misfits(ids)'
  BY <1>1 DEF Shallow, Fetched, Misfits
<1>3. /\ tip \in Block /\ common \in Block /\ tip \in Chain[tip]
      /\ Height[tip] \in Nat /\ Height[common] \in Nat /\ MaxFork \in Nat \ {0}
  BY OwnChain, BoundAssumption DEF Shallow, Types, TypeOK
<1>4. CASE common \in Chain[tip]
  <2>1. OnChain'
    BY <1>1, <1>3, <1>4 DEF OnChain
  <2> QED
    BY <1>1, <2>1 DEF Fetched
<1>5. CASE common \notin Chain[tip]
  <2>1. OffChain'
    BY <1>1, <1>2, <1>3, <1>5 DEF OffChain, Trying
  <2> QED
    BY <1>1, <2>1 DEF Fetched
<1> QED
  BY <1>4, <1>5

\* A longer chain still has the blocks in it.
LEMMA Longer ==
    ASSUME OnChain, Chain[tip] \subseteq Chain[tip'], UNCHANGED <<held, common, base>>,
           \/ Height[held] - Height[common] < MaxFork
           \/ pc' \in {"fetch", "add", "consult"}
    PROVE  OnChain'
  BY DEF OnChain

LEMMA ShallowAdding == ASSUME Shallow, Fetch \/ AddBlock \/ EndOfBlocks PROVE Fetched'
<1>1. pc \in Locked /\ pc' \in {"add", "popMine", "consult"} /\ UNCHANGED <<held, common, base, ids>>
  BY DEF Fetch, AddBlock, EndOfBlocks, Goes, Locked, session, history
<1>2. /\ Types
      /\ OnChain \/ OffChain
      /\ MaxFork \in Nat \ {0}
      /\ tip \in Block /\ Height[tip] \in Nat /\ Height[held] \in Nat /\ Height[common] \in Nat
  BY <1>1, Locking
<1>3. Misfits(ids)' <=> Misfits(ids)
  BY <1>1 DEF Misfits
<1>4. CASE Fetch
  <2>1. tip' = tip /\ pc' = "add" /\ pc = "fetch"
    BY <1>4 DEF Fetch, node, Goes
  <2>2. CASE OnChain
    BY <1>1, <2>1, <2>2, Longer DEF Fetched
  <2>3. CASE OffChain
    <3>1. Misfits(rest)'
      <4>1. Misfits(ids) /\ ids \in Seq(Later)
        BY <1>2, <2>3 DEF OffChain, Types
      <4>2. \A n \in Int : Misfits(First(n, ids))'
        BY <1>1, <4>1, MisfitsKept
      <4>3. rest' = ids \/ \E n \in 0..Len(ids) : rest' = First(n, ids)
        BY <1>4 DEF Fetch
      <4>4. ASSUME NEW n \in 0..Len(ids), rest' = First(n, ids) PROVE Misfits(rest)'
        BY <1>1, <4>2, <4>4 DEF Misfits
      <4> QED
        BY <1>1, <4>1, <4>3, <4>4 DEF Misfits
    <3> QED
      BY <1>1, <1>3, <2>1, <2>3, <3>1 DEF OffChain, Fetched, Trying
  <2> QED
    BY <1>2, <2>2, <2>3
<1>5. CASE AddBlock
  <2> DEFINE b == Head(rest)
  <2>0. pc = "add" /\ pc' = "add" /\ rest \in Seq(Later) /\ rest # <<>> /\ rest' = Tail(rest)
    BY <1>2, <1>5 DEF AddBlock, Types
  <2>1. b \in Later
    BY <2>0, HeadAndTail
  <2>2. (Parent[b] = tip /\ Push(b)) \/ tip' = tip
    BY <1>5 DEF AddBlock, Refuse
  <2> HIDE DEF b
  <2>3. CASE OnChain
    <3>1. Chain[tip] \subseteq Chain[tip']
      BY <1>2, <2>1, <2>2, Pushing
    <3> QED
      BY <1>1, <2>0, <2>3, <3>1, Longer DEF Fetched
  <2>4. CASE OffChain
    <3>1. Misfits(rest) /\ tip = held /\ common \notin Chain[held]
      BY <2>0, <2>4 DEF OffChain
    <3>2. /\ common \in Chain[Parent[b]]
          /\ \A i \in DOMAIN Tail(rest) : common \in Chain[Parent[Tail(rest)[i]]]
      BY <2>0, <3>1, MisfitsAfter DEF b
    <3>3. tip' = tip
      BY <2>2, <3>1, <3>2
    <3>4. Misfits(rest)'
      BY <1>1, <2>0, <3>2 DEF Misfits
    <3> QED
      BY <1>1, <1>3, <2>0, <2>4, <3>3, <3>4 DEF OffChain, Fetched, Trying
  <2> QED
    BY <1>2, <2>3, <2>4
<1>6. CASE EndOfBlocks
  <2>1. tip' = tip /\ pc = "add" /\ (pc' = "popMine" => Height[tip] - Height[common] < MaxFork)
        /\ pc' \in {"popMine", "consult"}
    BY <1>6 DEF EndOfBlocks, node, Goes, Room
  <2>2. CASE OnChain
    <3>1. pc' = "popMine" => Height[held] - Height[common] < MaxFork
      <4>1. ASSUME held \in Chain[tip] PROVE Height[held] <= Height[tip]
        BY <1>2, <4>1, ChainMember
      <4> QED
        BY <1>2, <2>1, <2>2, <4>1 DEF OnChain
    <3> QED
      BY <1>1, <2>1, <2>2, <3>1, Longer DEF Fetched
  <2>3. CASE OffChain
    <3>1. pc' = "popMine" => tip' = held' /\ Height[held'] - Height[common'] < MaxFork
      BY <1>1, <2>1, <2>3 DEF OffChain
    <3>2. pc' \notin Trying /\ pc' # "add" /\ pc' # "fetch" /\ pc' # "check" /\ pc' # "lock"
      BY <2>1 DEF Trying
    <3> QED
      BY <1>1, <1>3, <2>1, <2>3, <3>1, <3>2 DEF OffChain, Fetched
  <2> QED
    BY <1>2, <2>2, <2>3
<1> QED
  BY <1>4, <1>5, <1>6

\* The common block stays when the chain is cut back to base.
LEMMA CutBack ==
    ASSUME Types, OnChain, pc \in Locked \ {"fetch", "add", "consult"},
           tip' = PoppedTo(base), UNCHANGED <<held, common, base>>
    PROVE  OnChain'
<1>1. tip \in Block /\ base \in Block /\ lastTrimHeight \in Nat /\ common \in Block
  BY DEF Types, TypeOK
<1>2. tip' = base /\ base \in Chain[base]
  BY <1>1, PopsOff, OwnChain DEF OnChain
<1>3. common \in Chain[base]
  BY <1>1, ChainsSound DEF Sound, OnChain
<1> QED
  BY <1>2, <1>3 DEF OnChain

LEMMA ShallowPopping == ASSUME Shallow, PopMine PROVE Fetched'
<1>1. /\ pc = "popMine" /\ pc' \in {"consult", "pushFork"}
      /\ UNCHANGED <<held, common, base, ids>>
      /\ tip' = PoppedTo(base) /\ mine' = Popped(base) /\ pushed' = FALSE
  BY DEF PopMine, PopOff, Goes
<1>2. /\ Types
      /\ OnChain \/ OffChain
      /\ tip \in Block /\ base \in Block /\ lastTrimHeight \in Nat /\ MaxFork \in Nat \ {0}
      /\ Height[tip] \in Nat /\ Height[base] \in Nat
  BY <1>1, Locking DEF Locked
<1>3. Misfits(ids)' <=> Misfits(ids)
  BY <1>1 DEF Misfits
<1>4. CASE OnChain
  <2>1. OnChain'
    BY <1>1, <1>2, <1>4, CutBack DEF Locked
  <2> QED
    BY <1>1, <2>1 DEF Fetched
<1>5. CASE OffChain
  <2>1. /\ tip = held /\ base = common /\ base \notin Chain[tip]
        /\ Height[tip] - Height[base] < MaxFork
    BY <1>1, <1>5 DEF OffChain
  <2>2. mine' = <<>>
    BY <1>1, <2>1 DEF Popped
  <2>3. tip' \in Chain[tip]
    BY <1>1, <1>2, PopsOff
  <2>4. Height[tip] - Height[tip'] < MaxFork
    <3>1. CASE Cuts(base)
      <4>1. Smaller(Height[base], Height[tip]) \in 0..Height[tip]
        BY <1>2 DEF Smaller
      <4>2. Height[tip'] = Smaller(Height[base], Height[tip])
        BY <1>1, <1>2, <3>1, <4>1, AtHeight DEF PoppedTo
      <4> QED
        BY <1>2, <2>1, <4>2 DEF Smaller
    <3>2. CASE ~Cuts(base)
      <4>1. tip' = tip
        BY <1>1, <2>1, <3>2 DEF PoppedTo
      <4> QED
        BY <1>2, <4>1
    <3> QED
      BY <3>1, <3>2
  <2>5. OffChain'
    BY <1>1, <1>3, <1>5, <2>1, <2>2, <2>3, <2>4 DEF OffChain
  <2> QED
    BY <1>1, <2>5 DEF Fetched
<1> QED
  BY <1>2, <1>4, <1>5

LEMMA ShallowTrying ==
    ASSUME Shallow,
           \/ PushFork \/ EndOfFork \/ JudgeWeaker \/ JudgeStronger \/ JudgeNothing
           \/ PutBack \/ EndOfPutBack
    PROVE  Fetched'
<1>1. /\ pc \in Trying /\ pc' \in Trying \cup {"consult"}
      /\ UNCHANGED <<held, common, base, ids>>
  BY DEF PushFork, EndOfFork, JudgeWeaker, JudgeStronger, JudgeNothing, PutBack, EndOfPutBack,
         Goes, Trying, session, history
<1>2. /\ Types
      /\ OnChain \/ OffChain
  BY <1>1, Locking DEF Locked, Trying
<1>3. CASE OnChain
  <2>1. Height[held] - Height[common] < MaxFork
    BY <1>1, <1>3 DEF OnChain, Trying
  <2>2. CASE JudgeWeaker
    <3>1. OnChain'
      BY <1>1, <1>2, <1>3, <2>2, CutBack DEF JudgeWeaker, PopOff, Locked, Trying
    <3> QED
      BY <1>1, <3>1 DEF Fetched, Trying
  <2>3. ASSUME Chain[tip] \subseteq Chain[tip'] PROVE Fetched'
    BY <1>1, <1>3, <2>1, <2>3, Longer DEF Fetched, Trying
  <2>4. ASSUME tip' = tip PROVE Fetched'
    BY <2>3, <2>4
  <2>5. ASSUME NEW b \in Later, Parent[b] = tip, Push(b) PROVE Fetched'
    <3>1. Chain[tip] \subseteq Chain[tip']
      BY <1>2, <2>5, Pushing
    <3> QED
      BY <2>3, <3>1
  <2>6. CASE PushFork
    <3> DEFINE b == Head(rest)
    <3>1. rest \in Seq(Later) /\ rest # <<>>
      BY <1>2, <2>6 DEF Types, PushFork
    <3>2. b \in Later
      BY <3>1, HeadAndTail
    <3>3. (Parent[b] = tip /\ Push(b)) \/ tip' = tip
      BY <2>6 DEF PushFork, Refuse
    <3> HIDE DEF b
    <3> QED
      BY <2>4, <2>5, <3>2, <3>3
  <2>7. CASE PutBack
    <3> DEFINE b == Head(mine)
    <3>1. mine \in Seq(Later) /\ mine # <<>>
      BY <1>2, <2>7 DEF Types, PutBack
    <3>2. b \in Later
      BY <3>1, HeadAndTail
    <3>3. (Parent[b] = tip /\ Push(b)) \/ tip' = tip
      BY <2>7 DEF PutBack
    <3> HIDE DEF b
    <3> QED
      BY <2>4, <2>5, <3>2, <3>3
  <2>8. CASE EndOfFork \/ JudgeStronger \/ JudgeNothing \/ EndOfPutBack
    BY <2>4, <2>8 DEF EndOfFork, JudgeStronger, JudgeNothing, EndOfPutBack, node
  <2> QED
    BY <2>2, <2>6, <2>7, <2>8
<1>4. CASE OffChain
  <2>1. mine = <<>> /\ pushed = FALSE
    BY <1>1, <1>4 DEF OffChain
  <2>2. tip # base
    <3>1. tip \in Chain[held] /\ base \notin Chain[held]
      BY <1>4 DEF OffChain
    <3> QED
      BY <3>1
  <2>3. EndOfFork \/ JudgeNothing \/ EndOfPutBack
    BY <2>1, <2>2 DEF PushFork, JudgeWeaker, JudgeStronger, PutBack
  <2>4. UNCHANGED <<tip, mine, pushed>>
    BY <2>3 DEF EndOfFork, JudgeNothing, EndOfPutBack, node, loops
  <2>5. Misfits(ids)' <=> Misfits(ids)
    BY <1>1 DEF Misfits
  <2>6. OffChain'
    BY <1>1, <1>4, <2>1, <2>4, <2>5 DEF OffChain, Trying
  <2> QED
    BY <1>1, <2>6 DEF Fetched, Trying
<1> QED
  BY <1>2, <1>3, <1>4

LEMMA ShallowConsulting == ASSUME Shallow, NEW q \in Peer, Consult(q) PROVE Fetched'
<1> DEFINE last == At(peerTip[q], Smaller(Height[peerTip[q]], Height[common] + MaxFork))
           m == Meet(tip, last)
           follows == common \in Chain[tip] \cap (Chain[peerTip[q]] \ {peerTip[q]})
<1>1. pc = "consult" /\ UNCHANGED <<tip, held, common, mine, pushed>>
  BY DEF Consult, node, loops, history
<1>2. /\ Types
      /\ OnChain \/ OffChain
  BY <1>1, Locking DEF Locked
<1>3. \/ UNCHANGED <<pc, base, ids>>
      \/ follows /\ base' = m /\ pc' = "fetch"
  BY DEF Consult, Goes
<1>4. /\ m \in Chain[tip]
      /\ common \in Chain[tip] \cap Chain[peerTip[q]] => Height[common] <= Height[m]
  BY <1>2, Answer
<1> HIDE DEF m
<1>5. CASE UNCHANGED <<pc, base, ids>>
  <2>1. OnChain => OnChain'
    BY <1>1, <1>5 DEF OnChain
  <2>2. Misfits(ids)' <=> Misfits(ids)
    BY <1>1, <1>5 DEF Misfits
  <2>3. OffChain => OffChain'
    BY <1>1, <1>5, <2>2 DEF OffChain, Trying
  <2> QED
    BY <1>1, <1>2, <1>5, <2>1, <2>3 DEF Fetched
<1>6. CASE follows /\ base' = m /\ pc' = "fetch"
  <2>1. OnChain
    <3>1. ASSUME OffChain PROVE FALSE
      <4>1. tip \in Chain[held] /\ common \notin Chain[held] /\ held \in Block
        BY <1>2, <3>1 DEF OffChain, Types, TypeOK
      <4>2. Chain[tip] \subseteq Chain[held]
        BY <4>1, ChainMember
      <4> QED
        BY <1>6, <4>1, <4>2
    <3> QED
      BY <1>2, <3>1
  <2>2. OnChain'
    BY <1>1, <1>4, <1>6, <2>1 DEF OnChain
  <2> QED
    BY <1>6, <2>2 DEF Fetched
<1> QED
  BY <1>3, <1>5, <1>6

LEMMA ShallowStep == Shallow /\ [Next]_vars => Shallow'
<1> SUFFICES ASSUME Shallow, [Next]_vars PROVE Fetched'
  BY TypesStep DEF Shallow
<1>1. CASE Next
  <2>1. ASSUME NEW q \in Peer, Consult(q) PROVE Fetched'
    BY <2>1, ShallowConsulting
  <2> QED
    BY <1>1, <2>1, ShallowUnlocked, ShallowLocking, ShallowAdding, ShallowPopping, ShallowTrying
    DEF Next, Thread
<1>2. CASE UNCHANGED vars
  <2>1. UNCHANGED <<pc, tip, held, common, base, ids, rest, mine, pushed>>
    BY <1>2 DEF vars, node, session, loops, history
  <2>2. (Misfits(ids)' <=> Misfits(ids)) /\ (Misfits(rest)' <=> Misfits(rest))
    BY <2>1 DEF Misfits
  <2> QED
    BY <2>1, <2>2 DEF Shallow, Fetched, OnChain, OffChain
<1> QED
  BY <1>1, <1>2

\* A download undoes fewer than MaxFork blocks, whatever another thread did
\* between Check and Lock.
THEOREM ShallowForkCorrect == Spec => []ShallowFork
<1>1. Init => Shallow
  <2> SUFFICES ASSUME Init PROVE Shallow
    OBVIOUS
  <2>1. pc = "idle"
    BY DEF Init
  <2> QED
    BY <2>1, TypesInit DEF Shallow, Fetched, Locked
<1> QED
  BY <1>1, ShallowStep, Shallowness, PTL DEF Spec

-----------------------------------------------------------------------------
(* What a download obtains when nothing gets in its way.                     *)

\* From the answer of the feeder to the last block that is pushed, no other thread
\* moves the chain, no answer is cut short and no block is refused.  Peers may
\* move on, the lock may wait, the chain may be trimmed; and before and after,
\* anything may happen.
Undisturbed ==
    pc \in {"check", "lock", "fetch", "add", "pushFork"} => moves' = moves \/ peerTip' # peerTip

UndisturbedSpec == Init /\ [][Next /\ Undisturbed]_vars

\* The last block when the first k of the blocks asked for were adopted.
Adopted(k) == IF k = 0 THEN common ELSE ids[k]

Chained ==
    /\ \A i \in 1..Len(ids) : /\ Parent[ids[i]] = Adopted(i - 1)
                              /\ Height[ids[i]] = Height[common] + i
    /\ Len(ids) < MaxFork

\* The chain leaves the feeder's one at the common block.
Apart ==
    /\ common \in Chain[tip]
    /\ \A i \in 1..Len(ids) : ids[i] \notin Chain[tip]

\* The loop under way has still to look at the blocks after the first k.
Remaining(k) ==
    /\ Len(rest) = Len(ids) - k
    /\ \A i \in 1..Len(rest) : rest[i] = ids[k + i]

\* None of the first k blocks fits on a chain that went on by itself.
Forked(k) ==
    /\ tip = held /\ tip # common /\ Apart /\ Room
    /\ Len(fork) = k /\ \A i \in 1..k : fork[i] = ids[i]

Adding ==
    \E k \in 0..Len(ids) : /\ Remaining(k)
                           /\ Forked(k) \/ (fork = <<>> /\ tip = Adopted(k) /\ Room)

Trading ==
    /\ strongest = Difficulty[held] /\ ids # <<>>
    /\ \E k \in 0..Len(ids) : Remaining(k) /\ tip = Adopted(k) /\ (k > 0 => pushed)

Last == ids[Len(ids)]

Located ==
    asked = {} => /\ pc \in {"check", "lock"} => Chained /\ Apart
                  /\ pc = "lock" => Room

Tried ==
    asked = {} /\ dropped = {} =>
        /\ pc \in Locked => base = common /\ Chained
        /\ pc = "fetch" => tip = held /\ Apart /\ Room
        /\ pc = "add" => Adding
        /\ pc = "popMine" => ids # <<>> /\ Forked(Len(ids))
        /\ pc = "pushFork" => Trading
        /\ pc = "judge" => strongest = Difficulty[held] /\ ids # <<>> /\ tip = Last /\ pushed
        /\ pc = "putBack" => Difficulty[held] > Difficulty[Last]
        /\ pc = "consult" /\ ids # <<>> => Difficulty[tip] >= Difficulty[Last]

Obtaining == Located /\ Tried /\ (pc # "idle" => peers # {})

\* The answer of the feeder: blocks of its chain, one on top of the other, from
\* the highest block in common, and so none of them in the node's chain.
LEMMA Offered == ASSUME Types, Compare PROVE Chained' /\ Apart'
<1> DEFINE last == peerTip[feeder]
           m == Meet(tip, last)
           all == Between(m, last)
           n == Smaller(MaxFork - 1, Len(all))
<1>1. /\ tip' = tip /\ common' = m /\ ids' = First(MaxFork - 1, all)
      /\ tip \in Block /\ last \in Block
  BY DEF Compare, node, Types, TypeOK
<1>2. /\ m \in Chain[tip] /\ m \in Chain[last] /\ m \in Block
      /\ \A c \in Chain[tip] \cap Chain[last] : Height[c] <= Height[m]
  BY <1>1, MeetIsHighest, OwnChain
<1>3. /\ Height[last] \in Nat /\ Height[m] \in 0..Height[last] /\ At(last, Height[m]) = m
  BY <1>1, <1>2, ChainMember
<1>4. /\ all \in Seq(Later) /\ Len(all) = Height[last] - Height[m] /\ Len(all) \in Nat
      /\ \A i \in 1..Len(all) : all[i] = At(last, Height[m] + i)
  <2> HIDE DEF m, last
  <2>1. /\ all \in Seq(Later) /\ Len(all) = Height[last] - Height[m]
        /\ \A i \in 1..Len(all) : all[i] = At(last, Height[m] + i)
    BY <1>1, <1>2, BlocksBetween
  <2> HIDE DEF all
  <2> QED
    BY <1>3, <2>1
<1> HIDE DEF m, all, last
<1>5. n \in Nat /\ n <= Len(all) /\ n < MaxFork
  BY <1>4, BoundAssumption DEF Smaller
<1>6. ids' = SubSeq(all, 1, n)
  BY <1>1 DEF First
<1> HIDE DEF n
<1>7. Len(ids') = n /\ \A i \in 1..n : ids'[i] = At(last, Height[m] + i)
  <2>1. Len(ids') = n /\ \A i \in 1..n : ids'[i] = all[i]
    BY <1>4, <1>5, <1>6, SubSeqProperties
  <2>2. \A i \in 1..n : i \in 1..Len(all)
    BY <1>4, <1>5
  <2> QED
    BY <1>4, <2>1, <2>2
<1>8. ASSUME NEW i \in 1..n
      PROVE  /\ ids'[i] \in Chain[last] /\ ids'[i] \in Block /\ Height[ids'[i]] = Height[m] + i
             /\ Parent[ids'[i]] = At(last, Height[m] + (i - 1))
  <2>1. Height[m] + i \in 0..Height[last]
    BY <1>3, <1>4, <1>5
  <2>2. ids'[i] \in Chain[last] /\ ids'[i] \in Block /\ Height[ids'[i]] = Height[m] + i
    BY <1>1, <1>7, <2>1, AtHeight
  <2>3. ids'[i] # Genesis
    BY <1>3, <2>2, ChainAssumption
  <2> DEFINE p == Parent[ids'[i]]
  <2>4. p \in Block /\ p \in Chain[ids'[i]] /\ Height[ids'[i]] = Height[p] + 1 /\ Height[p] \in Nat
    BY <2>2, <2>3, Extends, OwnChain
  <2>5. p \in Chain[last]
    BY <1>1, <2>2, <2>4, ChainMember
  <2>6. At(last, Height[p]) = p
    BY <1>1, <2>5, ChainMember
  <2>7. Height[p] = Height[m] + (i - 1)
    BY <1>3, <2>2, <2>4
  <2> QED
    BY <2>2, <2>6, <2>7
<1>9. \A i \in 1..n : Parent[ids'[i]] = Adopted(i - 1)'
  <2> SUFFICES ASSUME NEW i \in 1..n PROVE Parent[ids'[i]] = Adopted(i - 1)'
    OBVIOUS
  <2>1. CASE i = 1
    BY <1>1, <1>3, <1>8, <2>1 DEF Adopted
  <2>2. CASE i # 1
    <3>1. i - 1 \in 1..n /\ i - 1 # 0
      BY <1>5, <2>2
    <3> QED
      BY <1>7, <1>8, <3>1 DEF Adopted
  <2> QED
    BY <2>1, <2>2
<1>10. Chained'
  BY <1>1, <1>5, <1>7, <1>8, <1>9 DEF Chained
<1>11. \A i \in 1..n : ids'[i] \notin Chain[tip]
  <2> SUFFICES ASSUME NEW i \in 1..n, ids'[i] \in Chain[tip] PROVE FALSE
    OBVIOUS
  <2>1. Height[ids'[i]] <= Height[m]
    BY <1>2, <1>8
  <2> QED
    BY <1>3, <1>8, <2>1
<1>12. Apart'
  BY <1>1, <1>2, <1>7, <1>11 DEF Apart
<1> QED
  BY <1>10, <1>12

\* Nothing was moved, cut short or refused.
LEMMA NoMoves ==
    ASSUME moves \in Nat, Undisturbed, pc \in {"check", "lock", "fetch", "add", "pushFork"},
           peerTip' = peerTip
    PROVE  ~(moves' = moves + 1)
BY DEF Undisturbed

LEMMA ObtainingStays ==
    ASSUME Obtaining, UNCHANGED <<pc, tip, common, ids, asked, peers, base, rest, fork, strongest,
                                  pushed, held, dropped>>
    PROVE  Obtaining'
BY DEF Obtaining, Located, Tried, Chained, Apart, Room, Adding, Forked, Remaining, Adopted,
       Trading, Last

LEMMA ObtainingOutside ==
    ASSUME Types, Obtaining, Undisturbed,
           \/ \E p \in Peer : Ask(p) \/ PeerMoves(p) \/ Return(p)
           \/ Compare \/ Check \/ GiveUp \/ Unlock \/ OthersMoveTip \/ Trim
    PROVE  Obtaining'
<1>1. CASE \/ \E p \in Peer : PeerMoves(p) \/ Return(p)
           \/ Trim
  BY <1>1, ObtainingStays DEF PeerMoves, Return, Trim, node, session, loops, history
<1>2. ASSUME pc' = "idle" \/ (pc' = "compare" /\ peers' # {}) PROVE Obtaining'
  BY <1>2 DEF Obtaining, Located, Tried, Locked
<1>3. CASE (\E p \in Peer : Ask(p)) \/ GiveUp \/ Unlock
  BY <1>2, <1>3 DEF Ask, GiveUp, Unlock, Goes
<1>4. CASE OthersMoveTip
  <2>1. /\ pc' = pc /\ peers' = peers /\ pc \in Unlocked
        /\ peerTip' = peerTip /\ moves' = moves + 1
    BY <1>4 DEF OthersMoveTip, Moves, session
  <2>2. moves \in Nat
    BY BoundAssumption DEF Types, TypeOK
  <2>3. pc \in {"idle", "compare"}
    BY <2>1, <2>2, NoMoves DEF Unlocked
  <2> QED
    BY <1>2, <2>1, <2>3 DEF Obtaining
<1>5. CASE Compare
  <2>1. Chained' /\ Apart'
    BY <1>5, Offered
  <2>2. pc' = "check" /\ pc = "compare" /\ peers' = peers
    BY <1>5 DEF Compare, Goes
  <2> QED
    BY <2>1, <2>2 DEF Obtaining, Located, Tried, Locked
<1>6. CASE Check
  <2>1. /\ pc = "check" /\ pc' = "lock" /\ Room
        /\ UNCHANGED <<tip, common, ids, asked, peers>>
    BY <1>6 DEF Check, Goes, Room, node, session
  <2> QED
    BY <2>1 DEF Obtaining, Located, Tried, Locked, Chained, Apart, Adopted, Room
<1> QED
  BY <1>1, <1>3, <1>4, <1>5, <1>6

LEMMA ObtainingLocked == ASSUME Obtaining, Lock PROVE Obtaining'
<1>1. /\ pc = "lock" /\ pc' = "fetch" /\ base' = common /\ held' = tip
      /\ UNCHANGED <<tip, common, ids, asked, peers>>
  BY DEF Lock, Goes, node
<1>2. asked' = {} => Chained /\ Apart /\ Room
  BY <1>1 DEF Obtaining, Located
<1>3. asked' = {} => Chained' /\ Apart' /\ Room'
  BY <1>1, <1>2 DEF Chained, Apart, Adopted, Room
<1> QED
  BY <1>1, <1>3 DEF Obtaining, Located, Tried

LEMMA ObtainingFetched == ASSUME Types, Obtaining, Undisturbed, Fetch PROVE Obtaining'
<1>1. /\ pc = "fetch" /\ pc' = "add" /\ fork' = <<>>
      /\ UNCHANGED <<tip, common, ids, asked, peers, base, held, dropped, peerTip>>
  BY DEF Fetch, Goes, node, session, history
<1>2. rest' = ids
  <2>1. moves \in Nat
    BY BoundAssumption DEF Types, TypeOK
  <2> QED
    BY <1>1, <2>1, NoMoves DEF Fetch, Moves
<1> SUFFICES ASSUME asked = {}, dropped = {} PROVE base' = common' /\ Chained' /\ Adding'
  BY <1>1 DEF Obtaining, Located, Tried
<1>3. base = common /\ Chained /\ tip = held /\ Apart /\ Room
  BY <1>1 DEF Obtaining, Tried, Locked
<1>4. Chained' /\ Apart' /\ Room'
  BY <1>1, <1>3 DEF Chained, Apart, Adopted, Room
<1>5. Len(ids) \in Nat
  BY DEF Types
<1>6. Remaining(0)'
  BY <1>1, <1>2, <1>5 DEF Remaining
<1>7. Forked(0)' \/ (fork' = <<>> /\ tip' = Adopted(0)' /\ Room')
  BY <1>1, <1>3, <1>4 DEF Forked, Adopted
<1>8. 0 \in 0..Len(ids')
  BY <1>1, <1>5
<1> QED
  BY <1>1, <1>3, <1>4, <1>6, <1>7, <1>8 DEF Adding

\* The first of the remaining blocks, and what remains after it.
LEMMA Continues ==
    ASSUME Types, Chained, NEW k \in 0..Len(ids), Remaining(k), rest # <<>>,
           ids' = ids, rest' = Tail(rest)
    PROVE  /\ k + 1 \in 1..Len(ids) /\ Head(rest) = ids[k + 1]
           /\ Parent[ids[k + 1]] = Adopted(k) /\ Height[ids[k + 1]] = Height[common] + (k + 1)
           /\ Remaining(k + 1)'
<1>1. /\ Head(rest) = rest[1] /\ Len(rest) \in Nat \ {0} /\ Len(Tail(rest)) = Len(rest) - 1
      /\ \A i \in 1..Len(Tail(rest)) : Tail(rest)[i] = rest[i + 1]
  BY HeadAndTail DEF Types
<1>2. Len(ids) \in Nat
  BY DEF Types
<1>3. k + 1 \in 1..Len(ids) /\ 1 \in 1..Len(rest)
  BY <1>1, <1>2 DEF Remaining
<1>4. Head(rest) = ids[k + 1]
  BY <1>1, <1>3 DEF Remaining
<1>5. (k + 1) - 1 = k
  OBVIOUS
<1>6. Parent[ids[k + 1]] = Adopted(k) /\ Height[ids[k + 1]] = Height[common] + (k + 1)
  BY <1>3, <1>5 DEF Chained
<1>7. Remaining(k + 1)'
  <2>1. \A i \in 1..Len(rest') : rest'[i] = rest[i + 1] /\ i + 1 \in 1..Len(rest)
    BY <1>1
  <2>2. \A i \in 1..Len(rest') : k + (i + 1) = (k + 1) + i
    BY <1>1
  <2>3. \A i \in 1..Len(rest') : rest'[i] = ids'[(k + 1) + i]
    BY <2>1, <2>2 DEF Remaining
  <2> QED
    BY <1>1, <1>2, <2>3 DEF Remaining
<1> QED
  BY <1>3, <1>4, <1>6, <1>7

\* Nothing remains: all blocks were looked at.
LEMMA AllSeen ==
    ASSUME Types, NEW k \in 0..Len(ids), Remaining(k), rest = <<>>
    PROVE  k = Len(ids)
<1>1. Len(rest) = 0 /\ Len(ids) \in Nat
  BY DEF Types
<1> QED
  BY <1>1 DEF Remaining

LEMMA ObtainingAdded == ASSUME Types, Obtaining, Undisturbed, AddBlock PROVE Obtaining'
<1>1. /\ pc = "add" /\ pc' = "add" /\ rest # <<>> /\ rest' = Tail(rest)
      /\ UNCHANGED <<common, ids, asked, peers, base, held, dropped, peerTip>>
  BY DEF AddBlock, session
<1> SUFFICES ASSUME asked = {}, dropped = {} PROVE base' = common' /\ Chained' /\ Adding'
  BY <1>1 DEF Obtaining, Located, Tried
<1>2. base = common /\ Chained /\ Adding
  BY <1>1 DEF Obtaining, Tried, Locked
<1>3. Chained'
  BY <1>1, <1>2 DEF Chained, Adopted
<1>4. PICK k \in 0..Len(ids) :
          Remaining(k) /\ (Forked(k) \/ (fork = <<>> /\ tip = Adopted(k) /\ Room))
  BY <1>2 DEF Adding
<1> DEFINE b == Head(rest)
<1>5. /\ k + 1 \in 1..Len(ids) /\ b = ids[k + 1] /\ Parent[b] = Adopted(k)
      /\ Height[b] = Height[common] + (k + 1) /\ Remaining(k + 1)'
  BY <1>1, <1>2, <1>4, Continues
<1>6. /\ Len(ids) \in Nat /\ Len(ids) < MaxFork /\ Height[common] \in Nat
      /\ fork \in Seq(Later) /\ b \in Later /\ k + 1 \in 0..Len(ids')
  BY <1>1, <1>2, <1>5, ChainAssumption, HeadAndTail DEF Chained, Types, TypeOK
<1> HIDE DEF b
<1> SUFFICES ASSUME ~(Forked(k + 1)') PROVE fork' = <<>> /\ tip' = Adopted(k + 1)' /\ Room'
  BY <1>1, <1>2, <1>3, <1>5, <1>6 DEF Adding
<1>7. CASE Forked(k)
  <2>1. Parent[b] # tip
    <3>1. k # 0 => k \in 1..Len(ids)
      BY <1>5, <1>6
    <3>2. tip \in Chain[tip]
      BY OwnChain DEF Types, TypeOK
    <3> QED
      BY <1>5, <1>7, <3>1, <3>2 DEF Forked, Apart, Adopted
  <2>2. fork' = Append(fork, b) /\ tip' = tip
    BY <2>1 DEF AddBlock, b
  <2>3. Len(fork) = k /\ \A i \in 1..k : fork[i] = ids[i]
    BY <1>7 DEF Forked
  <2>4. Len(fork') = k + 1 /\ \A i \in 1..k + 1 : fork'[i] = IF i = k + 1 THEN b ELSE fork[i]
    BY <1>6, <2>2, <2>3, AppendProperties
  <2>5. \A i \in 1..k + 1 : i = k + 1 \/ i \in 1..k
    BY <1>6
  <2>6. \A i \in 1..k + 1 : fork'[i] = ids'[i]
    BY <1>1, <1>5, <2>3, <2>4, <2>5
  <2>7. Forked(k + 1)'
    BY <1>1, <1>7, <2>2, <2>4, <2>6 DEF Forked, Apart, Room
  <2> QED
    BY <2>7
<1>8. CASE fork = <<>> /\ tip = Adopted(k) /\ Room
  <2>1. Parent[b] = tip
    BY <1>5, <1>8
  <2>2. ~(\E q \in Senders(b) : Refuse(b, q))
    <3>1. moves \in Nat
      BY BoundAssumption DEF Types, TypeOK
    <3> QED
      BY <1>1, <3>1, NoMoves DEF Refuse, Moves
  <2>3. fork' = <<>> /\ tip' = b
    BY <1>8, <2>1, <2>2 DEF AddBlock, Push, b
  <2>4. tip' = Adopted(k + 1)'
    BY <1>1, <1>5, <1>6, <2>3 DEF Adopted
  <2>5. MaxFork \in Nat
    BY BoundAssumption
  <2>6. Room'
    BY <1>1, <1>5, <1>6, <2>3, <2>5 DEF Room
  <2> QED
    BY <2>3, <2>4, <2>6
<1> QED
  BY <1>4, <1>7, <1>8

LEMMA ObtainingAdding == ASSUME Types, Obtaining, EndOfBlocks PROVE Obtaining'
<1>1. /\ pc = "add" /\ pc' \in {"popMine", "consult"}
      /\ UNCHANGED <<tip, common, ids, asked, peers, base, rest, fork, held, dropped>>
  BY DEF EndOfBlocks, Goes, node, session, loops, history
<1>0. /\ rest = <<>> \/ ~Room
      /\ pc' = IF fork # <<>> /\ Room THEN "popMine" ELSE "consult"
  BY DEF EndOfBlocks, Goes
<1> SUFFICES ASSUME asked = {}, dropped = {}
             PROVE  /\ base' = common' /\ Chained'
                    /\ pc' = "popMine" => ids' # <<>> /\ Forked(Len(ids))'
                    /\ pc' = "consult" /\ ids' # <<>> => Difficulty[tip'] >= Difficulty[Last']
  BY <1>1 DEF Obtaining, Located, Tried
<1>2. base = common /\ Chained /\ Adding
  BY <1>1 DEF Obtaining, Tried, Locked
<1>3. base' = common' /\ Chained'
  BY <1>1, <1>2 DEF Chained, Adopted
<1>4. PICK k \in 0..Len(ids) :
          Remaining(k) /\ (Forked(k) \/ (fork = <<>> /\ tip = Adopted(k) /\ Room))
  BY <1>2 DEF Adding
<1>5. Room
  BY <1>4 DEF Forked
<1>6. k = Len(ids)
  BY <1>0, <1>4, <1>5, AllSeen
<1>7. /\ Len(ids) \in Nat /\ Len(fork) \in Nat /\ (Len(ids) = 0 <=> ids = <<>>)
      /\ (Len(fork) = 0 <=> fork = <<>>) /\ ids \in Seq(Later)
  BY EmptySeq DEF Types
<1>8. CASE Forked(k)
  <2>1. Len(fork) = Len(ids)
    BY <1>6, <1>8 DEF Forked
  <2>2. fork # <<>> <=> ids # <<>>
    BY <1>7, <2>1
  <2>3. Forked(Len(ids))'
    BY <1>1, <1>6, <1>8 DEF Forked, Apart, Room
  <2> QED
    BY <1>0, <1>1, <1>3, <1>5, <2>2, <2>3
<1>9. CASE fork = <<>> /\ tip = Adopted(k) /\ Room
  <2>1. pc' = "consult"
    BY <1>0, <1>9
  <2>2. ids # <<>> => tip = Last
    BY <1>6, <1>7, <1>9 DEF Adopted, Last
  <2>3. tip \in Block => Difficulty[tip] \in Nat
    BY DifficultyAssumption
  <2> QED
    BY <1>1, <1>3, <2>1, <2>2, <2>3 DEF Types, TypeOK, Last
<1> QED
  BY <1>4, <1>8, <1>9

\* popOffTo returns to the common block, or something is deleted.
LEMMA ObtainingPopped == ASSUME Types, Obtaining, PopMine PROVE Obtaining'
<1>1. /\ pc = "popMine" /\ pc' \in {"pushFork", "consult"}
      /\ strongest' = Difficulty[tip] /\ tip' = PoppedTo(base) /\ rest' = fork
      /\ dropped' = dropped \cup Lost(base)
      /\ Cuts(base) \/ (pc' = "pushFork" /\ asked' = asked)
      /\ UNCHANGED <<common, ids, base, held, peers>>
  BY DEF PopMine, PopOff, Goes
<1>2. pc' = "consult" => asked' # {}
  BY <1>1 DEF PopMine, Goes, Obtaining
<1>3. asked' = asked \/ pc' = "consult"
  BY DEF PopMine, Goes
<1>4. ASSUME asked = {}, dropped = {}, Lost(base) = {}
      PROVE  base' = common' /\ Chained' /\ Trading' /\ pc' = "pushFork"
  <2>1. base = common /\ Chained /\ ids # <<>> /\ Forked(Len(ids))
    BY <1>1, <1>4 DEF Obtaining, Tried, Locked
  <2>2. /\ tip \in Block /\ common \in Chain[tip] /\ tip # common /\ tip = held
        /\ Len(fork) = Len(ids) /\ \A i \in 1..Len(ids) : fork[i] = ids[i]
    BY <2>1 DEF Forked, Apart, Types, TypeOK
  <2>3. /\ Height[tip] \in Nat /\ Height[common] \in 0..Height[tip] /\ At(tip, Height[common]) = common
        /\ tip \in Chain[tip]
    BY <2>2, ChainMember, OwnChain
  <2>4. tip \notin Chain[common]
    <3> SUFFICES ASSUME tip \in Chain[common] PROVE FALSE
      OBVIOUS
    <3>1. common \in Block
      BY DEF Types, TypeOK
    <3>2. Height[tip] = Height[common]
      BY <2>3, <3>1, ChainMember
    <3>3. At(tip, Height[tip]) = tip
      BY <2>2, <2>3, ChainMember
    <3> QED
      BY <2>2, <2>3, <3>2, <3>3
  <2>5. ~Cuts(base)
    <3> SUFFICES ASSUME Cuts(base) PROVE FALSE
      OBVIOUS
    <3>1. PoppedTo(base) = common
      BY <2>1, <2>3 DEF PoppedTo, Smaller
    <3> QED
      BY <1>4, <2>3, <2>4, <3>1 DEF Lost
  <2>6. tip' = common /\ pc' = "pushFork"
    BY <1>1, <2>1, <2>2, <2>5 DEF PoppedTo
  <2>7. Len(ids) \in Nat
    BY DEF Types
  <2>8. Remaining(0)' /\ tip' = Adopted(0)' /\ 0 \in 0..Len(ids')
    BY <1>1, <2>2, <2>6, <2>7 DEF Remaining, Adopted
  <2>9. Trading'
    BY <1>1, <2>1, <2>2, <2>8 DEF Trading
  <2> QED
    BY <1>1, <2>1, <2>6, <2>9 DEF Chained, Adopted
<1> QED
  BY <1>1, <1>2, <1>3, <1>4 DEF Obtaining, Located, Tried

LEMMA ObtainingForked == ASSUME Types, Obtaining, Undisturbed, PushFork PROVE Obtaining'
<1>1. /\ pc = "pushFork" /\ pc' = "pushFork" /\ rest # <<>>
      /\ UNCHANGED <<common, ids, asked, peers, base, fork, strongest, held, dropped, peerTip>>
  BY DEF PushFork, session
<1> SUFFICES ASSUME asked = {}, dropped = {} PROVE base' = common' /\ Chained' /\ Trading'
  BY <1>1 DEF Obtaining, Located, Tried
<1>2. base = common /\ Chained /\ Trading
  BY <1>1 DEF Obtaining, Tried, Locked
<1>3. Chained'
  BY <1>1, <1>2 DEF Chained, Adopted
<1>4. PICK k \in 0..Len(ids) : Remaining(k) /\ tip = Adopted(k) /\ (k > 0 => pushed)
  BY <1>2 DEF Trading
<1> DEFINE b == Head(rest)
<1>5. ~Refuse(b, source)
  <2>1. moves \in Nat
    BY BoundAssumption DEF Types, TypeOK
  <2> QED
    BY <1>1, <2>1, NoMoves DEF Refuse, Moves
<1>6. Parent[b] = tip \/ rest' = Tail(rest)
  BY DEF PushFork, b
<1>7. rest' = Tail(rest)
  BY <1>5, <1>6 DEF PushFork, b
<1>8. /\ k + 1 \in 1..Len(ids) /\ b = ids[k + 1] /\ Parent[b] = Adopted(k)
      /\ Remaining(k + 1)'
  BY <1>1, <1>2, <1>4, <1>7, Continues
<1>9. tip' = b /\ pushed'
  BY <1>4, <1>5, <1>8 DEF PushFork, Push, b
<1>10. Len(ids) \in Nat
  BY DEF Types
<1>11. tip' = Adopted(k + 1)' /\ k + 1 \in 0..Len(ids')
  BY <1>1, <1>8, <1>9, <1>10 DEF Adopted
<1> QED
  BY <1>1, <1>2, <1>3, <1>8, <1>9, <1>11 DEF Trading

LEMMA ObtainingTried == ASSUME Types, Obtaining, EndOfFork PROVE Obtaining'
<1>1. /\ pc = "pushFork" /\ pc' = "judge"
      /\ rest = <<>> \/ ~(tip = base \/ pushed)
      /\ UNCHANGED <<tip, common, ids, asked, peers, base, strongest, pushed, held, dropped>>
  BY DEF EndOfFork, Goes, node, session, loops, history
<1> SUFFICES ASSUME asked = {}, dropped = {}
             PROVE  /\ base' = common' /\ Chained'
                    /\ strongest' = Difficulty[held'] /\ ids' # <<>> /\ tip' = Last' /\ pushed'
  BY <1>1 DEF Obtaining, Located, Tried
<1>2. base = common /\ Chained /\ Trading
  BY <1>1 DEF Obtaining, Tried, Locked
<1>3. PICK k \in 0..Len(ids) : Remaining(k) /\ tip = Adopted(k) /\ (k > 0 => pushed)
  BY <1>2 DEF Trading
<1>4. rest = <<>>
  BY <1>1, <1>2, <1>3 DEF Adopted
<1>5. k = Len(ids)
  BY <1>3, <1>4, AllSeen
<1>6. Len(ids) \in Nat /\ Len(ids) # 0
  BY <1>2, EmptySeq DEF Types, Trading
<1>7. tip = Last /\ pushed
  BY <1>3, <1>5, <1>6 DEF Adopted, Last
<1> QED
  BY <1>1, <1>2, <1>7 DEF Trading, Chained, Adopted, Last

LEMMA ObtainingJudged ==
    ASSUME Types, Obtaining, JudgeWeaker \/ JudgeStronger \/ JudgeNothing PROVE Obtaining'
<1>1. /\ pc = "judge" /\ pc' \in {"putBack", "consult"}
      /\ UNCHANGED <<common, ids, asked, peers, base, held>>
      /\ dropped' = {} => dropped = {}
  BY DEF JudgeWeaker, JudgeStronger, JudgeNothing, PopOff, Goes, session, history
<1> SUFFICES ASSUME asked = {}, dropped = {}
             PROVE  /\ base' = common' /\ Chained'
                    /\ pc' = "putBack" => Difficulty[held'] > Difficulty[Last']
                    /\ pc' = "consult" => Difficulty[tip'] >= Difficulty[Last']
  BY <1>1 DEF Obtaining, Located, Tried
<1>2. /\ base = common /\ Chained
      /\ strongest = Difficulty[held] /\ tip = Last /\ pushed
  BY <1>1 DEF Obtaining, Tried, Locked
<1>3. Difficulty[tip] \in Nat /\ Difficulty[held] \in Nat
  BY DifficultyAssumption DEF Types, TypeOK
<1>4. Chained' /\ Last' = Last
  BY <1>1, <1>2 DEF Chained, Adopted, Last
<1>5. CASE JudgeWeaker
  <2>1. Difficulty[tip] < strongest /\ pc' = "putBack"
    BY <1>5 DEF JudgeWeaker, Goes
  <2> QED
    BY <1>1, <1>2, <1>3, <1>4, <2>1
<1>6. CASE JudgeStronger
  <2>1. tip' = tip /\ pc' = "consult"
    BY <1>6 DEF JudgeStronger, Goes, node
  <2> QED
    BY <1>1, <1>2, <1>3, <1>4, <2>1
<1>7. ~JudgeNothing
  BY <1>2 DEF JudgeNothing
<1> QED
  BY <1>5, <1>6, <1>7

LEMMA ObtainingPutBack ==
    ASSUME Types, Types', Saved', Obtaining, PutBack \/ EndOfPutBack PROVE Obtaining'
<1>1. /\ pc = "putBack" /\ pc' \in {"putBack", "consult"}
      /\ UNCHANGED <<common, ids, asked, peers, base, held>>
      /\ dropped' = {} => dropped = {}
  BY DEF PutBack, EndOfPutBack, Goes, session, history
<1> SUFFICES ASSUME asked = {}, dropped' = {}, dropped = {}
             PROVE  /\ base' = common' /\ Chained'
                    /\ pc' = "putBack" => Difficulty[held'] > Difficulty[Last']
                    /\ pc' = "consult" /\ ids' # <<>> => Difficulty[tip'] >= Difficulty[Last']
  BY <1>1 DEF Obtaining, Located, Tried
<1>2. base = common /\ Chained /\ Difficulty[held] > Difficulty[Last]
  BY <1>1 DEF Obtaining, Tried, Locked
<1>3. Chained' /\ Last' = Last
  BY <1>1, <1>2 DEF Chained, Adopted, Last
<1>4. ASSUME pc' = "consult", ids # <<>> PROVE Difficulty[tip'] >= Difficulty[Last]
  <2>1. Difficulty[tip'] >= Difficulty[held']
    BY <1>4 DEF Saved, Settled, Kept, Deleted
  <2>2. Last \in Later
    <3>1. Len(ids) \in 1..Len(ids) /\ ids \in Seq(Later)
      BY <1>4, EmptySeq DEF Types
    <3> QED
      BY <3>1 DEF Last
  <2>3. Difficulty[tip'] \in Nat /\ Difficulty[held] \in Nat /\ Difficulty[Last] \in Nat
    BY <2>2, DifficultyAssumption DEF Types, TypeOK, Later
  <2> QED
    BY <1>1, <1>2, <2>1, <2>3
<1> QED
  BY <1>1, <1>2, <1>3, <1>4

LEMMA ObtainingConsulted ==
    ASSUME Obtaining, NEW q \in Peer, Consult(q) PROVE Obtaining'
BY DEF Consult, Goes, Obtaining, Located, Tried

LEMMA ObtainingStep ==
    ASSUME Saved, Saved', Obtaining, [Next /\ Undisturbed]_vars PROVE Obtaining'
<1>1. Types /\ Types'
  BY DEF Saved
<1>2. CASE UNCHANGED vars
  BY <1>2, ObtainingStays DEF vars, node, session, loops, history
<1>3. CASE Next /\ Undisturbed
  BY <1>1, <1>3, ObtainingOutside, ObtainingLocked, ObtainingFetched, ObtainingAdded,
     ObtainingAdding, ObtainingPopped, ObtainingForked, ObtainingTried, ObtainingJudged,
     ObtainingPutBack, ObtainingConsulted DEF Next, Thread
<1> QED
  BY <1>2, <1>3

\* What safety can say for CatchesUp.  A download that nothing gets in the way of
\* leaves the node with a chain at least as strong as the blocks it asked for
\* would make, when it first looks for a second opinion: it adopted all of them,
\* or a fork of its own is stronger.  Else it deleted blocks of its own to make
\* room for the fork, which is what CatchesUp excepts as well.
THEOREM OfferObtained ==
    UndisturbedSpec =>
        [](pc = "consult" /\ asked = {} /\ ids # <<>> =>
               Difficulty[tip] >= Difficulty[ids[Len(ids)]] \/ dropped # {})
<1>1. Init => Saved /\ Obtaining
  <2>1. Init => Saved
    BY TypesInit DEF Init, Saved, Settled, Trying
  <2>2. Init => Obtaining
    BY DEF Init, Obtaining, Located, Tried, Locked
  <2> QED
    BY <2>1, <2>2
<1>2. Saved /\ [Next /\ Undisturbed]_vars => Saved'
  BY SavedStep
<1>3. Saved /\ Saved' /\ Obtaining /\ [Next /\ Undisturbed]_vars => Obtaining'
  BY ObtainingStep
<1>4. Obtaining => (pc = "consult" /\ asked = {} /\ ids # <<>> =>
                        Difficulty[tip] >= Difficulty[ids[Len(ids)]] \/ dropped # {})
  BY DEF Obtaining, Tried, Last
<1> QED
  BY <1>1, <1>2, <1>3, <1>4, PTL DEF UndisturbedSpec
-----------------------------------------------------------------------------
(* A download comes to an end.                                               *)

Stage == CASE pc = "fetch" -> 6
           [] pc = "add" -> 5
           [] pc = "popMine" -> 4
           [] pc = "pushFork" -> 3
           [] pc = "judge" -> 2
           [] pc = "putBack" -> 1
           [] OTHER -> 0

\* The blocks that the loop under way has still to look at.
ToDo == Len(IF pc = "putBack" THEN mine ELSE rest)

\* Another peer was asked, or the next stage reached, or a block dealt with.
Closer ==
    \/ peers' \ asked' \subseteq peers \ asked /\ peers' \ asked' # peers \ asked
    \/ peers' \ asked' = peers \ asked /\ Stage' < Stage
    \/ peers' \ asked' = peers \ asked /\ Stage' = Stage /\ ToDo' \in Nat /\ ToDo' < ToDo

LEMMA CloserAdding == ASSUME Types, Fetch \/ AddBlock \/ EndOfBlocks PROVE Closer
<1>1. peers' \ asked' = peers \ asked
  BY DEF Fetch, AddBlock, EndOfBlocks, session
<1>2. CASE Fetch
  BY <1>1, <1>2 DEF Fetch, Goes, Closer, Stage
<1>3. CASE AddBlock
  <2>1. pc = "add" /\ pc' = "add" /\ rest # <<>> /\ rest' = Tail(rest) /\ rest \in Seq(Later)
    BY <1>3 DEF AddBlock, Types
  <2>2. Len(rest') \in Nat /\ Len(rest') < Len(rest)
    BY <2>1, HeadAndTail
  <2> QED
    BY <1>1, <2>1, <2>2 DEF Closer, Stage, ToDo
<1>4. CASE EndOfBlocks
  BY <1>1, <1>4 DEF EndOfBlocks, Goes, Closer, Stage
<1> QED
  BY <1>2, <1>3, <1>4

LEMMA CloserForking == ASSUME Types, PopMine \/ PushFork \/ EndOfFork PROVE Closer
<1>1. CASE PopMine
  <2>1. pc = "popMine" /\ peers' = peers
    BY <1>1 DEF PopMine
  <2>2. CASE pc' = "consult" /\ asked' = peers
    BY <2>1, <2>2 DEF Closer, Stage
  <2>3. CASE pc' = "pushFork" /\ asked' = asked
    BY <2>1, <2>3 DEF Closer, Stage
  <2> QED
    BY <1>1, <2>2, <2>3 DEF PopMine, Goes
<1>2. CASE PushFork
  <2>1. /\ pc = "pushFork" /\ pc' = "pushFork" /\ rest # <<>> /\ rest \in Seq(Later)
        /\ peers' \ asked' = peers \ asked /\ (rest' = Tail(rest) \/ rest' = <<>>)
    BY <1>2 DEF PushFork, Types, session
  <2>2. Len(rest') \in Nat /\ Len(rest') < Len(rest)
    BY <2>1, HeadAndTail
  <2> QED
    BY <2>1, <2>2 DEF Closer, Stage, ToDo
<1>3. CASE EndOfFork
  BY <1>3 DEF EndOfFork, Goes, session, Closer, Stage
<1> QED
  BY <1>1, <1>2, <1>3

LEMMA CloserJudging ==
    ASSUME Types, JudgeWeaker \/ JudgeStronger \/ JudgeNothing \/ EndOfPutBack PROVE Closer
  BY DEF JudgeWeaker, JudgeStronger, JudgeNothing, EndOfPutBack, Goes, session, Closer, Stage

LEMMA CloserPuttingBack == ASSUME Types, PutBack PROVE Closer
<1>1. /\ pc = "putBack" /\ pc' = "putBack" /\ mine # <<>> /\ mine \in Seq(Later)
      /\ peers' \ asked' = peers \ asked /\ (mine' = Tail(mine) \/ mine' = <<>>)
  BY DEF PutBack, Types, session
<1>2. Len(mine') \in Nat /\ Len(mine') < Len(mine)
  BY <1>1, HeadAndTail
<1> QED
  BY <1>1, <1>2 DEF Closer, Stage, ToDo

\* What safety can say for the lock that CatchesUp gives back whatever happens.
\* Every step of the download that keeps the lock brings it closer to its end, in
\* a lexicographic order that has no infinite descent: fewer peers left to ask, or
\* a later stage with the same ones, or fewer blocks left in the stage.  Trims,
\* peers and refused blocks do not set it back: what they do leaves the download
\* where it is.
THEOREM LockGivenBack ==
    Spec => [][(pc \in Locked /\ pc' \in Locked) =>
                   Closer \/ UNCHANGED <<tip, pc, session, loops, history>>]_vars
<1> DEFINE Still == UNCHANGED <<tip, pc, session, loops, history>>
<1>1. Types /\ [Next]_vars => (pc \in Locked /\ pc' \in Locked => Closer \/ Still)
  <2> SUFFICES ASSUME Types, Next, pc \in Locked, pc' \in Locked PROVE Closer \/ Still
    BY DEF vars, node
  <2>1. CASE \E q \in Peer : Consult(q)
    BY <2>1 DEF Consult, Closer
  <2>2. ASSUME NEW p \in Peer, Ask(p) \/ PeerMoves(p) \/ Return(p) PROVE Still
    BY <2>2 DEF Ask, PeerMoves, Return, node, Locked
  <2>3. CASE GiveUp \/ OthersMoveTip \/ Trim \/ Compare \/ Check \/ Lock \/ Unlock
    BY <2>3 DEF GiveUp, OthersMoveTip, Trim, Compare, Check, Lock, Unlock, Goes, Locked, Unlocked
  <2> QED
    BY <2>1, <2>2, <2>3, CloserAdding, CloserForking, CloserJudging, CloserPuttingBack
       DEF Next, Thread
<1> QED
  BY TypesInit, TypesStep, <1>1, PTL DEF Spec
=============================================================================
