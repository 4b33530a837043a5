CONSTANTS
    g = g
    a1 = a1
    a2 = a2
    a3 = a3
    a4 = a4
    s3 = s3
    d1 = d1
    d2 = d2
    d3 = d3
    Peer = {p1, p2}
    Block <- MCBlock
    Genesis = g
    Parent <- MCParent
    Chain <- MCChain
    Height <- MCHeight
    Difficulty <- MCDifficulty
    Timestamp <- MCTimestamp
    Doubtful = {a2, d2}
    PeerTip = {a4, s3, d3}
    MaxFork = 3
    SegSize = 1
    ConfirmAfter = 1
    Confirmations = 1
    MaxRollback = 3
    TrimFrequency = 2
    MaxMoves = 3
SPECIFICATION FairSpec
INVARIANTS TypeOK NeverWeaker ShallowFork TransactionsKept
PROPERTIES CatchesUp
