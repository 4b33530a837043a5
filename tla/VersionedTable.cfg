CONSTANTS
    a = a
    b = b
    k = k
    Keys <- MCKeys
    Values <- MCValues
    None = None
    NoRow = NoRow
    MaxHeight = 4
    Reused = {}
SPECIFICATION Spec
INVARIANTS TypeOK LatestIsNewest NoFutureRow
PROPERTY ImplementsSnapshots
CHECK_DEADLOCK FALSE
