CONSTANTS
    b1 = b1
    b2 = b2
    Block <- MCBlock
    MaxHeight = 6
    MaxRollback = 2
    TrimFrequency = 3
    TrimTables = TRUE
    MaxCrashes = 1
SPECIFICATION Spec
ACTION_CONSTRAINTS TrimsRise FullRescansOnly
INVARIANTS RollbackSupported
CHECK_DEADLOCK FALSE
