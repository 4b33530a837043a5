CONSTANTS
    b1 = b1
    b2 = b2
    Block <- MCBlock
    MaxHeight = 4
    MaxRollback = 1
    TrimFrequency = 2
    TrimTables = TRUE
    MaxCrashes = 1
SPECIFICATION Spec
PROPERTIES RowsKept EffectsKept
CHECK_DEADLOCK FALSE
