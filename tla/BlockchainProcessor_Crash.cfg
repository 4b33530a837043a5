CONSTANTS
    b1 = b1
    b2 = b2
    Block <- MCBlock
    MaxHeight = 4
    MaxRollback = 2
    TrimFrequency = 3
    TrimTables = FALSE
    MaxCrashes = 2
SPECIFICATION Spec
ACTION_CONSTRAINTS NoTrims
INVARIANTS TypeOK Consistent Recoverable
PROPERTIES ScanFlagCleared ComesBackUnlessStuck
CHECK_DEADLOCK FALSE
