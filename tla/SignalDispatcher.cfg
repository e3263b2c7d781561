SPECIFICATION Spec
CONSTANTS
    FileSize = 3
    most_workers = 3
    InitialWorkers = 2
    Amounts <- AnyAmounts
    MaxKeys = 2
INVARIANTS
    TypeOK
    SharesTile
    ShownIsWhole
PROPERTIES
    DrainWaits
    Returns
CHECK_DEADLOCK FALSE
