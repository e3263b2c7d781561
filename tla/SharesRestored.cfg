SPECIFICATION Spec
CONSTANTS
    FileSize = 6
    MostWorkers = 5
    InitialWorkers = 3
    MaxCommands = 2
    Verbs = {"terminate"}
    Amounts = {0}
INVARIANTS
    SharesRestored
CHECK_DEADLOCK FALSE
