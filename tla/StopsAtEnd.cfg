SPECIFICATION Spec
CONSTANTS
    FileSize = 5
    MostWorkers = 5
    InitialWorkers = 2
    MaxCommands = 1
    Verbs = {"increase"}
    Amounts = {2}
INVARIANTS
    StopsAtEnd
CHECK_DEADLOCK FALSE
