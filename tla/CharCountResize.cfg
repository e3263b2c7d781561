SPECIFICATION Spec
CONSTANTS
    FileSize = 8
    MostWorkers = 5
    InitialWorkers = 2
    MaxCommands = 2
    Verbs = {"increase", "decrease", "progress", "info"}
    Amounts = {1, 2}
INVARIANTS
    SharesTile
    CrewAccounted
    ProgressSettles
PROPERTIES
    CountIsExact
    QuitGetsTotal
CHECK_DEADLOCK FALSE
