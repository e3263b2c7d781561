SPECIFICATION Spec
CONSTANTS
    FileSize = 5
    MostWorkers = 4
    InitialWorkers = 2
    MaxCommands = 3
    Verbs = {"increase", "decrease", "terminate", "progress", "info", "other"}
    Amounts <- AnyAmounts
INVARIANTS
    TypeOK
    DialogueInTurn
    NoOrphanWorker
PROPERTIES
    MarkStays
    UserGetsOn
CHECK_DEADLOCK FALSE
