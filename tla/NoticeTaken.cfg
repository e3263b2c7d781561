SPECIFICATION Spec
CONSTANTS
    FileSize = 6
    MostWorkers = 5
    InitialWorkers = 3
    MaxCommands = 2
    Verbs = {"progress", "info"}
    Amounts = {0}
PROPERTIES
    NoticeTaken
CHECK_DEADLOCK FALSE
