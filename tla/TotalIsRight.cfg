SPECIFICATION Spec
CONSTANTS
    FileSize = 4
    P = 2
    Programs = {"ask3final"}
    MaxFailures = 0
INVARIANTS
    TotalIsRight
CHECK_DEADLOCK FALSE
