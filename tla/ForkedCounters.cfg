SPECIFICATION Spec
CONSTANTS
    FileSize = 4
    P = 3
    Programs = {"first_ex_ex_3", "ask3", "ask3final"}
    MaxFailures = 1
INVARIANTS
    TypeOK
    NeverOvercounts
    AllRead
    NumberNotUnderstated
    TotalIsExact
    OwnShare
PROPERTIES
    Returns
CHECK_DEADLOCK FALSE
