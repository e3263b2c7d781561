SPECIFICATION Spec
CONSTANTS
    thrcnt = 3
    y_chars = 5
    pieces = 2
    MaxFailures = 1
INVARIANTS
    TypeOK
    TokenKeptOrLost
    LinesReady
PROPERTIES
    DrawsPicture
    Returns
CHECK_DEADLOCK FALSE
