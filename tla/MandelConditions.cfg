SPECIFICATION Spec
CONSTANTS
    thrcnt = 3
    y_chars = 5
    pieces = 2
    MaxSpurious = 2
INVARIANTS
    TypeOK
    TurnNotMissed
    DestroyedUnused
PROPERTIES
    DrawsPicture
    Returns
