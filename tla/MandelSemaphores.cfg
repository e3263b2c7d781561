SPECIFICATION RingSpec
CONSTANTS
    thrcnt = 4
    y_chars = 6
    pieces = 2
INVARIANTS
    RingTypeOK
    OneToken
    DestroyedUnused
PROPERTIES
    DrawsPicture
    RingReturns
