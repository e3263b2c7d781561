SPECIFICATION Spec
CONSTANTS
    FileSize = 3
INVARIANTS
    TypeOK
    ReadsItsShares
PROPERTIES
    Exits
