SPECIFICATION Spec
CONSTANTS
    Byte = 4
    Para = 2
    Programs <- MCPrograms
    GenRegs <- MCGenRegs
    SegRegs <- MCSegRegs
INVARIANTS
    TypeOK
    StoredIsLoaded
    RoundTrips
    BlockMoved
    ScanStops
CHECK_DEADLOCK FALSE
