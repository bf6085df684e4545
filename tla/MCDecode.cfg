SPECIFICATION Spec
CONSTANTS
    Instructions <- MCInstructions
    Origins = {0, 65533}
    Levels = {86, 186, 286}
    Word = 65536
    StepLimit = 4
INVARIANTS
    TypeOK
    ListingInStep
    AcceptTogether
    AsImplemented
CHECK_DEADLOCK FALSE
