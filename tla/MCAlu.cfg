SPECIFICATION Spec
CONSTANTS
    WordBits = 12
    Programs <- MCPrograms
    Junk = {0, 255}
INVARIANTS
    TypeOK
    WideArithmetic
    UnsignedOrder
    SignedOrder
    RotationsUndone
    DivisionInverts
    DecimalArithmetic
CHECK_DEADLOCK FALSE
