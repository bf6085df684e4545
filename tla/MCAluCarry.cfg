SPECIFICATION Spec
CONSTANTS
    WordBits = 12
    Programs <- MCCarries
    Junk = {0, 255}
INVARIANT
    CarryIntoOnes
CHECK_DEADLOCK FALSE
