SPECIFICATION Spec
CONSTANTS
    Mant = 6
    Bias = 16
    StackSize = 3
    Floats <- MCFloats
    Ints <- MCInts
    MaxSteps = 4
INVARIANTS
    TypeOK
    StackHolds
PROPERTIES
    SumRounded
    LoadsExact
CHECK_DEADLOCK FALSE
