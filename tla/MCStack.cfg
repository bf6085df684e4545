SPECIFICATION Spec
CONSTANTS
    Byte = 6
    Word = 36
    Level = 2
    StartSP = {0, 35}
    StartIP = {0}
    Targets <- MCTargets
    Pushed = {"ax", "sp"}
    Through = {"sp"}
    Sizes = {4}
    Levels = {0, 3}
    Args = {0, 2}
    MaxOps = 7
INVARIANTS
    TypeOK
    StackImage
PROPERTIES
    CallsReturn
    InterruptsTransparent
    FramesUnwind
    RegistersBack
CHECK_DEADLOCK FALSE
