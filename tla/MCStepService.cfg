SPECIFICATION FairSpec
CONSTANTS
    Word = 16
    Para = 16
    StepLimit = 4
    IntNo = {2, 3, 4}
    NmiVector = 2
    Vector <- MCVector
    Entry <- MCEntry
    Program <- MCProgram
    Code <- MCCode
    Level = 2
    SetBugValues = {}
    Junk = {}
    MaxHostCalls = 3
    MaxFrames = 6
INVARIANTS
    StringComplete
    NoTornInstruction
    HandlerNesting
PROPERTIES
    IntServiced
    NmiServiced
    MainAdvances
