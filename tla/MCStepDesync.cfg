SPECIFICATION Spec
CONSTANTS
    Word = 16
    Para = 16
    StepLimit = 4
    IntNo = {2, 3, 4}
    NmiVector = 2
    Vector <- MCVector
    Entry <- MCEntry
    Program <- MCProgram
    Code <- MCCode
    Level = 1
    SetBugValues = {TRUE, FALSE}
    Junk <- MCJunk
    MaxHostCalls = 2
    MaxFrames = 3
INVARIANT CacheAlwaysCoherent
