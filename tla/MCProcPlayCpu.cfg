SPECIFICATION Spec
CONSTANTS
    RAM_SIZE = 48
    SEGMENTS_BASE = 1
    INITIAL_IP = 0
    StepLimit = 3
    Sources <- MCSources
    MaxRuns = 2
INVARIANTS
    TypeOK
    MemoryFlat
    OwnCodeFirst
    RunExecutesLines
CHECK_DEADLOCK FALSE
