SPECIFICATION FairSpec
CONSTANTS
    Kids = {"k1", "k2"}
    Streams = {"stdout", "stderr"}
    Cap = 2
    Scratch = 2
    PipeSize = 3
    MaxBytes = 4
INVARIANTS
    KillsOwnGroup
    EndedEarlyLeavesNothing
    CaptureExact
PROPERTIES
    RunReturns
CHECK_DEADLOCK FALSE
