SPECIFICATION FairSpec
CONSTANTS
    Connections = {"c1"}
    Ids = {"e1", "e2"}
    MaxTasks = 3
    MaxMessages = 4
    GlobalPermits = 1
    Resettable = {"c1"}
INVARIANTS
    ResponsesInOrder
    GlobalLimit
    ActiveMapExact
    DrainWaitsForTasks
PROPERTIES
    CancelledEnds
    TeardownDrains
CHECK_DEADLOCK FALSE
