SPECIFICATION FairSpec
CONSTANTS
    MaxCalls = 2
    Ids = {1, 2}
    IdOf <- DistinctIds
    MaxConcurrency = 1
    CommandCapacity = 1
    EventCapacity = 1
    InCapacity = 5
    OutCapacity = 1
    MaxStrays = 0
    MayDrop = TRUE
INVARIANT
    PluginConcurrency
PROPERTIES
    CancelledCallReleased
    CrashReleasesCalls
    ProcessReaped
CHECK_DEADLOCK FALSE
