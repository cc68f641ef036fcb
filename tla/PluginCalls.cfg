SPECIFICATION Spec
CONSTANTS
    MaxCalls = 2
    Ids = {1, 2}
    IdOf <- DistinctIds
    MaxConcurrency = 2
    CommandCapacity = 1
    EventCapacity = 1
    InCapacity = 1
    OutCapacity = 1
    MaxStrays = 1
    MayDrop = TRUE
INVARIANTS
    NoOrphan
    NoFalseViolation
    KilledOnlyIfIgnored
CHECK_DEADLOCK FALSE
