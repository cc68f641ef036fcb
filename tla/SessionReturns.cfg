SPECIFICATION FairSpec
CONSTANTS
    Connections = {"c1"}
    Ids = {"e1"}
    MaxTasks = 1
    MaxMessages = 2
    GlobalPermits = 1
    Resettable = {}
PROPERTY
    ServeReturns
CHECK_DEADLOCK FALSE
