SPECIFICATION FairSpec
CONSTANTS
    Pids = {1, 2, 3}
    Clients = {"c1", "c2"}
    Polls = 1
    MaxLaunches = 1
    MaxInstances = 2
    MaxCrashes = 1
INVARIANTS
    DaemonFindable
    FailedConnectIsFresh
PROPERTIES
    EnsureReportsLive
    CommandsEnd
CHECK_DEADLOCK FALSE
