SPECIFICATION FairSpec
CONSTANTS
    Executes = {"e1", "e2"}
    Cancels = {"k1"}
    Lists = {}
    Ids = {"id"}
    IdOf <- OneId
    Oversized = {"e2"}
    MayDrop = {}
    MaxCalls = 3
PROPERTIES
    CancelReturns
CHECK_DEADLOCK FALSE
