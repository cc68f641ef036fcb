SPECIFICATION FairSpec
CONSTANTS
    Executes = {"e1", "e2", "e3"}
    Cancels = {"k1", "k2"}
    Lists = {"l1"}
    Ids = {"id"}
    IdOf <- OneId
    Oversized = {"e2"}
    MayDrop = {"k1"}
    MaxCalls = 3
INVARIANTS
    StrayAnswersOnly
    IdsFreedByCompletion
    DisconnectedIsJustified
PROPERTIES
    CallsReleased
CHECK_DEADLOCK FALSE
