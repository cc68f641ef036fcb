SPECIFICATION FairSpec
CONSTANTS
    Submissions <- PairSubmissions
    Requests <- PairRequests
    SubmissionOf <- PairSubmissionOf
    Index <- PairIndex
    Kinds = {"concurrent", "panicking", "unknown"}
    Behaviours = {"pending", "fails", "panics", "blocks"}
    ConcurrencyLimit = 0
    MaxPermits = 3
    Deadlined = {"first"}
    ToolTimeout = TRUE
    MayCancel = {"first"}
    MayDrop = {"second"}
INVARIANTS
    TypeOK
    EventsMatchOutcome
    AbandonedWorkerIsCancelled
PROPERTIES
    CancelledBeforeSubmissionNeverStarts
    BoundedSubmissionReturns
CHECK_DEADLOCK FALSE
