SPECIFICATION Spec
CONSTANTS
    Submissions <- MixedSubmissions
    Requests <- MixedRequests
    SubmissionOf <- MixedSubmissionOf
    Index <- MixedIndex
    Kinds = {"concurrent", "exclusive"}
    Behaviours = {"panics"}
    ConcurrencyLimit = 2
    MaxPermits = 3
    Deadlined = {"batch"}
    ToolTimeout = TRUE
    MayCancel = {"batch"}
    MayDrop = {"single"}
INVARIANTS
    PermitsConserved
    ExclusiveRunsAlone
    NoIdlePermit
    ResultsInInputOrder
    InterruptionIsJustified
PROPERTIES
    NoOvertaking
CHECK_DEADLOCK FALSE
