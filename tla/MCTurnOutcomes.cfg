SPECIFICATION Spec
CONSTANTS
    HardMaxSteps = 1
    BirthStatuses <- EveryBirth
    PrepareFailures <- EveryPrepareFailure
    BodyOutcomes <- EveryBodyOutcome
    CancelOutcomes <- EveryCancel
    MaxCalls = 2
    MaxPosts = 1
    MaxNotifies = 1
    MaxRuns = 2
    MaxSteps = 0
INVARIANTS
    TypeOK
    AttemptAudit
    ApprovalBeforeBody
    NothingLiveAtModel
PROPERTIES
    TurnRefinement
    NoDispatchUnderCancel
    ParksOnlyWhenBlocked
    TerminalIsFinal
CHECK_DEADLOCK FALSE
