SPECIFICATION FairSpec
CONSTANTS
    HardMaxSteps = 2
    BirthStatuses <- PendingOrFailed
    PrepareFailures <- OnlyFailed
    BodyOutcomes <- OnlyCompleted
    CancelOutcomes <- OnlyCancelled
    MaxCalls = 1
    MaxPosts = 1
    MaxNotifies = 1
    MaxRuns = 3
    MaxSteps = 0
INVARIANTS
    WellBracketed
    SettledBehindClose
PROPERTIES
    CancelledRunEnds
    AnsweredRunEnds
CHECK_DEADLOCK FALSE
