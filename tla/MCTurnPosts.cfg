SPECIFICATION Spec
CONSTANTS
    HardMaxSteps = 2
    BirthStatuses <- PendingOrFailed
    PrepareFailures <- OnlyFailed
    BodyOutcomes <- OnlyCompleted
    CancelOutcomes <- OnlyCancelled
    MaxCalls = 1
    MaxPosts = 2
    MaxNotifies = 0
    MaxRuns = 2
    MaxSteps = 0
INVARIANTS
    CompletedIsAnswered
    PollsArePaidFor
CHECK_DEADLOCK FALSE
