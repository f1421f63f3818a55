SPECIFICATION FairSpec

CONSTANTS
    Parent <- Chain
    MaxWorkers = 1
    HardMaxSteps = 1
    MaxRuns = 1
    MaxCancels = 1
    MaxGates = 1
    MaxFailures = 0
    MaxCrashes = 0

PROPERTIES
    CancelledChildEnds

\* The session rests when its last run has ended.
CHECK_DEADLOCK FALSE
