SPECIFICATION FairSpec

CONSTANTS
    Parent <- Chain
    MaxWorkers = 1
    HardMaxSteps = 1
    MaxRuns = 2
    MaxCancels = 0
    MaxGates = 1
    MaxFailures = 0
    MaxCrashes = 0

PROPERTIES
    TreeRunEnds

\* The session rests when its last run has ended.
CHECK_DEADLOCK FALSE
