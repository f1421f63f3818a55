SPECIFICATION FairSpec

CONSTANTS
    Parent <- Chain
    MaxWorkers = 1
    HardMaxSteps = 2
    MaxRuns = 1
    MaxCancels = 0
    MaxGates = 2
    MaxFailures = 0
    MaxCrashes = 0

INVARIANTS
    DrivesAgree
PROPERTIES
    TreeRunEnds

\* The session rests when its last run has ended.
CHECK_DEADLOCK FALSE
