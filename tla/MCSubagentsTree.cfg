SPECIFICATION Spec

CONSTANTS
    Parent <- Siblings
    MaxWorkers = 1
    HardMaxSteps = 1
    MaxRuns = 2
    MaxCancels = 1
    MaxGates = 0
    MaxFailures = 1
    MaxCrashes = 1

INVARIANTS
    TypeOK
    WithinCap
    NoStrandedSlot
    ClosedTurnsOwnNothing
PROPERTIES
    LinksResolveOnce

\* The session rests when its last run has ended.
CHECK_DEADLOCK FALSE
