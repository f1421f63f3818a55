\* One handle over two posts, a cancel, a scheduled and a policy compaction, a
\* rewind and a fault; a chain of three handles that hand on what is said of
\* spawns, starts and ends, with one trouble.
SPECIFICATION RuntimeSpec
CONSTANTS
    NoRun = NoRun
    r1 = r1
    Runs = {r1}
    KeepTurns = 1
    Held = FALSE
    Grace = TRUE
    MaxPosts = 2
    MaxCancels = 1
    MaxSchedules = 1
    MaxRewinds = 1
    MaxFaults = 1
    MaxBegins = 2
    MaxBrackets = 2
    main0 = main0
    sub1 = sub1
    sub2 = sub2
    Root = main0
    Parent <- Chain
    Modes = {"lazy", "eager"}
    DeepRestarts = FALSE
    MaxEvents <- NoEvents
    MaxTroubles = 1
INVARIANTS
    CompactionSound
PROPERTIES
    CompactionMoves
    ConsumerServed
CHECK_DEADLOCK FALSE
