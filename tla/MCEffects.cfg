\* Two file calls over two paths; two calls, two shells and two processes; two
\* commands; a window of two ticks; two asks; four raw events in two blocks.
SPECIFICATION EffectsSpec
CONSTANTS
    Parts = {"files", "shells", "commands", "race", "approvals", "streamer"}
    c1 = c1
    c2 = c2
    p1 = p1
    p2 = p2
    None = None
    Base = base
    Calls = {c1, c2}
    Paths = {p1, p2}
    Conv <- MCConv
    InitialReads <- MCInitialReads
    FileRequests <- MCRequests
    Shells = {s1, s2}
    Procs = {b1, b2}
    ShellCalls = {k1, k2}
    Dirs = {work, other}
    Workdir = work
    Nil = nil
    MaxCommands = 2
    Window = 2
    MaxDeaf = 2
    MaxHeld = 1
    a1 = a1
    a2 = a2
    edit = edit
    view = view
    xfile = xfile
    any = any
    NoRes = nores
    Asks = {a1, a2}
    AskOf <- MCAskOf
    Pairs <- MCPairs
    Globs <- MCGlobs
    Rulebooks <- MCRulebooks
    MaxFree = 1
    Wires = {"messages", "chat", "responses", "converse"}
    Clients = {"async"}
    MaxRaw = 4
    MaxBlocks = 2
INVARIANTS
    ProcessesSound
PROPERTIES
    RaceSound
    ApprovalsSound
    EffectsEnd
CHECK_DEADLOCK FALSE
