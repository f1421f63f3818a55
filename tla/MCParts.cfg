\* Ten parts, each on its own: the bounds of each are in the order of the modules.
\* A part stops when its bounds are spent.
SPECIFICATION PartsSpec
CONSTANTS
    Parts = {"history", "handle", "streamer", "files", "edits", "routing", "questions", "terminal", "checkpoints", "memory"}
    Setting <- MCSetting
    Strangers <- MCStrangers
    Responses <- MCResponses
    MediaOf <- MCMediaOf
    MaxCalls = 2
    MaxUses = 2
    main0 = main0
    sub1 = sub1
    sub2 = sub2
    Root = main0
    Parent <- Chain
    Modes = {"lazy", "eager"}
    DeepRestarts = FALSE
    MaxEvents <- KidEvents
    MaxTroubles = 1
    Wires = {"messages", "chat", "responses", "converse"}
    Clients = {"sync", "async"}
    MaxRaw = 6
    MaxBlocks = 2
    c1 = c1
    c2 = c2
    p1 = p1
    p2 = p2
    None = None
    Base = base
    Calls = {c1, c2}
    Paths = {p1, p2}
    Conv <- MCConv
    InitialReads <- MCInitialReads
    FileRequests <- MCRequests
    Pieces <- MCPieces
    Glyphs <- MCGlyphs
    Spaces <- MCSpaces
    Escapes <- MCEscapes
    Similar <- MCSimilar
    Bulky <- MCBulky
    New <- MCNew
    EditCases <- MCEditCases
    r1 = r1
    r2 = r2
    t1 = t1
    t2 = t2
    g1 = g1
    g2 = g2
    edit = edit
    peek = peek
    NoChild = nochild
    Requests = {r1, r2}
    Threads = {t1, t2}
    Children <- MCChildren
    Names = {edit, peek}
    RequestOf <- MCRequestOf
    Offerings <- MCOfferings
    MaxBoots = 1
    NoSet = noset
    Titles <- MCTitles
    Multi = {2}
    NOptions = 2
    Sheets <- MCSheets
    MaxKeys = 5
    Ahead = 1
    MaxPosts = 3
    MaxOverlays = 2
    MaxFailures = 2
    Ops = {o1, o2}
    Tracked = {f1, f2}
    MaxTurns = 1
    MaxWrites = 2
    MaxFaults = 1
    Nobody = nobody
    Absent = absent
    Contents = {x, y}
    MaxItems = 2
    MaxConversations = 3
    MaxUpdates = 3
INVARIANTS
    HistoryIsAccepted
    HistoryIsKept
    HandleSound
    StreamerSound
    EditorsSound
    
    TerminalSound
    CheckpointsSound
    MemorySound
PROPERTIES
    FilesSound
    RoutingSound
CHECK_DEADLOCK FALSE
