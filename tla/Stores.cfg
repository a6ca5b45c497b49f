SPECIFICATION SpecAll
CONSTANTS
    SegmentBytes = 4
    MaxBatch = 2
    MaxEvents = 5
    MaxFaults = 2
    MaxDeletes = 1
    FirstWriteMayTear = FALSE
    Pulls = {p1, p2}
    Names = {n1}
    Models = {m1}
    ModelOf <- MCModelOf
    Listed = 2
    Helpers = 0
    Size = 2
    Attempts = 3
    MaxCrashes = 1
    ContextMin = 1
    ContextFloor = 3
    SplitContext = 4
    ContextTarget = 6
    RuleBuffers <- MCBuffers
    KvSize <- MCKvSize
    Model <- MCModel
    Settings <- MCSettings
    Vram = 72
    Ram = 60
    Unified = FALSE
    Reserve = 2
    DryGaps <- MCDryGaps
    ExtraGaps <- MCExtraGaps
    IdleBytes = 2
    Growth = 2
    AppSizes <- MCAppSizes
    MaxChanges = 1
    None = None
    ToolRole = TRUE
    Context = 28
    MaxTokens = 9
    ReserveLeast = 2
    ReserveMost = 16
    LongResult = 3
    NoteSize = 2
    Schemas = 2
    Markers = 1
    SystemSize = 2
    RequestSizes = {1, 6}
    CallSize = 1
    ResultSizes = {1, 8}
    AnswerSize = 2
    MaxMessages = 8
    Ids = {i1, i2}
    Agents = {a1}
    Owners = {o1, o2}
    Tools = {t1}
INVARIANTS
    HotLogIsTheLog SeqsGrow 
    LoggedGrantsWereAccepted EntriesHaveCalls
    WorkStays GivesUpLast TurnsBuyRoom
PROPERTIES
     
    MissesAreLearned ReserveIsLeft EveryRoundFrees
CHECK_DEADLOCK FALSE
