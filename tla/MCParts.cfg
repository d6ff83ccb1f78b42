SPECIFICATION PartsSpec
CONSTANTS
    Instructions = 8
    MaxInputTokens = 17
    Texts = {12, 64}
    Summaries = {0, 8, 60}
    Enrichment = {0, 20}
    MaxTurns = 4
    Workers = {w1, w2}
    MaxExchanges = 2
    MaxStarts = 2
    MinChunk = 50
    TargetChunk = 100
    Durations = {40, 60}
    MaxFrames = 4
    MaxResults = 2
    Indices = {0, 1, 2}
    MaxParts = 2
    MaxDeltas = 2
    MaxTexts = 1
    ToolNames = {t1, t2, t3}
    Catalog = {t1, t2}
    Keys = {k1}
    MaxBindings = 2
    Limit = 2
    MaxRows = 6
    MaxPages = 5
    ChunkSize = 3
    Overlap = 2
    MaxLength = 5
INVARIANTS
    AcknowledgedIsDurable
    AnswerAfterItsQuestion
    SummaryIsPrefix
    NothingLost
    MadeSummaryIsSent
    RequestIsTight
    NoTurnLost
    CallsAreWhole
    ToolRunsAsBound
    WalkMissesNothing
    DocumentIsChunked
PROPERTIES
    ImplementsMemory
    CancelledStoresNothing
    TranscriptionEnds
CHECK_DEADLOCK FALSE
