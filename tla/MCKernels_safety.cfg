CONSTANTS
    Tile = 4
    Block = 8
    Group = 16
    GemvChunk = 4
    ChunksPerThread = 1
    KBlock = 2
    ColumnBlock = 8
    AccelRows = 5
    AccelSize = 7
    QuantColumnBlock = 8
    RowwiseRows = 3
    Few = 4
    Buffers = {b1, b2}
    External = {b2}
    ReuseWorkspace = TRUE
    MaxVersion = 2
    MaxGeneration = 2
    Calls <- EveryCall
    LaterCalls <- Repeated
    KeyBlock = 8
    Window = 3
    Threads = 16
    HeadDim = 8
    KeyLanes = 2
    ValuePairs = 2
    Warp = 8
    DecodeThreads = 8
    SharedKeys = 2
    MidKeys = 1
    LongKeys = 3
    PairedKeys = 4
    FarKeys = 5
    GroupQueries = 2
    GemmQueries = 2
    GemmHeads = 4
    ExactQueries = 8
    SplitSlots = 4
    Partitions = 3
    SelectTile = 4
    FeatureTile = 8
    IndexGroups = 2
    SortTile = 4
    Logit <- MCLogit
    SinkLogit <- MCSinkLogit
    IndexLogit <- MCIndexLogit
    AttentionCalls <- EveryAttention
SPECIFICATION KernelsSpec
INVARIANTS OutputsAreProducts AttentionIsExact JobsAreIndependent
CHECK_DEADLOCK FALSE
