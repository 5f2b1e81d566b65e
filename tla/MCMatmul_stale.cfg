CONSTANTS
    Tile = 4
    Block = 8
    Group = 16
    GemvChunk = 4
    ChunksPerThread = 1
    KBlock = 2
    ColumnBlock = 8
    AccelRows = 5
    AccelSize = 7
    QuantColumnBlock = 8
    RowwiseRows = 3
    Few = 4
    Buffers = {b1, b2}
    External = {b2}
    ReuseWorkspace = FALSE
    MaxVersion = 2
    MaxGeneration = 2
    Calls <- Repeated
    LaterCalls <- Repeated
SPECIFICATION Spec
INVARIANT SharedActivationIsExact
CHECK_DEADLOCK FALSE
