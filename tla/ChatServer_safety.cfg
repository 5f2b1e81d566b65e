SPECIFICATION FairServerSpec
CONSTANTS
    Token = {a, e}
    Eos = e
    NCtx = 3
    ChunkLimit = 2
    DraftChoices = {0, 2}
    MaxPrompt = 3
    MaxOut = 4
    Limits = {1, 3}
    MaxRequest = 3
INVARIANTS ServerTypeOK CacheIsEngineText ReplyContinuesPrompt
PROPERTIES EngineSpec RequestsAreAnswered
