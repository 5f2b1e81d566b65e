\* Two tokens, four cells, chunks of two, zero or two drafts, with and without
\* recurrent states.
SPECIFICATION Spec
CONSTANTS
    Token = {a, b}
    NCtx = 4
    ChunkLimit = 2
    DraftChoices = {0, 2}
    MaxPrompt = 3
    MaxOut = 3
SYMMETRY TokenSymmetry
INVARIANTS TypeOK StateTellsOneText MtpFollowsText SampledFromItsHistory
PROPERTY ImplementsPlain
