\* A workspace key that outlives the workspace it describes.
SPECIFICATION Spec
CONSTANTS
    Cases <- WorkspaceCases
    NBuffers = 14
    MaxBytes = 3
    HcMinRows = 3
    MaxPasses = 3
INVARIANT WorkspaceHasItsShape
CHECK_DEADLOCK FALSE
