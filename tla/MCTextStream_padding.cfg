\* The same up to the last row of the cache: padding rows without room.
CONSTANTS
  Token <- MCToken
  Zero = 0
  Pad = 9
  Absent = Absent
  NCtx = 5
  Heads = 2
  TopK = 2
  KeyScore <- MCKeyScore
  Ratio = 2
  Overlap = TRUE
  Indexed = TRUE
  WindowSize = 2
  EntryScore <- MCEntryScore
  Filler = 0
  ConvKernel = 3
  NgramSize = 3
  Eos = 3
  DilatedKernel = 2
  Dilation = 2
  Kind <- Kinds
  GraphLen = 3
  StaticPadded = TRUE
  MaxText <- ToTheLastRow
SPECIFICATION Spec
INVARIANTS
  OutputsFollowText
