\* Texts of up to five tokens, padded chunks of three rows, room for the padding.
CONSTANTS
  Token <- MCToken
  Zero = 0
  Pad = 9
  Absent = Absent
  NCtx = 6
  Heads = 2
  TopK = 2
  KeyScore <- MCKeyScore
  Ratio = 2
  Overlap = TRUE
  Indexed = TRUE
  WindowSize = 2
  EntryScore <- MCEntryScore
  Filler = 0
  ConvKernel = 3
  NgramSize = 3
  Eos = 3
  DilatedKernel = 2
  Dilation = 2
  Kind <- Kinds
  GraphLen = 3
  StaticPadded = TRUE
  MaxText <- RoomForPadding
SPECIFICATION Spec
INVARIANTS
  StreamTypeOK
  OutputsFollowText
