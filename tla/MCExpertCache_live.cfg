\* One layer of two pairs, a pool of one, reads split in two, two workers.
CONSTANTS
  a1 = a1
  a2 = a2
  b1 = b1
  L1 = L1
  L2 = L2
  s1 = s1
  s2 = s2
  c1 = c1
  c2 = c2
  w1 = w1
  w2 = w2
  Expert <- OneExpert
  Layer <- OneLayer
  LayerOf <- OneLayerOf
  Slot = {s1}
  Component = {1, 2}
  Worker = {w1, w2}
  Client = {c1}
  GlobalPool = FALSE
  TotalCapacity = 1
  LayerCapacity <- OneLayerCapacity
  MaxTasks = 1
  NoExpert = NoExpert
  NoSlot = NoSlot
  NoJob = NoJob
  Junk = Junk
SPECIFICATION FairSpec
INVARIANTS
  ReadsMatchEntries
PROPERTIES
  BorrowReturns
  StopCompletes
  ProviderSpec
