\* One global pool of two pairs for two layers, two compute threads, one worker.
CONSTANTS
  a1 = a1
  a2 = a2
  b1 = b1
  L1 = L1
  L2 = L2
  s1 = s1
  s2 = s2
  c1 = c1
  c2 = c2
  w1 = w1
  w2 = w2
  Expert <- MCExpert
  Layer <- MCLayer
  LayerOf <- MCLayerOf
  Slot = {s1, s2}
  Component = {1}
  Worker = {w1}
  Client = {c1, c2}
  GlobalPool = TRUE
  TotalCapacity = 2
  LayerCapacity <- MCLayerCapacity
  MaxTasks = 1
  NoExpert = NoExpert
  NoSlot = NoSlot
  NoJob = NoJob
  Junk = Junk
SPECIFICATION Spec
SYMMETRY Symmetry
INVARIANTS
  TypeOK
  LeasesHoldTheirWeights
  PinsAreHolders
  NoLostWakeup
  CapacityRespected
