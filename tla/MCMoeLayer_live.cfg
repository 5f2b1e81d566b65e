\* Three layers of four experts in groups of 1, 1 and 2; room for four pairs.
CONSTANTS
  NExperts = 4
  TopK = 2
  NGroups = 3
  TopGroups = 2
  MinusInf = 0
  NLayers = 3
  Capacity = 4
  Shallow = 1
  Setups <- MCSetups
  Scores <- MCScores
  HashRoutes <- MCHashRoutes
SPECIFICATION FairSpec
INVARIANTS
  MoeTypeOK
  OutputsAddUp
PROPERTIES
  AdviceSparesRoute
  PassesEnd
CHECK_DEADLOCK FALSE
