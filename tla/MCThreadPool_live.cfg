\* Two workers and the owner, calls of both kinds, park, resume, resize.
CONSTANTS
  MaxThreads = 3
  Call <- MixedCalls
  MaxGenerations = 2
  NoCall = NoCall
SPECIFICATION FairSpec
INVARIANTS
  TypeOK
  NoLateWorker
  PendingCountsUnfinished
  NoWorkerIsForgotten
PROPERTIES
  CallReturns
  StopJoins
  ForkJoinSpec
