\* Chains of views, fused chains and stateful nodes on the three backends.
SPECIFICATION Spec
CONSTANTS
    Cases <- SafetyCases
    NBuffers = 14
    MaxBytes = 3
    HcMinRows = 3
    MaxPasses = 2
INVARIANTS TypeOK PlanSparesReaders LiveValuesIntact OwnersAreExact NothingLeftDeferred
CHECK_DEADLOCK FALSE
