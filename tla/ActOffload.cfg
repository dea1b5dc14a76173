SPECIFICATION Spec
CONSTANTS
    Sizes <- SizesDef
    MicroBatches = 2
INVARIANTS
    BackwardReadsOwn
    TwoGroupsResident
PROPERTIES
    MicroBatchesEnd
CHECK_DEADLOCK FALSE
