SPECIFICATION TrainersSpec
CONSTANTS
    Configs <- EndlessDef
    Lengths = {1}
    Validations <- ValidationsDef
    Scores = {0, 1}
    GenBatches = 4
    EpochBatches = 2
    TotalEpochs = 2
    AccuracyLower = 20
    AccuracyUpper = 80
    MaxResponseLength = 4
INVARIANTS
    RepeatsUntilEnough
CHECK_DEADLOCK FALSE
