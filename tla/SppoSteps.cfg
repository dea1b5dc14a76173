SPECIFICATION TrainersSpec
CONSTANTS
    Configs <- SppoStepsDef
    Lengths = {1}
    Validations <- ValidationsDef
    Scores = {0, 1}
    GenBatches = 4
    EpochBatches = 2
    TotalEpochs = 2
    AccuracyLower = 20
    AccuracyUpper = 80
    MaxResponseLength = 4
INVARIANTS
    StepIsIteration
CHECK_DEADLOCK FALSE
