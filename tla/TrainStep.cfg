SPECIFICATION TrainersSpec
CONSTANTS
    Configs <- ConfigsDef
    Lengths = {1, 3}
    Validations <- ValidationsDef
    Scores = {0, 1}
    GenBatches = 4
    EpochBatches = 2
    TotalEpochs = 2
    AccuracyLower = 20
    AccuracyUpper = 80
    MaxResponseLength = 4
INVARIANTS
    NoAssertionFails
    RowsAligned
    AdvantageOfItsGroup
    RanksBalanced
    ValidationAligned
    OnlyGeneratedTrained
    GroupsQualified
CHECK_DEADLOCK FALSE
