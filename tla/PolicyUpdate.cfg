SPECIFICATION Spec
CONSTANTS
    Ranks = {1, 2}
    Jobs <- JobsDef
    PromptLength = 2
    ResponseLength = 3
    LengthSet = {2, 5}
    MaxTokens = 5
    DictKeys = 7
INVARIANTS
    InferredInOrder
    GradientIsMiniBatch
    LossFactorsAddUp
    RandomnessUndisturbed
    NoRankWaits
CHECK_DEADLOCK FALSE
