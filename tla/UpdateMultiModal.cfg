SPECIFICATION Spec
CONSTANTS
    Ranks = {1, 2}
    Jobs <- MultiModalJobs
    PromptLength = 2
    ResponseLength = 3
    LengthSet = {2, 5}
    MaxTokens = 5
    DictKeys = 7
INVARIANTS
    LossFactorsAddUp
CHECK_DEADLOCK FALSE
