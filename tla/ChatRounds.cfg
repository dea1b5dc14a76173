SPECIFICATION FairSpec
CONSTANTS
    Conversations = {c1, c2}
    Servers = {1, 2}
    MaxCacheSize = 2
    MaxAssistantTurns = 4
    PromptLength = 1
    ContextLimit = 4
    MaxToolCalls = 2
    NumBatches = 2
INVARIANTS
    DepthCountsOngoing
    DialogWellFormed
    ToolsOverBeforeFollowUp
PROPERTIES
    EveryBatchEnds
    RoundsSpec
CHECK_DEADLOCK FALSE
