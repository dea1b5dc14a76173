SPECIFICATION Spec
CONSTANTS
    Conversations = {c1, c2}
    Servers = {1, 2}
    MaxCacheSize = 2
    MaxAssistantTurns = 0
    PromptLength = 1
    ContextLimit = 4
    MaxToolCalls = 1
    NumBatches = 1
INVARIANT
    ResponsesNotEmpty
CHECK_DEADLOCK FALSE
