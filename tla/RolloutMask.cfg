SPECIFICATION Spec
CONSTANTS
    Requests = {r1}
    Tools = {t1}
    HasInteraction = FALSE
    MaxAssistantTurns = 3
    MaxUserTurns = 0
    MaxModelLen = 12
    PromptLength = 4
    ResponseLength = 8
    AskLen = 1
    EndLen = 1
    ReplyLen = 1
    PromptSizes = {3}
    TextSizes = {1, 2}
    MaxCalls = 1
INVARIANT
    OnlyGeneratedTrained
CHECK_DEADLOCK FALSE
