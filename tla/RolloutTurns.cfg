SPECIFICATION FairSpec
CONSTANTS
    Requests = {r1, r2}
    Tools = {t1, t2}
    HasInteraction = TRUE
    MaxAssistantTurns = 3
    MaxUserTurns = 1
    MaxModelLen = 14
    PromptLength = 4
    ResponseLength = 9
    AskLen = 1
    EndLen = 2
    ReplyLen = 1
    PromptSizes = {3, 11}
    TextSizes = {0, 2}
    MaxCalls = 2
INVARIANTS
    TokensFollowMessages
    EngineFits
    ResponseAligned
    CallsAnswered
    InstancesReleased
PROPERTIES
    EveryRequestEnds
CHECK_DEADLOCK FALSE
