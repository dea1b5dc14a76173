SPECIFICATION VariantsSpec
CONSTANTS
    Configs <- ResumedDef
    Steps = 2
INVARIANTS
    GeneratesLatest
CHECK_DEADLOCK FALSE
