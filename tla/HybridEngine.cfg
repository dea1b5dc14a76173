SPECIFICATION VariantsSpec
CONSTANTS
    Configs <- ConfigsDef
    Steps = 3
INVARIANTS
    GeneratesLatest
    ComputesOnDevice
    DeviceShared
    OwnStreams
CHECK_DEADLOCK FALSE
