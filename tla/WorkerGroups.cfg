\* Worker groups and servers on instances of two to eight workers.
SPECIFICATION Spec
CONSTANTS
    Configs <- MCConfigs
    MaxRestarts = 2
    MaxRounds = 2
INVARIANTS
    RowsReturned
    EnginesDriveTheirRanks
PROPERTIES
    TrainingEnds
\* A training ends.
CHECK_DEADLOCK FALSE
