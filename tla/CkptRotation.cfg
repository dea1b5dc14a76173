SPECIFICATION FairSpec
CONSTANTS
    TotalSteps = 8
    SaveFreq = 2
    TestFreq = 0
    SaveBest = FALSE
    MaxActor = 2
    MaxCritic = 2
    UseCritic = TRUE
    Scores = {1}
    ResumeModes = {"auto"}
    MaxLaunches = 4
INVARIANTS
    TrackerLoadable
    DataInStep
PROPERTIES
    DurableSpec
    JobCompletes
CHECK_DEADLOCK FALSE
