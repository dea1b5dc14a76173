SPECIFICATION Spec
CONSTANTS
    TotalSteps = 4
    SaveFreq = 2
    TestFreq = 1
    SaveBest = TRUE
    MaxActor = 2
    MaxCritic = 2
    UseCritic = FALSE
    Scores = {1, 2}
    ResumeModes = {"auto"}
    MaxLaunches = 3
PROPERTIES
    BestScoreKept
CHECK_DEADLOCK FALSE
