SPECIFICATION Spec
CONSTANTS
    TotalSteps = 4
    SaveFreq = 2
    TestFreq = 1
    SaveBest = TRUE
    MaxActor = 2
    MaxCritic = 0
    UseCritic = TRUE
    Scores = {1, 2}
    ResumeModes = {"auto", "disable", "resume_path"}
    MaxLaunches = 3
INVARIANTS
    BestRetained
CHECK_DEADLOCK FALSE
