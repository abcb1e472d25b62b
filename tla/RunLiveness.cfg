SPECIFICATION FairSpec
CONSTANTS
    Runs = {r1, r2}
    r1 = r1
    r2 = r2
    NoRun = NoRun
    MaxRuns = 1
    MaxInstances = 1
    MaxFaults = 1
    MayUnload = TRUE
    MayCrash = TRUE
PROPERTY PromptSettles
PROPERTY CloseCompletes
PROPERTY ExitIsRecorded
PROPERTY CancelledNeverCompleted
CHECK_DEADLOCK FALSE
