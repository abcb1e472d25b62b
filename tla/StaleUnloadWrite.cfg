SPECIFICATION Spec
CONSTANTS
    Runs = {r1}
    r1 = r1
    NoRun = NoRun
    MaxRuns = 1
    MaxInstances = 2
    MaxFaults = 0
    MayUnload = TRUE
    MayCrash = FALSE
SYMMETRY RunSymmetry
INVARIANT InterruptedMeansUnfinished
CHECK_DEADLOCK FALSE
