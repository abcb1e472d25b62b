SPECIFICATION FairSpec
CONSTANTS
    Runs = {r1, r2}
    r1 = r1
    r2 = r2
    Free = Free
    PageLimit = 1
    MaxEvents = 0
    MaxFaults = 0
    MayPrune = FALSE
INVARIANT SweepReachesAll
INVARIANT TableIsExact
INVARIANT ThreadsGoOn
PROPERTY CloseReturns
CHECK_DEADLOCK FALSE
