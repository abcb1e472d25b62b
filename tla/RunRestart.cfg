SPECIFICATION Spec
CONSTANTS
    Runs = {r1, r2}
    r1 = r1
    r2 = r2
    NoRun = NoRun
    MaxRuns = 1
    MaxInstances = 2
    MaxFaults = 1
    MayUnload = TRUE
    MayCrash = TRUE
SYMMETRY RunSymmetry
INVARIANT TypeOK
INVARIANT ThreadsGoOn
INVARIANT ActiveRunsRetained
INVARIANT CapacityRespected
INVARIANT RefusedLeavesNothing
INVARIANT OutcomeIsEarned
INVARIANT SweptRunsAreDead
INVARIANT SettledRowAgrees
INVARIANT LiveChildIsSupervised
PROPERTY LedgerSpec
CHECK_DEADLOCK FALSE
