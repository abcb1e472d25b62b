SPECIFICATION FairSpec
CONSTANTS
    Lines <- ThreeLines
    LineCap = 3
    MaxEvents = 3
    MaxBytes = 5
    PageLimit = 2
    MaxLines = 5
    MaxFaults = 0
    MayForgetLive = FALSE
    MayPrune = TRUE
    MayCrash = FALSE
INVARIANT TypeOK
INVARIANT BufferSound
PROPERTY SkipsOnlyExpired
PROPERTY StreamSpec
CHECK_DEADLOCK FALSE
