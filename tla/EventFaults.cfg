SPECIFICATION FairSpec
CONSTANTS
    Lines <- ThreeLines
    LineCap = 3
    MaxEvents = 3
    MaxBytes = 5
    PageLimit = 2
    MaxLines = 4
    MaxFaults = 2
    MayForgetLive = TRUE
    MayPrune = TRUE
    MayCrash = TRUE
INVARIANT RowsSound
INVARIANT StoreFollows
INVARIANT ReaderGoesOn
PROPERTY NothingTwice
PROPERTY ReaderDrains
CHECK_DEADLOCK FALSE
