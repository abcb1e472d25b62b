SPECIFICATION Spec
CONSTANTS
    Lines <- ThreeLines
    LineCap = 3
    MaxEvents = 2
    MaxBytes = 5
    PageLimit = 2
    MaxLines = 4
    MaxFaults = 0
    MayForgetLive = TRUE
    MayPrune = FALSE
    MayCrash = FALSE
INVARIANT PageAnswersCursor
CHECK_DEADLOCK FALSE
