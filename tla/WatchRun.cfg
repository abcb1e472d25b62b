SPECIFICATION FairSpec
CONSTANTS
    Runs = {r1}
    r1 = r1
    Free = Free
    PageLimit = 1
    MaxEvents = 3
    MaxFaults = 2
    MayPrune = TRUE
INVARIANT TypeOK
PROPERTY DeliverySpec
PROPERTY StoppedWatchersLeave
PROPERTY CompletionDelivered
CHECK_DEADLOCK FALSE
