CONSTANTS
    Programs <- Versions
    MaxCalls = 2
    Events <- EventNames
    Execs = {w1, w2}
    MaxAttempts = 2
    Budget <- AwaitCalls
SPECIFICATION FairSpec
CHECK_DEADLOCK FALSE
INVARIANTS EventReachesWaiter WakesOnTime
PROPERTY AwaitResolves
