CONSTANTS
    Programs <- OneWait
    MaxCalls = 1
    Events <- EventNames
    Execs = {w1, w2}
    MaxAttempts = 2
    Budget <- OneEmit
SPECIFICATION Spec
CHECK_DEADLOCK FALSE
INVARIANT AwaitNotCharged
