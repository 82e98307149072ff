CONSTANTS
    Runs <- OneRun
    Steps <- TwoSteps
    RunOf <- InOneRun
    Deps <- Fork
    Ephemeral = {}
    Unique = {}
    DeadLetter = {}
    MaxAttempts = 1
    Slots = {w1, w2}
    BootModes = {TRUE}
    Budget <- SweepCalls
    None = None
SPECIFICATION Spec
CHECK_DEADLOCK FALSE
INVARIANT NoStrandedRun
