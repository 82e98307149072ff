CONSTANTS
    Runs <- OneRun
    Steps <- OneStep
    RunOf <- InOneRun
    Deps <- Fork
    Ephemeral = {"r"}
    Unique = {}
    DeadLetter = {}
    MaxAttempts = 1
    Slots = {w1, w2}
    BootModes = {TRUE}
    Budget <- OneCancel
    None = None
SPECIFICATION Spec
SYMMETRY SlotSymmetry
CHECK_DEADLOCK FALSE
INVARIANT CancelReachesExecutor
