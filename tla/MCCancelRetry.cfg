CONSTANTS
    Runs <- OneRun
    Steps <- OneStep
    RunOf <- InOneRun
    Deps <- Fork
    Ephemeral = {}
    Unique = {}
    DeadLetter = {}
    MaxAttempts = 2
    Slots = {w1, w2}
    BootModes = {TRUE}
    Budget <- OneCancel
    None = None
SPECIFICATION Spec
SYMMETRY SlotSymmetry
CHECK_DEADLOCK FALSE
INVARIANT DeadRunNotRetried
