CONSTANTS
    Runs <- OneRun
    Steps <- OneStep
    RunOf <- InOneRun
    Deps <- Fork
    Ephemeral = {}
    Unique = {}
    DeadLetter = {}
    MaxAttempts = 1
    Slots = {w1, w2}
    BootModes = {FALSE}
    Budget <- PauseAndBoot
    None = None
SPECIFICATION Spec
SYMMETRY SlotSymmetry
CHECK_DEADLOCK FALSE
INVARIANT FailedStepFailsRun
