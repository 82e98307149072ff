CONSTANTS
    Runs <- TwoRuns
    Steps <- TwoSteps
    RunOf <- InTwoRuns
    Deps <- Fork
    Ephemeral = {"r", "q"}
    Unique = {"r", "q"}
    DeadLetter = {}
    MaxAttempts = 1
    Slots = {w1, w2}
    BootModes = {TRUE}
    Budget <- NoCalls
    None = None
SPECIFICATION Spec
SYMMETRY SlotSymmetry
CHECK_DEADLOCK FALSE
INVARIANT EphemeralDeleted
