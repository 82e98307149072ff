CONSTANTS
    Runs <- TwoRuns
    Steps <- TwoSteps
    RunOf <- InTwoRuns
    Deps <- Fork
    Ephemeral = {"r"}
    Unique = {"r", "q"}
    DeadLetter = {"q"}
    MaxAttempts = 1
    Slots = {w1, w2}
    BootModes = {TRUE}
    Budget <- FaultCalls
    None = None
SPECIFICATION Spec
SYMMETRY SlotSymmetry
CHECK_DEADLOCK FALSE
INVARIANTS EphemeralLeavesNothing WaiterBacked
