CONSTANTS
    Runs <- OneRun
    Steps <- ThreeSteps
    RunOf <- InOneRun
    Deps <- Join
    Ephemeral = {}
    Unique = {}
    DeadLetter = {}
    MaxAttempts = 1
    Slots = {w1, w2}
    BootModes = {TRUE}
    Budget <- CrashCalls
    None = None
SPECIFICATION Spec
SYMMETRY SlotSymmetry
CHECK_DEADLOCK FALSE
INVARIANTS NoStrandedRun DependencyOrder
PROPERTY CompletedStepKept
