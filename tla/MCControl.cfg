CONSTANTS
    Runs <- OneRun
    Steps <- TwoSteps
    RunOf <- InOneRun
    Deps <- Fork
    Ephemeral = {}
    Unique = {}
    DeadLetter = {}
    MaxAttempts = 2
    Slots = {w1, w2}
    BootModes = {TRUE}
    Budget <- ControlCalls
    None = None
SPECIFICATION Spec
SYMMETRY SlotSymmetry
CHECK_DEADLOCK FALSE
INVARIANTS SingleExecution SucceededMeansAll RunningIsOwned BudgetRespected CancellationNotCharged SuspensionConverges
