CONSTANTS
    Runs <- OneRun
    Steps <- TwoSteps
    RunOf <- InOneRun
    Deps <- Fork
    Ephemeral = {}
    Unique = {}
    DeadLetter = {}
    MaxAttempts = 1
    Slots = {w1, w2}
    BootModes = {TRUE, FALSE}
    Budget <- CloseCalls
    None = None
SPECIFICATION FairSpec
CHECK_DEADLOCK FALSE
INVARIANT CloseLeavesNothing
PROPERTIES OutcomeIsFinal WaiterReleased TerminalRunSettles
