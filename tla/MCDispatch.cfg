CONSTANTS
    a = a
    b = b
    r = r
    Runs = {r}
    RunOf <- OneRun
    Steps = {a, b}
    Deps <- Chain
    Conc = 1
    Poll = 1
    IdleCap = 2
    Delays = {0, 2}
    ExternalTx = TRUE
    Overlap = FALSE
    Budget = 3
SPECIFICATION Spec
CHECK_DEADLOCK FALSE
INVARIANTS NoOversleep
PROPERTIES DueIsClaimed
