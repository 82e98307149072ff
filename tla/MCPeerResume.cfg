CONSTANTS
    a = a
    b = b
    r = r
    Runs = {r}
    RunOf <- OneRun
    Steps = {a, b}
    Deps <- Chain
    Conc = 1
    Poll = 1
    IdleCap = 2
    Delays = {0, 2}
    ExternalTx = TRUE
    Overlap = TRUE
    Budget = 2
SPECIFICATION Spec
CHECK_DEADLOCK FALSE
PROPERTIES DueIsClaimed
