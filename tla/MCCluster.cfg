CONSTANTS
    a = a
    b = b
    r1 = r1
    Runs = {r1}
    Steps = {a, b}
    RunOf <- InOneRun
    Deps <- Chain
    Ephemeral = {}
    Nodes = {n1, n2}
    TTL = 1
    MaxAttempts = 2
    StableIDs = FALSE
    Budget <- Faults
SPECIFICATION Spec
CHECK_DEADLOCK FALSE
INVARIANTS SingleUnlessLapsed
PROPERTIES PeerWorkLeftAlone SuccessKept CrashedWorkRecovered
