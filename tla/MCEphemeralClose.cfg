CONSTANTS
    a = a
    b = b
    r1 = r1
    Runs = {r1}
    Steps = {a, b}
    RunOf <- InOneRun
    Deps <- Parallel
    Ephemeral = {r1}
    Nodes = {n1, n2}
    TTL = 1
    MaxAttempts = 1
    StableIDs = FALSE
    Budget <- OneStop
SPECIFICATION Spec
CHECK_DEADLOCK FALSE
PROPERTIES PeerWorkLeftAlone
