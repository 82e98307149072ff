CONSTANTS
    Sessions <- ThreeSessions
    Procs <- TwoProcs
    Proc <- InProcs
    Path <- Spellings
    Shared = FALSE
    Posix = FALSE
    Versions <- OldBuild
    MaxLines <- Lines
    LogCap = 1
    MaxBatch = 2
    Budget <- Faults
    Nobody = Nobody
SPECIFICATION Spec
CHECK_DEADLOCK FALSE
INVARIANTS SingleWriter AcceptedLinesKept
PROPERTIES SessionSettles
