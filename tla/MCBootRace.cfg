CONSTANTS
    Sessions <- ThreeSessions
    Procs <- TwoProcs
    Proc <- InProcs
    Path <- Spellings
    Shared = TRUE
    Posix = FALSE
    Versions <- SameBuild
    MaxLines <- Lines
    LogCap = 1
    MaxBatch = 2
    Budget <- NoFault
    Nobody = Nobody
SPECIFICATION Spec
CHECK_DEADLOCK FALSE
INVARIANT BootsTogether
