CONSTANTS
    Programs <- Versions
    MaxCalls = 2
    Events <- EventNames
    Execs = {w1, w2}
    MaxAttempts = 2
    Budget <- JournalCalls
SPECIFICATION Spec
SYMMETRY SlotSymmetry
CHECK_DEADLOCK FALSE
INVARIANTS ReplayAgrees MemoSpares
PROPERTIES JournalIsLog WaitIsDecidedOnce
