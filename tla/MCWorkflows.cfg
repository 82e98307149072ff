CONSTANTS
    Inputs <- MixedInputs
    NodeW = 130
SPECIFICATION Spec
CHECK_DEADLOCK FALSE
INVARIANTS AcceptedIsOrdered DrawingSound
