CONSTANTS
    Inputs <- MixedInputs
    NodeW = 130
SPECIFICATION Spec
CHECK_DEADLOCK FALSE
\* The second statement of the README: GroupsInOrder in its place.
INVARIANT EveryDependencyDrawn
