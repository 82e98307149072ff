CONSTANTS
    Nodes = {n1, n2}
    Period = 2
    MaxTime = 4
    Prompt = TRUE
    Budgets <- Scenarios
    NoRow = NoRow
SPECIFICATION Spec
CHECK_DEADLOCK FALSE
INVARIANTS OncePerOccurrence OneRunPerEmit
PROPERTIES OccurrencePasses
