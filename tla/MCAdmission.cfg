CONSTANTS
    x = x
    y = y
    z = z
    Runs = {x, y, z}
    Scenarios <- All
    Batches <- Calls
    Clients = {c1, c2}
    Queues = {"main"}
    Slots <- QSlots
    Window = 1
    WorkerLabels = {}
    MaxTries = 3
    None = None
SPECIFICATION Spec
CHECK_DEADLOCK FALSE
INVARIANTS LimitsRespected SequenceOrder EnqueuePromises
PROPERTIES Admitted
