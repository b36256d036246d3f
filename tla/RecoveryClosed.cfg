SPECIFICATION Spec
CONSTANTS
    Acquirers = {a1}
    Owners = {o1}
    None = None
    Cancels = FALSE
    Blocks = 2
    MaxReconnects = 1
    MaxPerWindow = 1
    MaxDials = 2
    Window = 1
    MaxTime = 3
    MaxAcquisitions = 3
    MaxCalls = 3
CHECK_DEADLOCK FALSE
INVARIANTS
    ClosedDegraded
