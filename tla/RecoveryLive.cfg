SPECIFICATION FairSpec
CONSTANTS
    Acquirers = {a1, a2}
    Owners = {o1, o2}
    None = None
    Cancels = TRUE
    Blocks = 1
    MaxReconnects = 1
    MaxPerWindow = 1
    MaxDials = 2
    Window = 1
    MaxTime = 0
    MaxAcquisitions = 2
    MaxCalls = 2
CHECK_DEADLOCK FALSE
PROPERTIES
    NestedLocksComeFree
