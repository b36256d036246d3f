SPECIFICATION Spec
CONSTANTS
    Acquirers = {a1, a2}
    Owners = {o1, o2}
    None = None
    Cancels = TRUE
    Blocks = 2
    MaxReconnects = 1
    MaxPerWindow = 1
    MaxDials = 2
    Window = 1
    MaxTime = 2
    MaxAcquisitions = 3
    MaxCalls = 3
CHECK_DEADLOCK FALSE
SYMMETRY Symmetry
INVARIANTS
    ClosedQuiet
    CleanReconnect
    RecoveriesSpaced
PROPERTIES
    OwnRun
    EpisodesRecorded
