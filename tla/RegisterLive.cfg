SPECIFICATION FairSpec
CONSTANTS
    Controls = {c1, c2}
    None = None
    Poller = poller
    Faults <- EveryFault
    RequestBattery = FALSE
    SerialsConfigured = FALSE
    Retries = 2
    HoldEvery = 1
    MaxCached = 1
    EmptyBefore = 1
    BackoffEvery = 2
    PollInterval = 60
    MaxPolls = 2
    MaxWrites = 2
CHECK_DEADLOCK FALSE
PROPERTIES
    LockComesFree
