SPECIFICATION Spec
CONSTANTS
    Controls <- NoControl
    None = None
    Poller = poller
    Faults <- Timeouts
    RequestBattery = FALSE
    SerialsConfigured = FALSE
    Retries = 3
    HoldEvery = 5
    MaxCached = 2
    EmptyBefore = 5
    BackoffEvery = 10
    PollInterval = 60
    MaxPolls = 5
    MaxWrites = 0
CHECK_DEADLOCK FALSE
INVARIANTS
    StaleBounded
