SPECIFICATION Spec
CONSTANTS
    Controls = {c1, c2}
    None = None
    Poller = poller
    Faults <- Refusals
    RequestBattery = FALSE
    SerialsConfigured = FALSE
    Retries = 2
    HoldEvery = 5
    MaxCached = 2
    EmptyBefore = 5
    BackoffEvery = 10
    PollInterval = 60
    MaxPolls = 2
    MaxWrites = 1
CHECK_DEADLOCK FALSE
PROPERTIES
    KeepsSiblings
