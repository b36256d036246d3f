SPECIFICATION Spec
CONSTANTS
    Controls = {c1, c2}
    None = None
    Poller = poller
    Faults <- NoStray
    RequestBattery = TRUE
    SerialsConfigured = FALSE
    Retries = 2
    HoldEvery = 2
    MaxCached = 1
    EmptyBefore = 1
    BackoffEvery = 2
    PollInterval = 60
    MaxPolls = 3
    MaxWrites = 3
CHECK_DEADLOCK FALSE
SYMMETRY Symmetry
INVARIANTS
    ConfirmedKept
    ConfirmedShown
    CacheMatches
