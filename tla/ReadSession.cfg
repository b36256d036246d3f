SPECIFICATION Spec
CONSTANTS
    Callers = {p1, p2}
    Controllers = {c1, c2}
    Requested <- Both
    Pushed <- OnlyOther
    None = None
    MaxRequests = 2
    MaxCalls = 2
    MaxPushes = 1
SYMMETRY Symmetry
INVARIANTS
    PendingHasOwner
    Correlated
    FailureFences
    FreshSuccess
    ReconnectAlone
PROPERTIES
    KeepsPromise
CHECK_DEADLOCK FALSE
