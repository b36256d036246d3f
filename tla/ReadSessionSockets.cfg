SPECIFICATION Spec
CONSTANTS
    Callers = {p1}
    Controllers = {c1, c2}
    Requested <- OnlyShort
    Pushed <- NoRange
    None = None
    MaxRequests = 3
    MaxCalls = 4
    MaxPushes = 0
INVARIANTS
    NoSocketLeft
CHECK_DEADLOCK FALSE
