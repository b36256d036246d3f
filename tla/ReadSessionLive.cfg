SPECIFICATION FairSpec
CONSTANTS
    Callers = {p1, p2}
    Controllers = {c1}
    Requested <- OnlyShort
    Pushed <- NoRange
    None = None
    MaxRequests = 2
    MaxCalls = 2
    MaxPushes = 0
PROPERTIES
    EveryCallEnds
CHECK_DEADLOCK FALSE
