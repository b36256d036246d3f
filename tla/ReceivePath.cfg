SPECIFICATION Spec
CONSTANTS
    Byte <- Bytes
    First = 10
    Second = 11
    MaxFrame = 12
    Accepted <- Frames
    Heartbeats <- Beats
    Damage <- Errors
    Capacity = 2
    MaxSubscribes = 2
    MaxSent = 3
    MaxConnections = 2
CHECK_DEADLOCK FALSE
INVARIANTS
    FramesExact
    BytesAccounted
    NoHostage
    GapsExposed
    ConsumerWoken
