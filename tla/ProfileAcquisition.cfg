SPECIFICATION Spec
CONSTANTS
    None = None
    Required <- Qualified
    Pushed <- Unasked
    Target = 1
    Cell = 2
    MaxReconnects = 1
    MaxTime = 2
    MaxAcquisitions = 2
    MaxOthers = 2
CHECK_DEADLOCK FALSE
INVARIANTS
    EveryBlockServed
    EvidenceCurrent
    PublishedLast
    AvoidedByPushes
    ValuesTruthful
PROPERTIES
    NoNeedlessRead
