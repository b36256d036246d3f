SPECIFICATION LiveSpec
CONSTANTS
  EventCapacity = 2
  RequestCapacity = 1
  FailureCapacity = 1
  FailureEventContext = 1
  MaxRequests = 2
  MaxConnections = 2
  MaxOthers = 1
INVARIANTS
  Attributed
  RecordsConsistent
  EpisodesReachBack
PROPERTIES
  EveryRequestRecorded
CHECK_DEADLOCK FALSE
