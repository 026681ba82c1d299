SPECIFICATION Spec
CONSTANTS
    LastEvent = 3
    Malformed <- MalformedEvents
    Failing <- FailingEvents
    MaxReaders = 2
    MaxRestarts = 1
    MaxRebalances = 1
INVARIANT HandlerErrorRetried
CHECK_DEADLOCK FALSE
