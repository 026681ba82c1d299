SPECIFICATION FairSpec
CONSTANTS
    LastEvent = 3
    Malformed <- MalformedEvents
    Failing <- FailingEvents
    MaxReaders = 2
    MaxRestarts = 1
    MaxRebalances = 2
CONSTRAINT FewBreaks
INVARIANTS
    LostOnlyInHand
    GivenOncePerAssignment
PROPERTY
    EveryEventOffered
CHECK_DEADLOCK FALSE
