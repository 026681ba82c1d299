SPECIFICATION FairSpec
CONSTANTS
    Subs = {s1, s2}
    LastEvent = 3
    Malformed <- MalformedEvents
    Poison <- PoisonEvents
    MaxFailures = 1
INVARIANTS
    NothingVanishes
    HandledAtMostOnce
    OfferedInOrder
PROPERTIES
    PoisonStarvesNobody
    GoroutineEnds
CHECK_DEADLOCK FALSE
