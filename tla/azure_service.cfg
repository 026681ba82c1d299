SPECIFICATION OneSideSpec
CONSTANTS
    Calls = {m1, m2}
    Probes = {h1}
    Subs = {s1}
    Main = main
    Nil = nil
    LastEvent = 2
    Malformed <- MalformedEvents
    BatchSize = 2
    MaxDeliveries = 2
INVARIANTS
    CountersExact
    AcceptedOnceUnlessExpired
PROPERTIES
    SilentWhenDisconnected
    PublishContractHolds
    EveryEventSettled
    CancelEnds
    EverybodyReturns
CHECK_DEADLOCK FALSE
