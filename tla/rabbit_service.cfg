SPECIFICATION FairSpec
CONSTANTS
    Calls = {m1, m2}
    Probes = {h1}
    Conns = {c1}
    Main = main
    Nil = nil
    Reconnects = FALSE
INVARIANTS
    TypeOK
    CountersExact
    StatsFromOneInstant
    NoOrphanConnection
PROPERTIES
    SilentWhenDisconnected
    PublishContractHolds
    EverybodyReturns
    WatchedLossIsNoticed
