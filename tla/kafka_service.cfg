SPECIFICATION FairSpec
CONSTANTS
    Calls = {m1, m2}
    Probes = {h1}
    Writers = {w1}
    Main = main
    Nil = nil
    MaxAttempts = 2
    Reconnects = FALSE
INVARIANTS
    CountersExact
PROPERTIES
    SilentWhenDisconnected
    PublishContractHolds
    EverybodyReturns
