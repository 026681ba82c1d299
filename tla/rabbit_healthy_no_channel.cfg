SPECIFICATION Spec
CONSTANTS
    Calls = {m1}
    Probes = {}
    Conns = {c1}
    Main = main
    Nil = nil
    Reconnects = FALSE
INVARIANTS
    HealthyCanPublish
