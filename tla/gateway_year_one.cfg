SPECIFICATION Spec
CONSTANTS
    Requests = {r1}
    Clients = {a}
    Inputs <- ContentInputs
    Max = 1
    RateLimited = FALSE
    Tracing = TRUE
    KeyConfigured = TRUE
    Horizon = 0
    Nothing = nothing
INVARIANTS
    OmittedTimestampIsNow
CHECK_DEADLOCK FALSE
