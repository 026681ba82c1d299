SPECIFICATION Spec
CONSTANTS
    Requests = {r1}
    Clients = {a}
    Inputs <- ContentInputs
    Max = 1
    RateLimited = FALSE
    Tracing = TRUE
    KeyConfigured = TRUE
    Horizon = 0
    Nothing = nothing
INVARIANTS
    TypeOK
    ForwardedIsValid
    SpanFailsWithAnswer
CHECK_DEADLOCK FALSE
