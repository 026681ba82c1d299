SPECIFICATION FairSpec
CONSTANTS
    Requests <- FourRequests
    Clients = {a, b}
    Inputs <- TrafficInputs
    Max = 1
    RateLimited = TRUE
    Tracing = TRUE
    KeyConfigured = TRUE
    Horizon = 1
    Nothing = nothing
CONSTRAINTS
    InTurn
    TwoOrAlike
INVARIANTS
    AnswerTellsTruth
    OnlyAdmittedIsPublished
    LimiterExact
PROPERTIES
    EveryRequestAnswered
CHECK_DEADLOCK FALSE
