SPECIFICATION Spec
CONSTANTS
    Environments <- MCEnvironments
    Requests = {r1, r2}
INVARIANT ShutdownLetsPublishesFinish
CHECK_DEADLOCK FALSE
