SPECIFICATION FairSpec
CONSTANTS
    Environments <- MCEnvironments
    Requests = {r1, r2}
INVARIANTS
    ServesOnlyUsable
    ShutdownSparesRequests
    CleanExit
    FatalSparesShutdown
PROPERTY EndsAfterSignal
CHECK_DEADLOCK FALSE
