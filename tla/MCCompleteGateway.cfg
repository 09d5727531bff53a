CONSTANTS
    a1 = a1
    a2 = a2
    a3 = a3
    a4 = a4
    Callers <- FourCallers
    MaxConcurrency = 2
    MaxAttempts = 3
    FailureThreshold = 3
SPECIFICATION FairSpec
INVARIANTS
    NoStrandedWaiter
    HalfOpenIsLeased
PROPERTIES
    CallReturns
    PoolSpec
