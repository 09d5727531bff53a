CONSTANTS
    a1 = a1
    a2 = a2
    a3 = a3
    a4 = a4
    Callers <- ThreeCallers
    MaxConcurrency = 2
    MaxAttempts = 2
    FailureThreshold = 1
SPECIFICATION Spec
INVARIANT LeaseHasHolder
