CONSTANTS
    c1 = c1
    c2 = c2
    c3 = c3
    Callers <- ThreeCallers
    MaxConcurrency = 2
    MaxAttempts = 2
    MaxDeltas = 1
    FailureThreshold = 2
SPECIFICATION FairSpec
INVARIANTS
    LeaseHasHolder
    OneAttemptDelivers
PROPERTIES
    NoCallOnOpenCircuit
    CircuitRecovers
    PoolSpec
