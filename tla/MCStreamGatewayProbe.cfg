CONSTANTS
    c1 = c1
    c2 = c2
    c3 = c3
    Callers <- ThreeCallers
    MaxConcurrency = 3
    MaxAttempts = 2
    MaxDeltas = 1
    FailureThreshold = 1
SPECIFICATION Spec
SYMMETRY CallerSymmetry
INVARIANT OneProbe
