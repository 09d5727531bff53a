\* The CUDA process: a failed warm-up closes it for good, so it may stop.
CONSTANTS
    r1 = r1
    r2 = r2
    r3 = r3
    s1 = s1
    s2 = s2
    Requests <- ThreeRequests
    Streams <- TwoStreams
    MaxConcurrency = 1
    QueueCapacity = 2
    Cuda = TRUE
SPECIFICATION FairSpec
INVARIANTS
    CountersExact
    DeviceNotShared
    WarmupAlone
PROPERTIES
    PoolSpec
    CallerAnswered
CHECK_DEADLOCK FALSE
