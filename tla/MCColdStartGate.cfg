SPECIFICATION Spec
CONSTANTS
    r1 = r1
    r2 = r2
    r3 = r3
    s1 = s1
    NoSession = NoSession
    Requests <- MCRequests
    SessionOf <- MCSessionOf
    Estimate <- MCSizes
    Ceiling = 2
    Threshold = 0
    CleanMedian = 1
    GrowthStep = 1
    FloorDivisor = 16
    RollWindow = 2
    MaxSamples = 1
    Interval = 2
    Window = 3
    PruneInterval = 2
    QueueCapacity = 1
    MaxTime = 4
INVARIANTS
    CountersAccounted
    NoLostWakeup
PROPERTIES
    ChargedOncePerWindow
