SPECIFICATION Spec
CONSTANTS
    r1 = r1
    r2 = r2
    r3 = r3
    s1 = s1
    NoSession = NoSession
    Requests <- MCRequests
    SessionOf <- MCAllCold
    Estimate <- MCSizesControlled
    Ceiling = 4
    Threshold = 1
    CleanMedian = 1
    GrowthStep = 1
    FloorDivisor = 16
    RollWindow = 1
    MaxSamples = 1
    Interval = 0
    Window = 3
    PruneInterval = 9
    QueueCapacity = 1
    MaxTime = 3
INVARIANTS
    BudgetRespected
    NoLostWakeup
PROPERTIES
    BudgetFollowsEvidence
