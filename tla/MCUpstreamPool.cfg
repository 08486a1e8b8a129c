SPECIFICATION Spec
CONSTANTS
    r1 = r1
    r2 = r2
    r3 = r3
    UTC = UTC
    None = None
    DayLength = 8
    WeekLength = 2
    Offset <- MCOffset
    Requests <- MCRequests
    Hash <- MCHash
    Upstreams <- MCUpstreams
    HostLimit <- MCHostLimit
    Leavers <- MCLeavers
    MaxTime = 1
    RRPeriod = 2
INVARIANTS
    SlotsBalanced
    HostBudgetRespected
    NoWaitOnClosed
PROPERTIES
    EveryRequestEnds
