SPECIFICATION Spec
CONSTANTS
    r1 = r1
    r2 = r2
    Berlin = Berlin
    UTC = UTC
    None = None
    Absent = Absent
    DayLength = 3
    WeekLength = 2
    TailCap = 4
    MaxTime = 3
    Offset <- MCOffset
    Match <- MCMatch
    TrimSuffix <- MCTrimSuffix
    BadPatterns = {"["}
    Requests <- MCRequests
    Files <- MCFiles
    Models = {"m1", "al", "pool", ""}
    Keys = {"ka", "kc"}
    Gates = {"queue_timeout"}
    Responses <- MCResponses
SYMMETRY MCSymmetry
INVARIANTS
    RoutedAsDeclared
    ClosedSkipped
    LiftedByOwnList
    GaugeBalanced
    WindowHalfOpen
    LoadedIsServable
    UsageFaithful
