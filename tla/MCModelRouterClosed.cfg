SPECIFICATION Spec
CONSTANTS
    r1 = r1
    r2 = r2
    Berlin = Berlin
    UTC = UTC
    None = None
    Absent = Absent
    DayLength = 3
    WeekLength = 2
    TailCap = 4
    MaxTime = 3
    Offset <- MCOffset
    Match <- MCMatch
    TrimSuffix <- MCTrimSuffix
    BadPatterns = {"["}
    Requests <- MCRequests
    Files <- MCGatedFiles
    Models = {"m1", "al", "pool", ""}
    Keys = {"ka", "kc"}
    Gates = {"queue_timeout"}
    Responses <- MCNoResponses
SYMMETRY MCSymmetry
INVARIANTS
    ClosedSkipped
