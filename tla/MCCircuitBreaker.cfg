SPECIFICATION Spec
CONSTANTS
    Requests = {r1, r2, r3}
    Threshold = 2
    OpenPeriod = 2
    MaxTime = 4
SYMMETRY Symmetry
INVARIANTS
    TypeOK
    CountMatchesState
    FailuresConsecutive
    NoWedge
