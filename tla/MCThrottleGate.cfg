SPECIFICATION Spec
CONSTANTS
    Requests = {r1, r2, r3}
    Threshold = 2
    Window = 2
    Floor = 2
    MaxDelay = 6
    MaxPaced = 1
    MaxTime = 6
    MaxWindow = 4
SYMMETRY Symmetry
INVARIANTS
    DelayBounds
    SlotsAccounted
PROPERTIES
    RecoversOnlyWhenClean
