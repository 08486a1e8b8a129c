SPECIFICATION FairSpec
CONSTANTS
    Good = {g1, g2}
    Unloadable = {u1}
    Unbuildable = {b1}
    NoConfig = NoConfig
    MaxSignals = 3
INVARIANTS
    ActiveIsConsistent
    NoMissedReload
PROPERTIES
    EditApplied
CHECK_DEADLOCK FALSE
