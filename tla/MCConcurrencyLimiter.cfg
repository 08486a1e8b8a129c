SPECIFICATION FairSpec
CONSTANTS
    Requests = {r1, r2, r3}
    Cap = 1
    Reselectable = TRUE
INVARIANTS
    TypeOK
    SlotAccounting
    WaitersAccounting
    NoIdleSlotWhileParked
PROPERTIES
    NoBarging
    EveryRequestEnds
    ImplementsSemaphore
