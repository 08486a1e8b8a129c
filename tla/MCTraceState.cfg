SPECIFICATION TraceFairSpec
CONSTANTS
    TTL = 2
    MaxEnables = 3
    MaxTime = 8
INVARIANTS
    OneLiveTimer
PROPERTIES
    TracingStops
