SPECIFICATION Spec
CONSTANTS
    Requests = {r1}
    N = 3
    Weight <- MCWeight
    Cap <- MCCap
    Overflow = {1}
    Hashes = {0, 3}
    NoSession = NoSession
    RRPeriod = 6
INVARIANTS
    TiesNeverEmpty
