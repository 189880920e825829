\* Both limits bind; a session may outlive its TTL.
SPECIFICATION Spec
CONSTANTS
    ann = ann
    bob = bob
    s1 = s1
    s2 = s2
    s3 = s3
    Users <- MCUsers
    Sessions <- MCSessions
    Owner <- MCOwner
    MaxGlobalRuns = 2
    MaxUserRuns = 1
    TTL = 2
    MaxClock = 4
SYMMETRY MCSymmetry
INVARIANTS
    NoEarlyEviction
    FreshWithinCap
PROPERTIES
    KeepsLedger
CHECK_DEADLOCK FALSE
