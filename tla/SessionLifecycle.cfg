\* Fair; two sessions of a user with one slot, each may be interrupted once.
SPECIFICATION FairSpec
CONSTANTS
    s1 = s1
    s2 = s2
    app = app
    ann = ann
    Sessions <- MCTwo
    Projects <- MCProjects
    Users <- MCUsers
    Project <- MCProject
    Owner <- MCOwner
    Chain <- MCMixed
    MaxGlobalRuns = 2
    MaxUserRuns = 1
    MaxInterrupts = 1
    MaxFaults = 0
    MaxCrashes = 0
    MaxOutlived = 0
INVARIANTS
    AckedIsSettled
    AgentsWithinQuota
PROPERTIES
    EverySessionEnds
CHECK_DEADLOCK FALSE
