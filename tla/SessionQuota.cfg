\* Two sessions of a user with one slot, each may be interrupted and outlive its slot.
SPECIFICATION Spec
CONSTANTS
    s1 = s1
    s2 = s2
    app = app
    ann = ann
    Sessions <- MCTwo
    Projects <- MCProjects
    Users <- MCUsers
    Project <- MCProject
    Owner <- MCOwner
    Chain <- MCDirect
    MaxGlobalRuns = 2
    MaxUserRuns = 1
    MaxInterrupts = 1
    MaxFaults = 0
    MaxCrashes = 0
    MaxOutlived = 2
SYMMETRY MCSymmetry
INVARIANTS
    AgentsWithinQuota
CHECK_DEADLOCK FALSE
