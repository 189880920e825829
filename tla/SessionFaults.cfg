\* Fair; one session, two calls may fail, the worker may crash once.
SPECIFICATION FairSpec
CONSTANTS
    s1 = s1
    s2 = s2
    app = app
    ann = ann
    Sessions <- MCOne
    Projects <- MCProjects
    Users <- MCUsers
    Project <- MCProject
    Owner <- MCOwner
    Chain <- MCMixed
    MaxGlobalRuns = 1
    MaxUserRuns = 1
    MaxInterrupts = 2
    MaxFaults = 2
    MaxCrashes = 1
    MaxOutlived = 1
INVARIANTS
    SlotCoversRun
    ChainInOrder
    FailedCreateHoldsNoSlot
PROPERTIES
    SessionsKeepContract
    InterruptRecovers
CHECK_DEADLOCK FALSE
