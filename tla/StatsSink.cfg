\* Fair; six bumps, one UPDATE may fail.
SPECIFICATION FairStatsSpec
CONSTANTS
    MaxBumps = 6
    MaxFailures = 1
INVARIANTS
    NeverOvercounts
PROPERTIES
    FinalizeEnds
CHECK_DEADLOCK FALSE
