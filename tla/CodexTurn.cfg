\* Fair; three turns, each may run into a timeout, and one connection may break.
SPECIFICATION FairSpec
CONSTANTS
    MaxTurns = 3
    MaxTimeouts = 3
    MaxInterrupts = 2
    MaxAsks = 1
    MaxItems = 1
    MaxLosses = 1
INVARIANTS
    OwnOutcomeBarTimeouts
PROPERTIES
    EveryTurnEnds
    ControlReturns
CHECK_DEADLOCK FALSE
