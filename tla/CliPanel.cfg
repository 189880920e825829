\* The panel of the web UI follows a publish; its EventSource reconnects.
SPECIFICATION CliSpec
CONSTANTS
    p1 = p1
    r1 = r1
    c1 = c1
    c2 = c2
    c3 = c3
    Publishes <- MCPublishes
    Rollbacks <- MCRollbacks
    Calls <- MCTwoCalls
    MaxEdits = 0
    MaxDbFaults = 1
    MaxDeaths = 1
    MaxDepFaults = 1
    MaxRounds = 3
    StartCommands <- MCCommands
    Followed = p1
    Reconnects = TRUE
    MaxStreams = 2
INVARIANTS
    TerminalOnce
CHECK_DEADLOCK FALSE
