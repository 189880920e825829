\* A publish that `polaris publish` follows, next to a rollback, with a failing
\* transaction and a death of the API; or three calls of the dev-deps routes, with
\* a docker command or a commit that fails or a death of the API; or three publishes and rollbacks of manifests.
SPECIFICATION CliSpec
CONSTANTS
    p1 = p1
    r1 = r1
    c1 = c1
    c2 = c2
    c3 = c3
    Publishes <- MCPublishes
    Rollbacks <- MCRollbacks
    Calls <- MCCalls
    MaxEdits = 0
    MaxDbFaults = 1
    MaxDeaths = 1
    MaxDepFaults = 1
    MaxRounds = 3
    StartCommands <- MCCommands
    Followed = p1
    Reconnects = FALSE
    MaxStreams = 2
INVARIANTS
    TailComplete
    NoOrphan
    AuditFindsBareBins
PROPERTIES
    RowIsRecovered
    SiteKeepsSecrets
    EveryCommandReturns
CHECK_DEADLOCK FALSE
