\* Fair; two publishes and a rollback; one edit, one failing transaction, one
\* death of the API.
SPECIFICATION FairSpec
CONSTANTS
    p1 = p1
    p2 = p2
    r1 = r1
    Publishes <- MCPublishes
    Rollbacks <- MCRollbacks
    MaxEdits = 1
    MaxDbFaults = 1
    MaxDeaths = 1
INVARIANTS
    LiveIsSmoked
    LiveIsHead
PROPERTIES
    EveryPublishEnds
CHECK_DEADLOCK FALSE
