\* Fair, but for the timeout; two requests, two submits, one control message,
\* one page load.
SPECIFICATION FairSpec
CONSTANTS
    yes = yes
    no = no
    u1 = u1
    u2 = u2
    MaxRequests = 2
    Answers <- MCAnswers
    Submits <- MCSubmits
    MaxControls = 1
    MaxLoads = 1
PROPERTIES
    WaitsKeepLedger
    AnswerUnblocks
CHECK_DEADLOCK FALSE
