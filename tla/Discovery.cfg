\* A page that reloads once and loses frames once; two codex messages; up to two
\* rounds of questions against a cap of one.
SPECIFICATION Spec
CONSTANTS
    Items = {"clarifying", "references", "compiled", "moodboard", "first", "second"}
    Messages = {"first", "second"}
    MaxLoads = 1
    MaxLost = 1
    MaxBacklog = 2
    MaxRounds = 1
    MaxReviewRejections = 1
    MaxEmptyEmits = 1
    RecursionLimit = 7
    MaxAsks = 2
    Refs = {"r1"}
    MaxScore = 1
    Threshold = 1
INVARIANTS
    StagesInOrder
    PageTellsRows
    ClosedOnReturn
    RoundsAccountedFor
CHECK_DEADLOCK FALSE
