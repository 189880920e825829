\* Rows and bubbles against ItemBoard; one question.
SPECIFICATION Spec
CONSTANTS
    Items = {"clarifying", "references", "compiled", "moodboard", "first", "second"}
    Messages = {"first", "second"}
    MaxLoads = 1
    MaxLost = 1
    MaxBacklog = 2
    MaxRounds = 1
    MaxReviewRejections = 1
    MaxEmptyEmits = 1
    RecursionLimit = 7
    MaxAsks = 1
    Refs = {"r1"}
    MaxScore = 1
    Threshold = 1
PROPERTY PageKeepsBoard
CHECK_DEADLOCK FALSE
