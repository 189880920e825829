\* Two tabs, three ticks; three creates and two deletes of one name, one fault.
SPECIFICATION Spec
CONSTANTS
    Tabs = {t1, t2}
    MaxCodesPerHour = 2
    CodeLife = 2
    Hour = 3
    MaxTime = 3
    MaxLogins = 3
    Creates = {p1, p2, p3}
    Deletes = {d1, d2}
    NoProject = noProject
    MaxWriters = 1
    MaxFaults = 1
INVARIANT UsedCodeLetIn
PROPERTIES
    RefusedOnlyLeftovers
    FilesSurvive
SYMMETRY MCSymmetry
CHECK_DEADLOCK FALSE
