\* Two API requests of every kind, the scavenger, and two prompts whose runs
\* share the cached connection; one docker command or turn fails by itself.
SPECIFICATION CacheSpec
CONSTANTS
    r1 = r1
    r2 = r2
    s1 = s1
    s2 = s2
    a1 = a1
    a2 = a2
    None = None
    Requests = {r1, r2}
    Sessions = {s1, s2}
    Addresses = {a1, a2}
    Kinds = {"ensure", "restart", "stop", "stopIde", "stopBrowser", "delete"}
    MaxFaults = 1
SYMMETRY Symmetry
INVARIANTS
    RowTellsTruth
    OneBrowserSession
    OneOpenConnection
CHECK_DEADLOCK FALSE
