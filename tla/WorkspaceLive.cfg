\* One request of every kind, the scavenger and two prompts, without symmetry.
SPECIFICATION CacheSpec
CONSTANTS
    r1 = r1
    s1 = s1
    s2 = s2
    a1 = a1
    a2 = a2
    None = None
    Requests = {r1}
    Sessions = {s1, s2}
    Addresses = {a1, a2}
    Kinds = {"ensure", "restart", "stop", "stopIde", "stopBrowser", "delete"}
    MaxFaults = 1
PROPERTIES
    IdleIsStopped
    PromptEnds
CHECK_DEADLOCK FALSE
