\* Every request of the runtime routes returns.
SPECIFICATION Spec
CONSTANTS
    None = None
    Requests = {r1, r2}
    Sessions = {s1}
    Kinds = {"ensure", "restart", "stop", "delete"}
    MaxFaults = 0
PROPERTIES
    RequestsReturn
CHECK_DEADLOCK FALSE
