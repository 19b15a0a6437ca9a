SPECIFICATION Spec
CONSTANTS
    MaxRequests = 1
    Objectives = {o1, o2}
    Runners = {p1}
    Operators = {u1}
    Sessions = {s1}
    None = None
    Serialized = TRUE
    MaxCrashes = 1
    Workload = {"webapp", "promote"}
INVARIANT ParkedIsIdle
CHECK_DEADLOCK FALSE
