SPECIFICATION Spec
CONSTANTS
    MaxRequests = 1
    Objectives = {o1}
    Runners = {p1, p2}
    Operators = {u1}
    Sessions = {s1}
    None = None
    Serialized = FALSE
    MaxCrashes = 1
    Workload = {"webapp"}
INVARIANT StoppedIsIdle
CHECK_DEADLOCK FALSE
