SPECIFICATION Spec
CONSTANTS
    MaxRequests = 1
    Objectives = {o1, o2}
    Runners = {p1, p2}
    Operators = {u1}
    Sessions = {s1}
    None = None
    Serialized = TRUE
    MaxCrashes = 1
    Workload = {"webapp", "auto_advance", "promote", "discard", "resume"}
SYMMETRY Symmetry
INVARIANT StoppedIsIdle
INVARIANT LinkedToOwnObjective
CHECK_DEADLOCK FALSE
