SPECIFICATION FairSpec
CONSTANTS
    MaxRequests = 1
    Objectives = {o1}
    Runners = {p1}
    Operators = {u1}
    Sessions = {s1}
    None = None
    Serialized = TRUE
    MaxCrashes = 1
    Workload = {"webapp"}
PROPERTY LaunchingIsExpired
CHECK_DEADLOCK FALSE
