SPECIFICATION FairSpec
CONSTANTS
    MaxRequests = 2
    Objectives = {o1}
    Runners = {p1}
    Operators = {u1}
    Sessions = {s1}
    None = None
    Serialized = TRUE
    MaxCrashes = 1
    Workload = {"auto_advance", "local_target_mutation"}
PROPERTY ImplementsLifecycle
PROPERTY QueuedIsServed
PROPERTY StaleIsExpired
CHECK_DEADLOCK FALSE
