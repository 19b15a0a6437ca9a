SPECIFICATION Spec
CONSTANTS
    MaxRequests = 1
    Objectives = {o1}
    Runners = {p1, p2}
    Operators = {u1}
    Sessions = {s1}
    None = None
    Serialized = FALSE
    MaxCrashes = 1
    Workload = {"webapp", "resume", "discard", "local_target_mutation"}
SYMMETRY Symmetry
INVARIANT TypeOK
INVARIANT HeldByOwner
PROPERTY ImplementsLifecycle
PROPERTY SpawnedOnce
CHECK_DEADLOCK FALSE
