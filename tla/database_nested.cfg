SPECIFICATION Spec
CONSTANTS
    Tasks = {t1}
    PoolSize = 1
    MaxSteps = 3
    MaxDepth = 3
    MaxChildren = 1
    MaxFaults = 0
    Adapters = {"postgres"}
    None = None
INVARIANTS NestedIsUndone
CHECK_DEADLOCK FALSE
