SPECIFICATION Spec
CONSTANTS
    Tasks = {t1}
    PoolSize = 1
    MaxSteps = 2
    MaxDepth = 2
    MaxChildren = 1
    MaxFaults = 0
    Adapters = {"postgres"}
    None = None
INVARIANTS CommitsWhenResolved
CHECK_DEADLOCK FALSE
