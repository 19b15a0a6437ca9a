SPECIFICATION FairSpec
CONSTANTS
    Tasks = {t1, t2}
    PoolSize = 2
    MaxSteps = 3
    MaxDepth = 3
    MaxChildren = 1
    MaxFaults = 1
    Adapters = {"sqlite", "postgres"}
    None = None
INVARIANTS TypeOK ResolvedIsKept NothingElseIsKept
PROPERTIES EveryCallEnds
CHECK_DEADLOCK FALSE
