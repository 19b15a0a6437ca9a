SPECIFICATION FairSpec
CONSTANTS
    Runners = {r1}
    MaxCalls = 2
    None = None
    Workspaces = 2
    MaxRequests = 2
    MaxFaults = 1
    MaxTurns = 1
INVARIANT TypeOK
INVARIANT NoWakeIsMissed
PROPERTY EveryRequestIsDecided
CHECK_DEADLOCK FALSE
