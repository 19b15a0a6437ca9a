SPECIFICATION FairSpec
CONSTANTS
    Messages = {m1}
    Dispatchers = {d1, d2}
    None = None
    MaxAttempts = 2
    Threshold = 2
    MaxDrops = 1
    MaxRedeliveries = 2
    MaxSwitches = 1
INVARIANT TypeOK
INVARIANT DecisionIsEarned
INVARIANT StrandedOnlyByDrop
INVARIANT DisabledAfterFailures
PROPERTY EveryMessageIsDecided
CHECK_DEADLOCK FALSE
