SPECIFICATION FairSpec
CONSTANTS
    Messages = {m1}
    Dispatchers = {d1}
    None = None
    MaxAttempts = 2
    Threshold = 2
    MaxDrops = 0
    MaxRedeliveries = 0
    MaxSwitches = 0
PROPERTY AttemptsEnd
CHECK_DEADLOCK FALSE
