SPECIFICATION Spec
CONSTANTS
    Messages = {m1, m2, m3}
    Dispatchers = {d1, d2}
    None = None
    MaxAttempts = 2
    Threshold = 2
    MaxDrops = 0
    MaxRedeliveries = 0
    MaxSwitches = 0
INVARIANT DisabledAfterConsecutiveFailures
CHECK_DEADLOCK FALSE
