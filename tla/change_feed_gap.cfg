SPECIFICATION Spec
CONSTANTS
    Pages = {p1}
    BatchLimit = 2
    MaxChanges = 2
    MaxRequests = 1
    MaxFaults = 0
    MaxTools = 0
INVARIANT NoUncommittedBelowCursor
CHECK_DEADLOCK FALSE
