SPECIFICATION Spec
CONSTANTS
    Pages = {p1}
    BatchLimit = 2
    MaxChanges = 2
    MaxRequests = 1
    MaxFaults = 1
    MaxTools = 0
CONSTRAINT OnSQLite
INVARIANT HelloLosesNothing
CHECK_DEADLOCK FALSE
