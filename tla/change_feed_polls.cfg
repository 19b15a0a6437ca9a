SPECIFICATION Spec
CONSTANTS
    Pages = {p1, p2}
    BatchLimit = 1
    MaxChanges = 4
    MaxRequests = 3
    MaxFaults = 0
    MaxTools = 0
CONSTRAINT OnSQLite
SYMMETRY Symmetry
PROPERTY MissedOnlyByMovedCursor
CHECK_DEADLOCK FALSE
