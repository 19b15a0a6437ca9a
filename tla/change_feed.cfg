SPECIFICATION FairSpec
CONSTANTS
    Pages = {p1}
    BatchLimit = 1
    MaxChanges = 3
    MaxRequests = 2
    MaxFaults = 1
    MaxTools = 1
INVARIANT TypeOK
INVARIANT NothingIsForgotten
PROPERTY MissedOnlyByMovedCursor
PROPERTY EveryChangeIsTold
PROPERTY EveryToolIsSeen
CHECK_DEADLOCK FALSE
