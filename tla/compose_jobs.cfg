SPECIFICATION FairSpec
CONSTANTS
    Deliveries = {d1}
    Workers = {w1, w2}
    None = None
    MaxAttempts = 2
    MaxLapses = 1
    MaxFaults = 3
    MaxMoves = 1
INVARIANT TypeOK
INVARIANT ExtraAttemptsAreLapses
INVARIANT OneWorkerPerLease
PROPERTY ImplementsReport
PROPERTY EveryJobIsFinished
PROPERTY EveryDeliveryIsPresented
CHECK_DEADLOCK FALSE
