SPECIFICATION Spec
CONSTANTS
    GrainPeriod = 3
    SamplePeriod = 1
    Cushion = 2
    BufLen = 4
    MaxChunk = 3
    Depth = 1
    Skew = 1
    MaxBufs = 3
    MaxRuns = 2
    MaxTime = 12
CHECK_DEADLOCK FALSE
INVARIANTS OneWriterPerFlow HeadRetreatIsBounded
PROPERTIES PlacedNearNow StopReturns StoppedFlowIsRemoved
