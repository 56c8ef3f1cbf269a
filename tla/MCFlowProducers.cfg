SPECIFICATION ProducerSpec
CONSTANTS
    IndexPeriod = 3
    Jitter = 1
    Batch = 3
    Offset = 1
    FileLen = 3
    Slices = 3
    SliceBatch = 2
    MaxBuffer = 5
    MaxPos = 10
    MaxDrops = 2
    MaxFaults = 2
CHECK_DEADLOCK FALSE
INVARIANTS DataKeepsItsPlace LoopIsUnbroken
PROPERTY CommittedIsKept
