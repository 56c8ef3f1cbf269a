SPECIFICATION Spec
CONSTANTS
    Ring = 2
    Length = 8
    Window = 2
    Batch = 1
    Delay = 1
    Timeout = 2
    MinOffset = 1
    StartTime = 7
    MaxTime = 14
    LastFault = 8
    MaxGen = 2
    MaxRaises = 1
CHECK_DEADLOCK FALSE
PROPERTIES PushedIndexGrows CreatedInOrder OffsetOnlyGrows SkippedAudioIsMarked PlayerReconnects
