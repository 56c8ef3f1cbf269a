SPECIFICATION RDMSpec
CONSTANTS
    Ring = 2
    Slices = 2
    Batch = 1
    LenSrc = 5
    LenDst = 5
    Count = 2
    Channels = 2
    IovLimit = 3
    MaxGrain = 4
    MaxSample = 11
    MaxAdds = 2
    MaxFaults = 1
CHECK_DEADLOCK FALSE
INVARIANTS CommittedDataWasTransferred OkMeansExecuted
