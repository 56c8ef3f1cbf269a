SPECIFICATION Spec
CONSTANTS
    Targets = {t1}
    MaxEndpoints = 2
    GroupWrites = 2
    MaxWrites = 2
    MaxFaults = 1
CHECK_DEADLOCK FALSE
INVARIANTS OkMeansDelivered OneInitiatorPerTarget
PROPERTIES ShutdownEndsInEviction ConnectIsRetried
