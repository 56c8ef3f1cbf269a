SPECIFICATION WatcherSpec
CONSTANTS
    Flows = {f1}
    Writers = {w1, w2}
    MaxGen = 2
    MaxTouch = 2
    MaxWd = 2
CHECK_DEADLOCK FALSE
INVARIANTS RegisteredFlowIsWatched NoWatchIsLeaked
PROPERTIES ReadIsNoticed StopReturns
