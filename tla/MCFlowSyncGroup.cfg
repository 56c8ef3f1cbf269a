SPECIFICATION FairSpec
CONSTANTS
  v1 = v1
  a1 = a1
  a2 = a2
  End = End
  Readers = {v1, a1, a2}
  Discrete = {v1}
  Period <- MCPeriod
  TotalSlices = 2
  MaxTime = 2
INVARIANTS
  ListedFlowsHaveArrived
  ListHoldsMembersOnce
PROPERTIES
  WaitReturns
