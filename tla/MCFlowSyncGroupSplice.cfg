SPECIFICATION Spec
CONSTANTS
  v1 = v1
  a1 = a1
  a2 = a2
  End = End
  Readers = {v1, a1}
  Discrete = {v1}
  Period <- MCPeriod
  TotalSlices = 2
  MaxTime = 3
INVARIANTS
  OkMeansAllFlowsArrived
