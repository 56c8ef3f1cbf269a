SPECIFICATION FairSpec
CONSTANTS
  r1 = r1
  w1 = w1
  Readers = {r1}
  Writers = {w1}
  GrainCount = 1
  TotalSlices = 2
  MinSlices = {1, 2}
  SyncModulus = 8
  MaxIndex = 1
  MaxCommits = 2
  InOrder = TRUE
INVARIANTS TypeOK NoLostWakeup ReturnedGrainIsRequested
PROPERTIES ImplementsGrainRead
