SPECIFICATION Spec
CONSTANTS
  p1 = p1
  p2 = p2
  c1 = c1
  Instances = {p1, p2}
  Collectors = {c1}
  Formats = {"discrete", "continuous"}
  MaxGen = 2
  MaxRefs = 2
  MaxCrashes = 1
SYMMETRY Symmetry
INVARIANTS
  TypeOK
  ReleasedFlowIsDeleted
  ValidReaderMapsOneGeneration
  CreatorsShareTheFlow
