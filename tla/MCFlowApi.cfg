SPECIFICATION Spec
CONSTANTS
  Instances = {i1, i2}
  Requests <- MCRequests
  DomainOptions <- MCDomainOptions
  DefaultHistory = 40
  Second = 200
  PageSize = 64
  GrainSize = 16
  Undefined = 1000000
  MaxGen = 2
  MaxRefs = 2
  MaxIndex = 1
INVARIANT WriterKeepsItsFlow
INVARIANT GeometryFits
INVARIANT IndexAndTimeAgree
VIEW View
SYMMETRY Symmetry
