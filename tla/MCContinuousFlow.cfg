SPECIFICATION FiniteDeadlines
CONSTANTS
  r1 = r1
  Readers = {r1}
  BufferLength = 5
  IndexModulus = 64
  SyncBatchHint = 2
  CommitBatchHint = 1
  ReadCounts = {1, 2}
  WriteCounts = {1, 2}
  MaxIndex = 8
  MaxCommits = 3
  InOrder = TRUE
INVARIANTS
  FragmentsCoverWindow
  FreshReadIsNotOverwritten
PROPERTIES
  CallEndsByDeadline
