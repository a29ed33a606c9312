\* Tears, crashes and I/O errors everywhere; the log is not appended to after a tear.
SPECIFICATION Spec
CONSTANTS
  Branches = {"main", "s"}
  Tags = {"v1"}
  Commits = {0, 1, 2}
  Null = Null
  Main = "main"
  RootCommit = 0
  Batches <- MCBatches
  LegacyRefs <- MCLegacy
  CompactFloor = 1
  WriteAfterTear = FALSE
  PartialTruncate = FALSE
  MaxCalls = 3
  MaxFaults = 2
CHECK_DEADLOCK FALSE
INVARIANTS AckedSurvive ReplayBounded
PROPERTY ImplementsRefStore
