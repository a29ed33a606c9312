\* A torn tail is found at open and the log is appended to.
SPECIFICATION Spec
CONSTANTS
  Branches = {"main", "s"}
  Tags = {"v1"}
  Commits = {0, 1, 2}
  Null = Null
  Main = "main"
  RootCommit = 0
  Batches <- MCBatches
  LegacyRefs <- MCLegacy
  CompactFloor = 1
  WriteAfterTear = TRUE
  PartialTruncate = FALSE
  MaxCalls = 3
  MaxFaults = 2
CHECK_DEADLOCK FALSE
INVARIANT AckedSurvive
