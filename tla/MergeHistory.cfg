\* One thread merges three branches, one writer to a branch; a rewind or a crash.
SPECIFICATION Spec
CONSTANTS
  MinInt <- MCMin
  MaxInt = 1000000
  NoBound = NoBound
  main = main
  x = x
  y = y
  Branches = {main, x, y}
  Main = main
  Commits = {0, 1, 2, 3, 4}
  RootCommit = 0
  Null = Null
  Procs = {p1}
  Weight <- MCWeight
  SingleWriter = TRUE
  MaxWrites = 2
  CrashMidMerge = FALSE
  MaxUpsets = 1
SYMMETRY MCSymmetry
CHECK_DEADLOCK FALSE
INVARIANTS TallyExact
