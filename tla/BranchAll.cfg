\* Every operation: each call returns.
SPECIFICATION FairSpec
CONSTANTS
  t1 = t1
  t2 = t2
  Procs <- MCProcs
  Branches = {"main", "s"}
  Tags = {}
  Commits = {0, 1, 2, 3}
  Null = Null
  Free = Free
  Main = "main"
  RootCommit = 0
  Kinds = {"write", "fold", "create", "gc", "merge", "invalidate", "rewind"}
  MaxRetries = 1
  MaxOps = 2
  MaxCrashes = 1
  MaxErrs = 1
CHECK_DEADLOCK FALSE
INVARIANT TypeOK
PROPERTY EveryCallReturns
