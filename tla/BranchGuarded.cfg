\* Guarded operations, crashes, failed commits and failed appends.
SPECIFICATION Spec
CONSTANTS
  t1 = t1
  t2 = t2
  Procs <- MCProcs
  Branches = {"main", "s"}
  Tags = {}
  Commits = {0, 1, 2, 3, 4, 5}
  Null = Null
  Free = Free
  Main = "main"
  RootCommit = 0
  Kinds = {"write", "fold", "create", "gc"}
  MaxRetries = 2
  MaxOps = 4
  MaxCrashes = 1
  MaxErrs = 1
SYMMETRY MCSymmetry
CHECK_DEADLOCK FALSE
INVARIANTS AckedDurable NoDanglingRefs QuietAgreement GuardedInv
PROPERTY HeadsOnlyAdvance
