CONSTANTS
  Names = {n1, n2}
  Keys = {k1}
  Trusted = {k1}
  Kinds = {"write"}
  Reuse = FALSE
  Compacted = TRUE
  Horizon = 0
  MinimumCopies = 1
  Commits = {c1}
  MaxTime = 1
  MaxBackups = 2
  Null = Null
SPECIFICATION Spec
SYMMETRY Symmetry
INVARIANT CopiesWhole
PROPERTIES RestoredTrue RecoveryPointTrue RetentionKeeps
CHECK_DEADLOCK FALSE
ACTION_CONSTRAINT StoreRests
