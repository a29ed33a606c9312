\* One key of each kind of record; every policy answer.
SPECIFICATION Spec
CONSTANTS
  MinInt <- MCMin
  MaxInt = 2
  NoBound = NoBound
  Keys <- MCKeys
  Kind <- MCKind
  Resolutions <- MCResolutions
  MaxEdits = 3
CHECK_DEADLOCK FALSE
INVARIANTS Converged Undirected DeltasAdd
