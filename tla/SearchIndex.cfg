\* Any four mutations, two attempts per fold; links are few, so that lists overflow.
CONSTANTS
  v1 = v1  v2 = v2  v3 = v3  v4 = v4  v5 = v5  w = w
  Ids = {1, 2, 3, 4}
  Vectors <- MCVectors
  Dim <- MCDim
  Angle <- MCAngle
  Level <- MCLevel
  Hints <- MCHints
  M = 2
  MMax0 = 2
  EfConstruction = 3
  Ef = 2
  NoNode = 0
  Folders = {f1}
  Retries = 2
  Inline = {2, 4}
  Again = FALSE
  MaxMutations = 4
  Plain = Plain
  Null = Null
SPECIFICATION Spec
INVARIANTS
  AlwaysFound
PROPERTIES
  FoldExact
CHECK_DEADLOCK FALSE
