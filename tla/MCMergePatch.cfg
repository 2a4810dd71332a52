SPECIFICATION Spec
CONSTANTS
  Key = {a, b}
  Scalar = {s}
  Array = {arr}
  Null = Null
  Depth = 2
INVARIANTS
  TypeOK
  MergeFollowsTheRFC
  OnlyWhatChangesIsWritten
  ReplayRestoresPayload
