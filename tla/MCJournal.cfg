SPECIFICATION FairSpec
CONSTANTS
  Writer = {w1, w2}
  MaxCommands = 3
  Size <- Sizes
  Capacity = 3
  Inserts = {1, 3}
  None = None
INVARIANTS
  TypeOK
  FileIsPrefix
  NothingIsLost
  CloseKeepsWhatIsDue
PROPERTIES
  UnlaggedWritesReachTheFile
