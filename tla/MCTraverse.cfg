SPECIFICATION Spec
CONSTANTS
  Row <- MCRow
  Request <- MCRequest
  NoRow = NoRow
  NoArray = NoArray
  Idle = Idle
INVARIANTS
  TypeOK
  HandsOutWhatIsAsked
  NothingThatStaysIsMissed
