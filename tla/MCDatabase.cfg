SPECIFICATION FairSpec
CONSTANTS
  Worker = {w1, w2}
  Name = {n1}
  File = {f1, f2}
  Doc = {d1, d2}
  Collection = {c1, c2}
  None = None
INVARIANTS
  TypeOK
  RegisteredIsOpen
  RegistryMirrorsDirectory
  AckedIsServed
  StopKeepsWhatIsDue
PROPERTIES
  StopEndsTheProcess
