SPECIFICATION Spec
CONSTANTS
  r1 = r1
  r2 = r2
  r3 = r3
  k1 = k1
  k2 = k2
  w1 = w1
  w2 = w2
  x1 = x1
  x2 = x2
  x3 = x3
  Worker = {w1, w2}
  Row = {r1, r2, r3}
  Key = {k1, k2}
  KeyOf <- Keys
  Index = {x1, x2, x3}
  Inserters = {w1, w2}
  Removers = {w1, w2}
  Indexers = {w1, w2}
  NoRow = NoRow
  NoIndex = NoIndex
  Nobody = Nobody
SYMMETRY Symmetric
VIEW Relevant
INVARIANTS
  TypeOK
  NothingIsMissing
  EntriesAreLive
  JournalFollows
