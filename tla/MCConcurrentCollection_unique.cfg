SPECIFICATION Spec
CONSTANTS
  r1 = r1
  r2 = r2
  r3 = r3
  k1 = k1
  k2 = k2
  Worker = {w1, w2}
  Inserters = {w1, w2}
  Removers = {w1}
  Patchers = {}
  Row = {r1, r2, r3}
  Key = {k1, k2}
  KeyOf <- Keys3
  Loaded <- NoneLoaded
  Free = Free
  NoRow = NoRow
  Nobody = Nobody
INVARIANT IndexIsUnique
