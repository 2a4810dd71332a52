SPECIFICATION Spec
CONSTANTS
  r1 = r1
  r2 = r2
  r3 = r3
  k1 = k1
  k2 = k2
  Worker = {w1, w2}
  Inserters = {}
  Removers = {w1, w2}
  Patchers = {}
  Row = {r1, r2, r3}
  Key = {k1, k2}
  KeyOf <- Keys3
  Loaded <- TwoLoaded
  Free = Free
  NoRow = NoRow
  Nobody = Nobody
INVARIANT OnlyRequestedRemovals
