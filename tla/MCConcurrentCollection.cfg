SPECIFICATION FairSpec
CONSTANTS
  r1 = r1
  r2 = r2
  r3 = r3
  k1 = k1
  k2 = k2
  Worker = {w1, w2}
  Inserters = {w1, w2}
  Removers = {w1, w2}
  Patchers = {w1, w2}
  Row = {r1, r2}
  Key = {k1}
  KeyOf <- Keys2
  Loaded <- OneLoaded
  Free = Free
  NoRow = NoRow
  Nobody = Nobody
INVARIANTS
  TypeOK
  RowsKnowTheirPlace
  ClaimedOnce
  PatchesAreReplayed
  RowsLeaveByTheirOwnRemoval
PROPERTY RequestsAreAnswered
