SPECIFICATION Spec
CONSTANTS
  f = f
  g = g
  a = a
  b = b
  Field = {f, g}
  String = {a, b}
  Row = {r1, r2, r3}
  Name = {n1, n2}
  Absent = Absent
  Number = Number
  mixed = mixed
  mixedA = mixedA
  Mixed = {mixed, mixedA}
  Leading <- Leads
  Null = Null
  NoIndex = NoIndex
  Keep = Keep
  None = None
  Documents <- SmallDocuments
  Patches <- SmallPatches
  Definitions <- SmallDefinitions
SYMMETRY Symmetric
CONSTRAINT FewWhenTorn
INVARIANTS
  TypeOK
  RowsKnowTheirPlace
  EntriesMatchTheirRow
  IndexesAreExact
  ReplayRestoresMemory
  AdmissionIsExact
PROPERTIES
  OnlyPatchesTear
  ImplementsStore
