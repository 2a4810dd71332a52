SPECIFICATION Spec
CONSTANTS
  id = id
  n = n
  w1 = w1
  w2 = w2
  m1 = m1
  m2 = m2
  m3 = m3
  Worker <- MCWorker
  Field <- MCField
  Map <- MCMap
  AutoNumber = AutoNumber
  Plain = Plain
  Given = Given
  Null = Null
  Absent = Absent
  Nil = Nil
  Request <- MCRequest
  Input <- MCInput
  MaxCount = 2
VIEW View
SYMMETRY Symmetry
INVARIANTS
  TypeOK
  DefaultsAddUp
  InsertsAreFilledIn
  NumbersDiffer
