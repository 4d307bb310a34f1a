SPECIFICATION Spec
CONSTANTS
  a = a
  b = b
  c = c
  d = d
  Ids = {a, b, c, d}
  Size <- MixedSizes
  MaxBytes = 3
  MaxEntries = 2
  MaxPayload = 2
  p = p
  Runtimes = {p}
  Offline = offline
  Faults <- OneKindOfFault
  NoId = NoId
SYMMETRY MixedSymmetry
INVARIANTS
  TypeOK
  OwedSurvives
  CondemnedUnpinned
  Recoverable
PROPERTY ImplementsCatalog
