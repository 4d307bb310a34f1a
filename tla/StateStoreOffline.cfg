SPECIFICATION Spec
CONSTANTS
  a = a
  b = b
  c = c
  d = d
  Ids = {a, b, c, d}
  Size <- UnitSizes
  MaxBytes = 2
  MaxEntries = 2
  MaxPayload = 1
  p = p
  Runtimes = {p}
  Offline = offline
  Faults <- OfflineFaults
  NoId = NoId
SYMMETRY Symmetry
INVARIANTS
  Recoverable
