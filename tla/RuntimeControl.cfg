SPECIFICATION Spec
CONSTANTS
  StateIds = {s1, s2}
  Tokens = {k1, k2, k3}
  Objects = {o1, o2, o3}
  MaxHandoffs = 2
  MaxVolatile = 2
  NoState = NoState
  NoToken = NoToken
  NoObject = NoObject
SYMMETRY Symmetry
INVARIANTS
  TypeOK
  LeasesLive
  NothingLeaks
  ReservationsHeld
PROPERTIES
  NoWorkAfterFailedCleanup
  NamedStatesAreKept
