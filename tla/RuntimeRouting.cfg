SPECIFICATION Spec
CONSTANTS
  Models = {m, n}
  Adapters = {a, b}
  MaxInstance = 3
  StateIds = {s1, s2}
  Workers = {w1, w2}
  Permits = 1
  MaxModelRoutes = 2
  MaxCompatRoutes = 1
  MaxInstanceRoutes = 2
  NoModel = NoModel
  NoAdapter = NoAdapter
  NoState = NoState
SYMMETRY Symmetry
INVARIANTS
  TypeOK
  RouteCountExact
  StatesReachTheirAdapter
  ReservationHonoured
  OneRoutePerModel
