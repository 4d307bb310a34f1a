SPECIFICATION Spec
CONSTANTS
  Keys = {a, b}
  Threads = {t1, t2}
  Boot = boot
  Monitors = {m}
  Generations <- SmallGenerations
  Policies <- FaultyPolicies
  MaxPreloads = 2
  NoKey = NoKey
  NoSlot = NoSlot
  NoInst = NoInst
SYMMETRY Symmetry
INVARIANTS
  SingleFlight
  OrdinaryWithinCapacity
  PinsAccounted
PROPERTY PreloadedStaysResident
