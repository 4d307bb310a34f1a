SPECIFICATION Spec
CONSTANTS
  Ids = {1, 2}
  Budget <- TierBytes
  Total <- TierBytes
  Sizes = {17}
  Samples <- TelemetrySamples
  MaxAllocations = 2
  MaxReservations = 2
  MaxActions = 2
  MaxOrphans = 1
  NoAllocation = NoAllocation
  NoAction = NoAction
  NoPromise = NoPromise
INVARIANTS
  TypeOK
  AccountsExact
  GrantsStayBelowHard
  ClaimsStayValid
  ReliefAdmits
