SPECIFICATION FairSpec
CONSTANTS
  Jobs = {j1}
  Direct = {d1, d2}
  MaxCrashes = 1
  MaxFaults = 2
CHECK_DEADLOCK FALSE
INVARIANTS
  TypeOK
  CancelledResultsDiscarded
PROPERTIES
  TerminalStays
  JobsEnd
