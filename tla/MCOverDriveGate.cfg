CONSTANTS
  big = big
  small = small
  b1 = b1
  b2 = b2
  b3 = b3
  s1 = s1
  s2 = s2
  Searches <- MCSearches
  Checks <- MCChecks
  Owner <- MCOwner
  OdConcurrency = 3
  OdPerSearch = 2
SPECIFICATION GateFairSpec
INVARIANTS
  SlotsConserved
  WithinLimits
  NoIdleSlot
  HugeShelfLeavesRoom
PROPERTIES
  EveryCheckEnds
