CONSTANTS
  t1 = t1
  t2 = t2
  b1 = b1
  b2 = b2
  Targets <- MCTargets
  Books <- MCBooks
  ShelfOf <- MCShelfOf
  BookTTL = 3
  Interval = 2
  StartDelay = 1
  Workers = 1
  AzSlots = 1
  MaxTime = 9
  None = None
SPECIFICATION FairSpec
INVARIANTS
  NoPartialRow
  LiveBetweenRuns
PROPERTIES
  ShutdownEndsLoop
