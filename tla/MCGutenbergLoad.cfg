CONSTANTS
  Texts = {gb1, gb2}
  Writers = {w1, w2}
  RefreshDays = 2
  FirstDay = 3
  LastDay = 6
  BusyTimeout = 2
SPECIFICATION FairSpec
INVARIANTS
  CatalogWhole
  LoadedIsThere
PROPERTIES
  CatalogKept
  LockGivenBack
