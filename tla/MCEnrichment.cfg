CONSTANTS
  t1 = t1
  t2 = t2
  Tasks = {t1, t2}
  Kinds = {"search", "rec"}
  ShelfBooks <- MCShelfBooks
  Answers <- MCAnswers
  OlSlots = 1
  AzSlots <- MCAzSlots
  Enabled = TRUE
  None = None
SPECIFICATION FairSpec
INVARIANTS
  KnownKept
  SlotsConserved
  PricesOfTheBook
PROPERTIES
  EnrichmentEnds
