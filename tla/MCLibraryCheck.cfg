CONSTANTS
  isbn = isbn
  title = title
  Callers = {c1, c2}
  Books <- MCEdition
  Queries <- MCQueries
  Query <- MCEditionQuery
  Fallback <- MCEditionFallback
  LibraryTTL = 2
  BookTTL = 2
  CheckTime = 1
  EnrichTime = 1
  MaxTime = 9
  None = None
SPECIFICATION FairSpec
INVARIANTS
  Coalesced
  AgeBounded
PROPERTIES
  ChecksReturn
