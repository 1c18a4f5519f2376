CONSTANTS
  isbn = isbn
  title = title
  Callers = {c1, c2}
  Books <- MCBooks
  Queries <- MCQueries
  Query <- MCQuery
  Fallback <- MCFallback
  LibraryTTL = 2
  BookTTL = 1
  CheckTime = 1
  EnrichTime = 1
  MaxTime = 5
  None = None
SPECIFICATION FairSpec
INVARIANT NoCutRow
