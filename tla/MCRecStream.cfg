CONSTANTS
  t1 = t1
  t2 = t2
  t3 = t3
  t4 = t4
  t5 = t5
  Titles <- MCTitles
  MaxSeries = 2
  MaxAuthors = 2
  MaxEntry = 3
  AuthorNames = {1, 2}
  Shelves <- MCShelves
  EntryTitles <- MCEntryTitles
  WrittenBy <- MCWrittenBy
  MaxRecs = 3
  None = None
SPECIFICATION FairSpec
INVARIANTS
  NextEntryUnread
  AuthorsEarned
  ClaimsSent
  InRounds
PROPERTIES
  ImplementsPromise
  StreamEnds
