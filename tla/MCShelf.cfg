CONSTANTS
  Callers = {c1, c2}
  PageSize = 2
  MaxPage = 4
  PageConcurrency = 2
  MaxBooks = 5
  None = None
SPECIFICATION FairSpec
INVARIANTS
  NoSenderBlocks
  AllCollected
  NoRepeats
  BeginningOfShelf
PROPERTIES
  FetchesReturn
