SPECIFICATION FairSpec
CONSTANTS
  MaxBooks = 2
  Anonymous = {2}
  Tokens = {t1, t2}
  Own = {r1, r2}
  Others = {o1}
  Searches = {mine, another}
  Mine = mine
  None = None
INVARIANTS OneCardEach SavedIsWhole LinksLast
PROPERTIES PageSettles
