----------------------------- MODULE Enrichment -----------------------------
(***************************************************************************)
(* The details of a book: OpenLibraryService.Enrich and FetchRating        *)
(* (internal/services/openlibrary.go) and AmazonService.GetPrices          *)
(* (amazon.go) with the amazon_cache, as a book goroutine of a search      *)
(* (handlers/search.go), a worker of the prewarm run (prewarm.go) and a    *)
(* recommendation (recommendations.go) call them.                          *)
(*                                                                         *)
(* All share the slots of Open Library. Searches share the slots of        *)
(* CONCURRENCY_AMAZON, prewarm has its own, recommendations ask without.   *)
(*                                                                         *)
(* A field of a book is where its value came from: the shelf or Open       *)
(* Library ("ol"). The tasks are about one title, of which the shelves     *)
(* know more or less, so an ISBN is its kind and where it came from. A     *)
(* result of Amazon, and with it a row of amazon_cache, holds the ISBN it  *)
(* was found by, which need not be the one the row is stored under.        *)
(* Descriptions, which are filled in like the pages, are left out.         *)
(***************************************************************************)
EXTENDS Integers, FiniteSets

CONSTANTS
  Tasks,
  Kinds,        \* who asks: "search", "prewarm", "rec"
  ShelfBooks,   \* what a shelf may know of the title
  Answers,      \* the fields an answer of Open Library may have
  OlSlots,      \* olConcurrency
  AzSlots,      \* CONCURRENCY_AMAZON and prewarmAZConcurrency
  Enabled,      \* Amazon credentials are configured
  None

Fields == {"isbn13", "isbn10", "title", "pages", "cover", "rating"}

\* "nophoto": the placeholder cover of Goodreads.
Source == {"none", "nophoto", "shelf", "ol"}

Isbns == {"isbn13", "isbn10"} \X Source

Pools == {"search", "prewarm"}

ASSUME EnrichmentAssumption ==
  /\ IsFiniteSet(Tasks)
  /\ Kinds # {} /\ Kinds \subseteq Pools \union {"rec"}
  /\ ShelfBooks \subseteq [Fields -> {"none", "nophoto", "shelf"}]
  /\ Answers \subseteq SUBSET {"isbn13", "isbn10", "pages"}
  /\ OlSlots \in Nat \ {0}
  /\ AzSlots \in [Pools -> Nat \ {0}]
  /\ Enabled \in BOOLEAN
  /\ None \notin Isbns \union Kinds

VARIABLES
  pc,
  kind,    \* of each task, while it is under way
  given,   \* the book each task began with
  book,    \* and as far as it is enriched
  prices,  \* azResult: the ISBN it was found by
  ol, az,  \* slots taken
  rows     \* amazon_cache: the live row of each ISBN, with or without prices

vars == <<pc, kind, given, book, prices, ol, az, rows>>

Blank == [f \in Fields |-> "none"]

-----------------------------------------------------------------------------
(* What Open Library adds to a book *)

Missing(b, f) == b[f] = "none"

CoverWanted(b) == b["cover"] \in {"none", "nophoto"}

\* mutant: the number of the edition replaces the reader's
TakeAll(b, answer, fields) ==
  [f \in Fields |-> IF f \in answer \intersect fields THEN "ol" ELSE b[f]]
Take(b, answer, fields) ==
  [f \in Fields |-> IF f \in answer \intersect fields /\ Missing(b, f) THEN "ol" ELSE b[f]]

\* lookupByISBN: there is a cover for every ISBN.
ByIsbn(b, answer) ==
  [Take(b, answer, {"isbn13", "pages"})
     EXCEPT !["cover"] = IF CoverWanted(b) THEN "ol" ELSE @]

\* lookupBySearch: a placeholder stays, and without ISBN-13 there is no cover.
BySearch(b, answer) ==
  LET found == Take(b, answer, {"isbn13", "isbn10", "pages"})
  IN  [found EXCEPT !["cover"] =
         IF @ = "none" /\ ~Missing(found, "isbn13") THEN "ol" ELSE @]

\* Enrich leaves alone what is complete and what cannot be looked up.
Skipped(b) ==
  \/ ~Missing(b, "isbn13") /\ ~Missing(b, "pages")
  \/ \A f \in {"isbn10", "isbn13", "title"} : Missing(b, f)

BestISBN(b) ==
  IF ~Missing(b, "isbn13") THEN <<"isbn13", b["isbn13"]>>
  ELSE IF ~Missing(b, "isbn10") THEN <<"isbn10", b["isbn10"]>>
  ELSE None

-----------------------------------------------------------------------------
(* Who holds which slot *)

Lookup == {"by13", "by10", "search"}

OlHolders == {t \in Tasks : pc[t] \in Lookup \union {"rating"}}

AzHolders(p) ==
  {t \in Tasks : kind[t] = p /\ pc[t] \in {"cache", "asking", "pricing"}}

\* Where a task goes when Enrich has returned, and a recommendation from FetchRating.
AfterOl(k) == IF k = "rec" THEN "rate" ELSE "azwait"
Enriched(t) == AfterOl(kind[t])
Rated == IF Enabled THEN "cache" ELSE "end"

Init ==
  /\ pc = [t \in Tasks |-> "idle"]
  /\ kind = [t \in Tasks |-> None]
  /\ given = [t \in Tasks |-> Blank]
  /\ book = [t \in Tasks |-> Blank]
  /\ prices = [t \in Tasks |-> None]
  /\ ol = 0
  /\ az = [p \in Pools |-> 0]
  /\ rows = [k \in Isbns |-> None]

Begin(t, k, b) ==
  /\ pc[t] = "idle"
  /\ kind' = [kind EXCEPT ![t] = k]
  /\ given' = [given EXCEPT ![t] = b]
  /\ book' = [book EXCEPT ![t] = b]
  /\ pc' = [pc EXCEPT ![t] = IF Skipped(b) THEN AfterOl(k) ELSE "olwait"]
  /\ UNCHANGED <<prices, ol, az, rows>>

-----------------------------------------------------------------------------
(* Open Library *)

Third(t) ==
  IF CoverWanted(book[t]) \/ Missing(book[t], "pages") THEN "search" ELSE Enriched(t)
Second(t) == IF Missing(book[t], "isbn10") THEN Third(t) ELSE "by10"
First(t) == IF Missing(book[t], "isbn13") THEN Second(t) ELSE "by13"

\* mutant: a recommendation keeps the slot for its rating, and asks for another
ProceedToRate(t, next) ==
  /\ pc' = [pc EXCEPT ![t] = next]
  /\ ol' = IF next \in Lookup \union {"rate"} THEN ol ELSE ol - 1
\* On to the next lookup, or out of enrichBook with its slot given back.
Proceed(t, next) ==
  /\ pc' = [pc EXCEPT ![t] = next]
  /\ ol' = IF next \in Lookup THEN ol ELSE ol - 1

AcquireOl(t) ==
  /\ pc[t] = "olwait" /\ ol < OlSlots
  /\ pc' = [pc EXCEPT ![t] = First(t)]
  /\ ol' = IF First(t) \in Lookup THEN ol + 1 ELSE ol
  /\ UNCHANGED <<kind, given, book, prices, az, rows>>

\* The context ends first, and the book goes on as it is.
AbandonOl(t) ==
  /\ pc[t] = "olwait"
  /\ pc' = [pc EXCEPT ![t] = Enriched(t)]
  /\ UNCHANGED <<kind, given, book, prices, ol, az, rows>>

FoundByIsbn(t, answer) ==
  /\ pc[t] \in {"by13", "by10"}
  /\ book' = [book EXCEPT ![t] = ByIsbn(@, answer)]
  /\ Proceed(t, Enriched(t))
  /\ UNCHANGED <<kind, given, prices, az, rows>>

FoundBySearch(t, answer) ==
  /\ pc[t] = "search"
  /\ book' = [book EXCEPT ![t] = BySearch(@, answer)]
  /\ Proceed(t, Enriched(t))
  /\ UNCHANGED <<kind, given, prices, az, rows>>

\* mutant: an error returns without the deferred release
NotFoundHolding(t) ==
  /\ pc[t] \in Lookup
  /\ pc' = [pc EXCEPT ![t] = CASE pc[t] = "by13" -> Second(t)
                               [] pc[t] = "by10" -> Third(t)
                               [] pc[t] = "search" -> Enriched(t)]
  /\ UNCHANGED <<kind, given, book, prices, ol, az, rows>>
\* The lookup finds nothing, fails, or its context has ended.
NotFound(t) ==
  /\ pc[t] \in Lookup
  /\ Proceed(t, CASE pc[t] = "by13" -> Second(t)
                  [] pc[t] = "by10" -> Third(t)
                  [] pc[t] = "search" -> Enriched(t))
  /\ UNCHANGED <<kind, given, book, prices, az, rows>>

\* FetchRating
SkipRating(t) ==
  /\ pc[t] = "rate"
  /\ ~Missing(book[t], "rating") \/ Missing(book[t], "title")
  /\ pc' = [pc EXCEPT ![t] = Rated]
  /\ UNCHANGED <<kind, given, book, prices, ol, az, rows>>

AbandonRating(t) ==
  /\ pc[t] = "rate"
  /\ pc' = [pc EXCEPT ![t] = Rated]
  /\ UNCHANGED <<kind, given, book, prices, ol, az, rows>>

AskRating(t) ==
  /\ pc[t] = "rate" /\ ol < OlSlots
  /\ Missing(book[t], "rating") /\ ~Missing(book[t], "title")
  /\ pc' = [pc EXCEPT ![t] = "rating"]
  /\ ol' = ol + 1
  /\ UNCHANGED <<kind, given, book, prices, az, rows>>

AnswerRating(t, source) ==
  /\ pc[t] = "rating"
  /\ book' = [book EXCEPT ![t]["rating"] = source]
  /\ pc' = [pc EXCEPT ![t] = Rated]
  /\ ol' = ol - 1
  /\ UNCHANGED <<kind, given, prices, az, rows>>

-----------------------------------------------------------------------------
(* Amazon *)

AcquireAz(t) ==
  /\ pc[t] = "azwait" /\ az[kind[t]] < AzSlots[kind[t]]
  /\ az' = [az EXCEPT ![kind[t]] = @ + 1]
  /\ pc' = [pc EXCEPT ![t] = "cache"]
  /\ UNCHANGED <<kind, given, book, prices, ol, rows>>

AbandonAz(t) ==
  /\ pc[t] = "azwait"
  /\ pc' = [pc EXCEPT ![t] = "end"]
  /\ UNCHANGED <<kind, given, book, prices, ol, az, rows>>

\* GetPrices returns; a recommendation has no slot to give back.
Return(t, result) ==
  /\ prices' = [prices EXCEPT ![t] = result]
  /\ pc' = [pc EXCEPT ![t] = "end"]
  /\ az' = IF kind[t] = "rec" THEN az ELSE [az EXCEPT ![kind[t]] = @ - 1]

Wanted(t) == BestISBN(book[t])

NoLookup(t) ==
  /\ pc[t] = "cache"
  /\ ~Enabled \/ Wanted(t) = None
  /\ Return(t, None)
  /\ UNCHANGED <<kind, given, book, ol, rows>>

CacheHit(t) ==
  /\ pc[t] = "cache"
  /\ Enabled /\ Wanted(t) # None /\ rows[Wanted(t)] # None
  /\ Return(t, rows[Wanted(t)])
  /\ UNCHANGED <<kind, given, book, ol, rows>>

\* No live row, or the read failed.
CacheMiss(t) ==
  /\ pc[t] = "cache"
  /\ Enabled /\ Wanted(t) # None
  /\ pc' = [pc EXCEPT ![t] = "asking"]
  /\ UNCHANGED <<kind, given, book, prices, ol, az, rows>>

\* searchByISBN fails or has no item: nothing is stored.
NoItem(t) ==
  /\ pc[t] = "asking"
  /\ Return(t, None)
  /\ UNCHANGED <<kind, given, book, ol, rows>>

Item(t) ==
  /\ pc[t] = "asking"
  /\ pc' = [pc EXCEPT ![t] = "pricing"]
  /\ UNCHANGED <<kind, given, book, prices, ol, az, rows>>

\* mutant: stored under the ISBN the shelf has, where every search finds it at once
RowAsGiven(t) ==
  IF BestISBN(given[t]) = None THEN Wanted(t) ELSE BestISBN(given[t])
\* The row a result is stored in.
Row(t) == Wanted(t)

\* getItemPrices answers or fails: the result is stored either way. SetAmazon may fail.
Priced(t) ==
  /\ pc[t] = "pricing"
  /\ Return(t, Wanted(t))
  /\ rows' \in {rows, [rows EXCEPT ![Row(t)] = Wanted(t)]}
  /\ UNCHANGED <<kind, given, book, ol>>

-----------------------------------------------------------------------------

\* The event is built from what was found, and the goroutine ends.
End(t) ==
  /\ pc[t] = "end"
  /\ pc' = [pc EXCEPT ![t] = "idle"]
  /\ kind' = [kind EXCEPT ![t] = None]
  /\ given' = [given EXCEPT ![t] = Blank]
  /\ book' = [book EXCEPT ![t] = Blank]
  /\ prices' = [prices EXCEPT ![t] = None]
  /\ UNCHANGED <<ol, az, rows>>

\* The day of a row is over.
RowEnds(k) ==
  /\ rows[k] # None
  /\ rows' = [rows EXCEPT ![k] = None]
  /\ UNCHANGED <<pc, kind, given, book, prices, ol, az>>

OpenLibrary(t) ==
  \/ AcquireOl(t)
  \/ \E answer \in Answers : FoundByIsbn(t, answer) \/ FoundBySearch(t, answer)
  \/ NotFound(t)
  \/ SkipRating(t) \/ AskRating(t)
  \/ \E source \in {"none", "ol"} : AnswerRating(t, source)

Amazon(t) ==
  \/ AcquireAz(t)
  \/ NoLookup(t) \/ CacheHit(t) \/ CacheMiss(t)
  \/ NoItem(t) \/ Item(t) \/ Priced(t)

Work(t) == OpenLibrary(t) \/ Amazon(t) \/ End(t)

\* enrichCtx or bookCtx runs out, or the client leaves, while a slot is waited for; a
\* call that is under way then fails.
Abandon(t) == AbandonOl(t) \/ AbandonRating(t) \/ AbandonAz(t)

Next ==
  \/ \E t \in Tasks : Work(t) \/ Abandon(t)
  \/ \E t \in Tasks, k \in Kinds, b \in ShelfBooks : Begin(t, k, b)
  \/ \E k \in Isbns : RowEnds(k)

Spec == Init /\ [][Next]_vars

\* Goroutines run and every upstream call returns; a task that waits for a slot asks
\* again and again, as slots are handed out in the order they were asked for
\* (semaphore.Weighted). No deadline has to end.
FairSpec == Spec /\ \A t \in Tasks : SF_vars(Work(t))

-----------------------------------------------------------------------------

Pc == {"idle", "olwait", "rate", "rating", "azwait", "cache", "asking", "pricing", "end"}
        \union Lookup

\* Every variable has its type; what is looked up at Amazon has an ISBN, and only
\* recommendations are rated.
TypeOK ==
  /\ pc \in [Tasks -> Pc]
  /\ kind \in [Tasks -> Kinds \union {None}]
  /\ given \in [Tasks -> [Fields -> Source]]
  /\ book \in [Tasks -> [Fields -> Source]]
  /\ prices \in [Tasks -> Isbns \union {None}]
  /\ ol \in Int /\ az \in [Pools -> Int]
  /\ rows \in [Isbns -> Isbns \union {None}]
  /\ \A t \in Tasks :
       /\ pc[t] \in {"asking", "pricing"} => Wanted(t) # None
       /\ pc[t] = "azwait" => kind[t] # "rec"
       /\ pc[t] \in {"rate", "rating"} => kind[t] = "rec"

\* "Fills in missing" (openlibrary.go:85): whichever lookups fail, answer partly or
\* follow each other, what the shelf knew of a book is what the reader is shown.
KnownKept ==
  \A t \in Tasks : \A f \in Fields :
    given[t][f] = "shelf" => book[t][f] = "shelf"

\* Whichever way a book leaves a lookup or GetPrices, it has given back its slot, and
\* neither Open Library (openlibrary.go:24) nor a pool of Amazon's has too many callers.
SlotsConserved ==
  /\ ol = Cardinality(OlHolders) /\ ol <= OlSlots
  /\ \A p \in Pools : az[p] = Cardinality(AzHolders(p)) /\ az[p] <= AzSlots[p]

\* "OL fills ISBN-13/page count (feeds a better Amazon lookup)" (search.go:371-372): the
\* prices shown with a book were found by the ISBN the enriched book is shown with, also
\* those another search stored, which knew more of the title, or less.
PricesOfTheBook ==
  \A t \in Tasks : prices[t] # None => prices[t] = BestISBN(book[t])

\* Every book's enrichment ends, without the help of a deadline: nobody waits for a slot
\* while he holds another, and none is lost.
EnrichmentEnds == \A t \in Tasks : pc[t] # "idle" ~> pc[t] = "idle"

=============================================================================
