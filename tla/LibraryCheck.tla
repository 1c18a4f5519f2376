---------------------------- MODULE LibraryCheck ----------------------------
(***************************************************************************)
(* OverDriveService.CheckAvailability at one library                       *)
(* (internal/services/overdrive.go): library_cache in front, concurrent    *)
(* checks of one query coalesced by singleflight, a server error retried   *)
(* once, an ISBN query that finds nothing repeated with title and author;  *)
(* and the book_cache row that the search or prewarm run that asked builds *)
(* from the answer.                                                        *)
(*                                                                         *)
(* A caller is one such check, of a book that may be checked at other      *)
(* libraries as well: the enrichment begins when the last of them is done. *)
(* It keeps the second the library answered (asof) and the second its      *)
(* present stage began (since): when it got the answer, then when the      *)
(* enrichment began. A row is the second it was written, the asof it       *)
(* holds, and whether the check had been cut short: it then says "not      *)
(* found", for want of an answer. Times are those of unixepoch().          *)
(***************************************************************************)
EXTENDS Integers, FiniteSets

CONSTANTS
  Callers,
  Books,
  Queries,
  Query,          \* the query for a book: its ISBN, or title and author
  Fallback,       \* title and author of a book that is asked for by ISBN, else None
  LibraryTTL,     \* CACHE_TTL_LIBRARY
  BookTTL,        \* CACHE_TTL_BOOK
  CheckTime,      \* from one answer to the last of the book's checks at most: the 30 s
                  \* of bookCtx, and what is left to a call of another search it joined
  EnrichTime,     \* from there to the write at most: enrichCtx
  MaxTime,        \* bound on the clock
  None

ASSUME CheckAssumption ==
  /\ Query \in [Books -> Queries]
  /\ Fallback \in [Books -> Queries \union {None}]
  /\ LibraryTTL \in Nat \ {0} /\ BookTTL \in Nat \ {0}
  /\ CheckTime \in Nat /\ EnrichTime \in Nat
  /\ MaxTime \in Nat /\ LibraryTTL + BookTTL <= MaxTime
  /\ None \notin Callers /\ None \notin Queries /\ None \notin Books

VARIABLES
  clock,
  lib,      \* fetched_at of each query's row in library_cache
  flight,   \* who leads the call of each query
  pc, book, \* of each caller, and the book it checks
  left,     \* the callers whose client has left, or whose server shuts down
  asof, since,
  enriching,  \* the callers whose enrichment has begun
  row       \* book_cache

vars == <<clock, lib, flight, pc, book, left, asof, since, enriching, row>>

NoRow == 0

Empty == [at |-> NoRow, asof |-> 0, cut |-> FALSE]

LibLive(k) == lib[k] > clock - LibraryTTL

RowLive(b) == row[b].at > clock - BookTTL

Key(c) == Query[book[c]]

\* One call or its retry, for the query and for the fallback.
First == {"leading", "retried"}
Second == {"second", "secondRetried"}
Calling == First \union Second

Returned == {"answered", "failed", "cut"}

Working == {c \in Callers : pc[c] # "start"}

\* c and everyone who waits for its call.
Party(c) == {c} \union {x \in Working : pc[x] = "waiting" /\ Key(x) = Key(c)}

Init ==
  /\ clock = LibraryTTL + BookTTL
  /\ lib = [k \in Queries |-> NoRow]
  /\ flight = [k \in Queries |-> None]
  /\ pc = [c \in Callers |-> "start"]
  /\ book = [c \in Callers |-> None]
  /\ left = {}
  /\ asof = [c \in Callers |-> 0]
  /\ since = [c \in Callers |-> 0]
  /\ enriching = {}
  /\ row = [b \in Books |-> Empty]

-----------------------------------------------------------------------------

Hit(c, b) ==
  /\ pc[c] = "start" /\ LibLive(Query[b])
  /\ pc' = [pc EXCEPT ![c] = "answered"] /\ book' = [book EXCEPT ![c] = b]
  /\ asof' = [asof EXCEPT ![c] = lib[Query[b]]]
  /\ since' = [since EXCEPT ![c] = clock]
  /\ UNCHANGED <<clock, lib, flight, left, enriching, row>>

\* No live row, or the read failed.
Miss(c, b) ==
  /\ pc[c] = "start"
  /\ pc' = [pc EXCEPT ![c] = "missed"] /\ book' = [book EXCEPT ![c] = b]
  /\ UNCHANGED <<clock, lib, flight, left, asof, since, enriching, row>>

\* mutant: every search asks the library itself
LeadEvery(c) ==
  /\ pc[c] = "missed"
  /\ flight' = [flight EXCEPT ![Key(c)] = c]
  /\ pc' = [pc EXCEPT ![c] = "leading"]
  /\ UNCHANGED <<clock, lib, book, left, asof, since, enriching, row>>
Lead(c) ==
  /\ pc[c] = "missed" /\ flight[Key(c)] = None
  /\ flight' = [flight EXCEPT ![Key(c)] = c]
  /\ pc' = [pc EXCEPT ![c] = "leading"]
  /\ UNCHANGED <<clock, lib, book, left, asof, since, enriching, row>>

Follow(c) ==
  /\ pc[c] = "missed" /\ flight[Key(c)] # None
  /\ pc' = [pc EXCEPT ![c] = "waiting"]
  /\ UNCHANGED <<clock, lib, flight, book, left, asof, since, enriching, row>>

\* The ISBN is unknown there: a second call, in the same flight.
AskFallback(c) ==
  /\ pc[c] \in First /\ Fallback[book[c]] # None
  /\ pc' = [pc EXCEPT ![c] = "second"]
  /\ UNCHANGED <<clock, lib, flight, book, left, asof, since, enriching, row>>

\* 500 or above: one more request after a pause, with no retry of its own.
Retry(c) ==
  /\ pc[c] \in {"leading", "second"}
  /\ pc' = [pc EXCEPT ![c] = IF pc[c] = "leading" THEN "retried" ELSE "secondRetried"]
  /\ UNCHANGED <<clock, lib, flight, book, left, asof, since, enriching, row>>

\* The flight ends: everyone in it gets the result now.
Land(c, how) ==
  /\ flight' = [flight EXCEPT ![Key(c)] = None]
  /\ pc' = [x \in Callers |-> IF x \in Party(c) THEN how ELSE pc[x]]
  /\ asof' = [x \in Callers |-> IF x \in Party(c) THEN clock ELSE asof[x]]
  /\ since' = [x \in Callers |-> IF x \in Party(c) THEN clock ELSE since[x]]

\* SetLibrary, under the query that was asked last; a failed write is logged.
Answer(c) ==
  /\ pc[c] \in Calling
  /\ LET k == IF pc[c] \in First THEN Key(c) ELSE Fallback[book[c]]
     IN  lib' \in {[lib EXCEPT ![k] = clock], lib}
  /\ Land(c, "answered")
  /\ UNCHANGED <<clock, book, left, enriching, row>>

\* mutant: the error returns to the leader alone
FailAlone(c) ==
  /\ pc[c] \in Calling
  /\ flight' = [flight EXCEPT ![Key(c)] = None]
  /\ pc' = [pc EXCEPT ![c] = "failed"]
  /\ asof' = [asof EXCEPT ![c] = clock]
  /\ since' = [since EXCEPT ![c] = clock]
  /\ UNCHANGED <<clock, lib, book, left, enriching, row>>
\* The upstream fails, or the time the leader's search gave the check is over:
\* everyone gets the leader's error, and not-found for a result.
Fail(c) ==
  /\ pc[c] \in Calling
  /\ Land(c, "failed")
  /\ UNCHANGED <<clock, lib, book, left, enriching, row>>

\* The call runs under the leader's context, and ends with it: the same for everyone.
Cut(c) ==
  /\ pc[c] \in Calling /\ c \in left
  /\ Land(c, "cut")
  /\ UNCHANGED <<clock, lib, book, left, enriching, row>>

-----------------------------------------------------------------------------
(* The caller, with what it got *)

Answered(c) == pc[c] \in Returned

\* The book's checks at the other libraries are done as well: enrichCtx begins.
AllChecked(c) ==
  /\ Answered(c) /\ c \notin enriching
  /\ enriching' = enriching \union {c}
  /\ since' = [since EXCEPT ![c] = clock]
  /\ UNCHANGED <<clock, lib, flight, pc, book, left, asof, row>>

\* The goroutine ends; the next search of the book may begin.
Leave(c) ==
  /\ pc' = [pc EXCEPT ![c] = "start"] /\ book' = [book EXCEPT ![c] = None]
  /\ left' = left \ {c}
  /\ asof' = [asof EXCEPT ![c] = 0]
  /\ since' = [since EXCEPT ![c] = 0]
  /\ enriching' = enriching \ {c}

\* mutant: the write ignores the deadline
StoreAnyTime(c) ==
  /\ c \in enriching \ left
  /\ row' = [row EXCEPT ![book[c]] = [at |-> clock, asof |-> asof[c], cut |-> pc[c] = "cut"]]
  /\ Leave(c)
  /\ UNCHANGED <<clock, lib, flight>>
\* SetBook after the enrichment, while its context lasts.
Store(c) ==
  /\ c \in enriching \ left
  /\ clock - since[c] <= EnrichTime
  /\ row' = [row EXCEPT ![book[c]] = [at |-> clock, asof |-> asof[c], cut |-> pc[c] = "cut"]]
  /\ Leave(c)
  /\ UNCHANGED <<clock, lib, flight>>

\* The context ended, the client left, the write failed.
Drop(c) ==
  /\ Answered(c)
  /\ Leave(c)
  /\ UNCHANGED <<clock, lib, flight, row>>

\* The client of a search leaves. Whoever waits for another's call goes on waiting.
ClientLeaves(c) ==
  /\ c \in Working \ left
  /\ left' = left \union {c}
  /\ UNCHANGED <<clock, lib, flight, pc, book, asof, since, enriching, row>>

\* No time passes at which a search would wait for its other libraries longer than it
\* may. A row of either cache that has ended is as good as none.
Advance ==
  /\ clock < MaxTime
  /\ \A c \in Callers :
       Answered(c) /\ c \notin enriching => clock - since[c] < CheckTime
  /\ clock' = clock + 1
  /\ lib' = [k \in Queries |-> IF lib[k] > clock' - LibraryTTL THEN lib[k] ELSE NoRow]
  /\ row' = [b \in Books |-> IF row[b].at > clock' - BookTTL THEN row[b] ELSE Empty]
  /\ UNCHANGED <<flight, pc, book, left, asof, since, enriching>>

-----------------------------------------------------------------------------

Begin(c) == \E b \in Books : Hit(c, b) \/ Miss(c, b)

Check(c) ==
  \/ Lead(c) \/ Follow(c) \/ AskFallback(c) \/ Retry(c)
  \/ Answer(c) \/ Fail(c) \/ Cut(c)

Next ==
  \/ \E c \in Callers :
       \/ Begin(c) \/ Check(c) \/ AllChecked(c) \/ Store(c) \/ Drop(c) \/ ClientLeaves(c)
  \/ Advance

Spec == Init /\ [][Next]_vars

\* Goroutines run, and every upstream call returns: its context has a deadline.
FairSpec == Spec /\ \A c \in Callers : WF_vars(Check(c))

-----------------------------------------------------------------------------

Pc == {"start", "missed", "waiting"} \union Calling \union Returned

\* Every variable stays in its type; nothing is dated in the future.
TypeOK ==
  /\ clock \in Nat
  /\ lib \in [Queries -> 0..clock]
  /\ flight \in [Queries -> Callers \union {None}]
  /\ pc \in [Callers -> Pc]
  /\ book \in [Callers -> Books \union {None}]
  /\ left \subseteq Callers
  /\ asof \in [Callers -> 0..clock] /\ since \in [Callers -> 0..clock]
  /\ enriching \subseteq Callers
  /\ row \in [Books -> [at : 0..clock, asof : 0..clock, cut : BOOLEAN]]

\* "Concurrent checks ... are coalesced into one upstream call" (overdrive.go:135-136):
\* whoever is in an upstream call leads the flight of the query its check began with
\* (the fallback query is asked under the same flight), and whoever waits waits for
\* somebody who is.
Coalesced ==
  /\ \A k \in Queries : \A c \in Callers :
       flight[k] = c <=> pc[c] \in Calling /\ Key(c) = k
  /\ \A c \in Callers : pc[c] = "waiting" => flight[Key(c)] # None

\* The two lifetimes stack, with the time between the answer and the write, and that is
\* all: no live row of book_cache holds an answer older than the sum of both lifetimes,
\* of the wait for the book's other libraries and of the enrichment, although a slow
\* search may put an older answer in the place of a newer one.
AgeBounded ==
  \A b \in Books : RowLive(b) =>
    clock - row[b].asof <= (LibraryTTL - 1) + CheckTime + EnrichTime + (BookTTL - 1)

\* Every check returns, those that wait for another search's call as well.
ChecksReturn ==
  \A c \in Callers : pc[c] \in {"missed", "waiting"} ~> Answered(c)

\* "partial results - don't poison the cache" (prewarm.go:269-271; search.go:398 has the
\* same guard): no row holds a check that somebody's leaving cut short. Not so: the guard
\* looks at the context of the search that stores, and the check ran under another's.
NoCutRow == \A b \in Books : ~row[b].cut

\* "Library availability is cached for 2 hours" (README.md:75): no live row of book_cache
\* holds an answer that old. Not so: a row of book_cache may be built from a row of
\* library_cache near its end, and has a lifetime of its own from then on.
CachedForTheTTL ==
  \A b \in Books : RowLive(b) => clock - row[b].asof < LibraryTTL

=============================================================================
