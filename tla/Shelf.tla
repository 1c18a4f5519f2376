------------------------------- MODULE Shelf -------------------------------
(***************************************************************************)
(* GoodreadsService.FetchShelf of one shelf                                *)
(* (internal/services/goodreads.go): shelf_cache in front, concurrent      *)
(* fetches coalesced by singleflight, page 1 first and, when it is full,   *)
(* the other pages concurrently, then put together in order.               *)
(*                                                                         *)
(* Goodreads lists the newest books first. Books are numbered as they are  *)
(* added, so the feed of a shelf of k books is k, k-1, ..., 1; a reader    *)
(* may add books between two page requests, which moves the others down.   *)
(* A row of shelf_cache that outlives its lifetime disappears; when, is    *)
(* free. A book without an id stands for all such books, which the code    *)
(* reduces to one, and is left out.                                        *)
(***************************************************************************)
EXTENDS Integers, Sequences, FiniteSets, Functions

CONSTANTS
  Callers,
  PageSize,         \* per_page, 200 in the code
  MaxPage,          \* maxPage
  PageConcurrency,  \* concurrency
  MaxBooks,         \* bound on the books added to the shelf
  None

ASSUME ShelfAssumption ==
  /\ PageSize \in Nat \ {0}
  /\ MaxPage \in Nat \ {0}
  /\ PageConcurrency \in Nat \ {0}
  /\ MaxBooks \in Nat
  /\ None \notin Callers /\ None \notin Seq(Nat)

MorePages == 2..MaxPage

VARIABLES
  added,    \* the books on the shelf
  row,      \* the shelf_cache row: books, or None
  at,       \* where each caller is
  leader,   \* the caller that leads the flight
  fpc,      \* where the flight is
  read,     \* how long the shelf was when a page was read
  page,     \* what became of the goroutine of each further page
  next,     \* p of the loop that starts them
  pageCh,
  pageMap,  \* the pages received
  fetched   \* what the flight returns

pageVars == <<read, page, next, pageCh, pageMap>>
flightVars == <<leader, fpc, pageVars, fetched>>
vars == <<added, row, at, flightVars>>

Init ==
  /\ added \in 0..MaxBooks
  /\ row = None
  /\ at = [c \in Callers |-> "idle"]
  /\ leader = None /\ fpc = "none"
  /\ read = [p \in 1..MaxPage |-> 0]
  /\ page = [p \in MorePages |-> "none"]
  /\ next = 2
  /\ pageCh = {} /\ pageMap = {}
  /\ fetched = <<>>

-----------------------------------------------------------------------------
(* The feed *)

Least(a, b) == IF a < b THEN a ELSE b
Greatest(a, b) == IF a < b THEN b ELSE a

\* How many books page p holds when the shelf has k, and the books.
PageLen(p, k) == Least(Greatest(k - (p - 1) * PageSize, 0), PageSize)
Items(p, k) == [i \in 1..PageLen(p, k) |-> k - (p - 1) * PageSize - i + 1]

Add ==
  /\ added < MaxBooks
  /\ added' = added + 1
  /\ UNCHANGED <<row, at, flightVars>>

Expire ==
  /\ row # None
  /\ row' = None
  /\ UNCHANGED <<added, at, flightVars>>

-----------------------------------------------------------------------------
(* FetchShelf *)

Outside(c) == at[c] \notin {"missed", "flight"}

\* The read of the cache gives the row.
Hit(c) ==
  /\ Outside(c) /\ row # None
  /\ at' = [at EXCEPT ![c] = "books"]
  /\ UNCHANGED <<added, row, flightVars>>

\* There is no row, or the call is a refresh, or the read fails.
Miss(c) ==
  /\ Outside(c)
  /\ at' = [at EXCEPT ![c] = "missed"]
  /\ UNCHANGED <<added, row, flightVars>>

Lead(c) ==
  /\ at[c] = "missed" /\ leader = None
  /\ at' = [at EXCEPT ![c] = "flight"]
  /\ leader' = c /\ fpc' = "page1"
  /\ UNCHANGED <<added, row, pageVars, fetched>>

\* A caller that finds a flight waits for it, a refresh no less than others.
Join(c) ==
  /\ at[c] = "missed" /\ leader # None
  /\ at' = [at EXCEPT ![c] = "flight"]
  /\ UNCHANGED <<added, row, flightVars>>

-----------------------------------------------------------------------------
(* fetchShelfPages *)

FirstPage ==
  /\ fpc = "page1"
  /\ read' = [read EXCEPT ![1] = added]
  /\ fpc' = IF PageLen(1, added) = PageSize THEN "spawn" ELSE "assemble"
  /\ UNCHANGED <<added, row, at, leader, page, next, pageCh, pageMap, fetched>>

FirstPageFails ==
  /\ fpc = "page1"
  /\ fpc' = "failed"
  /\ UNCHANGED <<added, row, at, leader, pageVars, fetched>>

\* The slots of sem taken by page goroutines.
Running == {p \in MorePages : page[p] \in {"fetching", "sending"}}

SpawnPage ==
  /\ fpc = "spawn" /\ next <= MaxPage
  /\ Cardinality(Running) < PageConcurrency
  /\ page' = [page EXCEPT ![next] = "fetching"]
  /\ next' = next + 1
  /\ UNCHANGED <<added, row, at, leader, fpc, read, pageCh, pageMap, fetched>>

SpawnOver ==
  /\ fpc = "spawn" /\ next > MaxPage
  /\ fpc' = "collect"
  /\ UNCHANGED <<added, row, at, leader, pageVars, fetched>>

FetchPage(p) ==
  /\ page[p] = "fetching"
  /\ page' = [page EXCEPT ![p] = "sending"]
  /\ read' = [read EXCEPT ![p] = added]
  /\ UNCHANGED <<added, row, at, leader, fpc, next, pageCh, pageMap, fetched>>

\* Any error is logged and dropped, also that of a leader whose client has left.
FetchPageFails(p) ==
  /\ page[p] = "fetching"
  /\ page' = [page EXCEPT ![p] = "failed"]
  /\ UNCHANGED <<added, row, at, leader, fpc, read, next, pageCh, pageMap, fetched>>

\* mutant: room for one page
CapacityOne == 1
Capacity == MaxPage

SendPage(p) ==
  /\ page[p] = "sending" /\ Cardinality(pageCh) < Capacity
  /\ pageCh' = pageCh \union {p}
  /\ page' = [page EXCEPT ![p] = "sent"]
  /\ UNCHANGED <<added, row, at, leader, fpc, read, next, pageMap, fetched>>

ReceivePage(p) ==
  /\ fpc = "collect" /\ p \in pageCh
  /\ pageCh' = pageCh \ {p}
  /\ pageMap' = pageMap \union {p}
  /\ UNCHANGED <<added, row, at, leader, fpc, read, page, next, fetched>>

\* mutant: the collection ends when the channel is empty
CollectOverEarly ==
  /\ fpc = "collect" /\ pageCh = {}
  /\ fpc' = "assemble"
  /\ UNCHANGED <<added, row, at, leader, pageVars, fetched>>
\* g.Wait has returned, the channel is closed and drained.
CollectOver ==
  /\ fpc = "collect" /\ pageCh = {}
  /\ Running = {}
  /\ fpc' = "assemble"
  /\ UNCHANGED <<added, row, at, leader, pageVars, fetched>>

\* mutant: a page that is missing is passed over
UsedPassingOver == {1} \union pageMap
\* The pages up to the first that is missing or not full.
Used ==
  {p \in {1} \union pageMap :
     \A q \in 1..p - 1 : q \in {1} \union pageMap /\ PageLen(q, read[q]) = PageSize}

\* mutant: the pages are put together as they are
DedupedNot(books) == books
\* Each book where it comes first.
Deduped(books) ==
  LET seen(i) == {books[j] : j \in 1..i - 1}
      kept[i \in 0..Len(books)] ==
        IF i = 0 THEN <<>>
        ELSE IF books[i] \in seen(i) THEN kept[i - 1] ELSE Append(kept[i - 1], books[i])
  IN  kept[Len(books)]

\* The used pages, one after the other.
Listed ==
  LET upto[p \in 0..MaxPage] ==
        IF p = 0 THEN <<>>
        ELSE IF p \in Used THEN upto[p - 1] \o Items(p, read[p]) ELSE upto[p - 1]
  IN  upto[MaxPage]

Assemble ==
  /\ fpc = "assemble"
  /\ fetched' = Deduped(Listed)
  /\ fpc' = "store"
  /\ UNCHANGED <<added, row, at, leader, pageVars>>

\* SetShelf, whose failure is logged only.
Store ==
  /\ fpc = "store"
  /\ row' \in {fetched, row}
  /\ fpc' = "fetched"
  /\ UNCHANGED <<added, at, leader, pageVars, fetched>>

\* mutant: only the leader is served
InFlightLeader == {leader}
InFlight == {c \in Callers : at[c] = "flight"}

\* flight.Do returns to its leader and to all who wait for it.
Land ==
  /\ fpc \in {"fetched", "failed"}
  /\ at' = [c \in Callers |->
              IF c \notin InFlight THEN at[c]
              ELSE IF fpc = "fetched" THEN "books" ELSE "error"]
  /\ leader' = None /\ fpc' = "none"
  /\ read' = [p \in 1..MaxPage |-> 0]
  /\ page' = [p \in MorePages |-> "none"]
  /\ next' = 2
  /\ pageCh' = {} /\ pageMap' = {}
  /\ fetched' = <<>>
  /\ UNCHANGED <<added, row>>

Flight ==
  \/ FirstPage \/ FirstPageFails
  \/ SpawnPage \/ SpawnOver
  \/ \E p \in MorePages : ReceivePage(p)
  \/ CollectOver \/ Assemble \/ Store \/ Land

Page(p) == FetchPage(p) \/ FetchPageFails(p) \/ SendPage(p)

Call(c) == Lead(c) \/ Join(c)

Next ==
  \/ Add \/ Expire
  \/ \E c \in Callers : Hit(c) \/ Miss(c) \/ Call(c)
  \/ Flight
  \/ \E p \in MorePages : Page(p)

Spec == Init /\ [][Next]_vars

\* A request to Goodreads returns (its client has a timeout), and goroutines run.
FairSpec ==
  /\ Spec
  /\ WF_vars(Flight)
  /\ \A p \in MorePages : WF_vars(Page(p))
  /\ \A c \in Callers : WF_vars(Call(c))

-----------------------------------------------------------------------------
(* Properties *)

Sent == {p \in MorePages : page[p] = "sent"}
BookSeqs == Seq(1..MaxBooks)

\* Every variable has its type; nothing is in the channel or the map that no
\* goroutine has sent. (The books of a row and of a result are in NoRepeats.)
TypeOK ==
  /\ added \in 0..MaxBooks
  /\ at \in [Callers -> {"idle", "missed", "flight", "books", "error"}]
  /\ leader \in Callers \union {None}
  /\ fpc \in {"none", "page1", "spawn", "collect", "assemble", "store", "fetched", "failed"}
  /\ read \in [1..MaxPage -> 0..MaxBooks]
  /\ page \in [MorePages -> {"none", "fetching", "sending", "sent", "failed"}]
  /\ next \in 2..MaxPage + 1
  /\ pageCh \union pageMap \subseteq Sent

\* The loop that starts the goroutines does not receive, and waits for their
\* slots: a goroutine must never wait for room in pageCh (goodreads.go:164-181).
NoSenderBlocks == \A p \in Running : Cardinality(pageCh) < Capacity

\* When the pages are put together no goroutine is left that could still bring
\* one, and every page that was fetched is there, also one whose goroutine was
\* last to send (goodreads.go:183-192).
AllCollected ==
  fpc \in {"assemble", "store", "fetched"} => Running = {} /\ pageMap = Sent

\* No book is listed twice, although a book may be on two pages when others were
\* added between their requests (goodreads.go:207-215).
NoRepeats ==
  /\ fetched \in BookSeqs /\ IsInjective(fetched)
  /\ row # None => row \in BookSeqs /\ IsInjective(row)

\* On a shelf that does not change during the fetch, the result is its beginning:
\* nothing is missing before the first page that failed, and nothing follows it;
\* it is the whole shelf, up to MaxPage pages, when no page failed
\* (goodreads.go:96, 188-205).
Newest(k) == [i \in 1..Least(k, MaxPage * PageSize) |-> k + 1 - i]
BeginningOfShelf ==
  fpc \in {"store", "fetched"} =>
    LET readPages == {1} \union Sent
        dropped == {p \in MorePages : page[p] = "failed"}
        k == read[1]
    IN  (\A p \in readPages : read[p] = k) =>
          IF dropped = {} THEN fetched = Newest(k)
          ELSE \E first \in dropped :
                 fetched = SubSeq(Newest(k), 1, Least(Len(Newest(k)), (first - 1) * PageSize))

\* Every caller that waits for a flight gets its result or its error, the last to
\* join included (goodreads.go:116-134).
FetchesReturn == \A c \in Callers : at[c] = "flight" ~> at[c] \in {"books", "error"}

=============================================================================
