---------------------------- MODULE SearchStream ----------------------------
(***************************************************************************)
(* One live search: internal/handlers/search.go, handleSSE.                *)
(*                                                                         *)
(* The processes are the handler (pc), one goroutine per cache-miss book   *)
(* (g[b].pc) with one OverDrive check per library under it (g[b].lib), the *)
(* heartbeat goroutine (hb) and the client, which may leave at any moment. *)
(* A book is its 1-based position on the fetched shelf; shelf ids are      *)
(* unique after FetchShelf, so position and GoodreadsID are one-to-one;    *)
(* the books of Anonymous have the empty id.                               *)
(*                                                                         *)
(* A library result is kept as where it came from: what a check answered   *)
(* is the matter of LibraryCheck, every other slot says StatusNotFound.    *)
(***************************************************************************)
EXTENDS Integers, Sequences, FiniteSets

CONSTANTS
  MaxBooks,        \* bound on the shelf length
  Anonymous,       \* the positions of books without GoodreadsID
  Libraries,       \* the library keys of this search
  AzConcurrency    \* CONCURRENCY_AMAZON

ASSUME SearchAssumption ==
  /\ MaxBooks \in Nat
  /\ Anonymous \subseteq 1..MaxBooks
  /\ IsFiniteSet(Libraries)
  /\ Libraries # {}
  /\ AzConcurrency \in Nat

VARIABLES
  pc,          \* control point of the handler
  refresh,     \* the refresh=true query parameter
  gone,        \* ctx.Err() # nil: the client went away
  outcome,     \* label SearchesTotal is incremented with on return
  n,           \* len(books)
  hits,        \* keys of cachedEvents
  cursor,      \* loop variable of the cache-hit loop
  completed,   \* completedCount
  wire,        \* SSE events written so far
  g,           \* the per-book goroutines
  resultCh, updateCh,
  row,         \* book_cache for this library set: provenance of a row, {} if none
  hb           \* heartbeat goroutine

handlerVars == <<pc, refresh, outcome, n, hits, cursor, completed, wire>>
bookVars    == <<g, resultCh, updateCh, row>>
vars        == <<handlerVars, gone, bookVars, hb>>

Books == 1..MaxBooks

\* "pending": the library's goroutine still runs; "filled": CheckAvailability returned,
\* an answer or an error; "unfilled": bookCtx's 30s ended in the queue of a semaphore, so
\* the slot of libResults keeps the StatusNotFound it is initialised with; "gone": an
\* error or an unfilled slot because the client left; "earlier": of an earlier search.
Provenance == {"pending", "filled", "unfilled", "gone", "earlier"}

BookPc == {"none", "queued", "check", "enrich", "azwait", "pricing",
           "store", "patch", "end"}

Goroutine == [pc      : BookPc,
              lib     : [Libraries -> Provenance],
              slow    : BOOLEAN,    \* the 3min enrichCtx cut the enrichment short
              adds    : BOOLEAN]    \* enriched # book or azResult # zero

EventTypes == {"bad_request", "shelf_failed", "shelf_canceled",  \* all "error"
               "book_stubs", "book", "availability_done", "book_update", "done"}

Event == [type : EventTypes, book : 0..MaxBooks]

Say(t)      == [type |-> t, book |-> 0]
Card(b)     == [type |-> "book", book |-> b]
Update(b)   == [type |-> "book_update", book |-> b]

Send(e) == wire' = Append(wire, e)

Sent(e) == \E i \in 1..Len(wire) : wire[i] = e

\* toFetch: the books the handler starts a goroutine for.
ToFetch == {b \in Books : g[b].pc # "none"}

\* availWg and fullWg have counted down to zero: the closers close the channels.
Delivered(b)  == g[b].pc \notin {"none", "queued", "check"}
UpdatesClosed == \A b \in ToFetch : g[b].pc = "end"

\* mutants: wg.Add moved into the goroutine; one WaitGroup for both channels
ResultsClosedEarly  == TRUE
ResultsClosedLate   == UpdatesClosed
ResultsClosed == \A b \in ToFetch : Delivered(b)

\* Both channels are made with this capacity (mutant: one short).
CapacityOneShort == Cardinality(ToFetch) - 1
Capacity == Cardinality(ToFetch)

AzHolders == {b \in Books : g[b].pc = "pricing"}

-----------------------------------------------------------------------------

Init ==
  /\ pc = "params"
  /\ refresh \in BOOLEAN
  /\ gone = FALSE
  /\ outcome = "error"
  /\ n = 0
  /\ hits = {}
  /\ cursor = 1
  /\ completed = 0
  /\ wire = <<>>
  /\ g = [b \in Books |-> [pc |-> "none", lib |-> [l \in Libraries |-> "pending"],
                           slow |-> FALSE, adds |-> FALSE]]
  /\ resultCh = <<>>
  /\ updateCh = <<>>
  /\ row \in [Books -> {{}, {"earlier"}}]
  /\ \A b \in Anonymous : row[b] = {}
  /\ hb = "off"

-----------------------------------------------------------------------------
(* The handler *)

\* Missing url, unparsable url or no library: an "error" event and return.
Refuse ==
  /\ pc = "params"
  /\ Send(Say("bad_request"))
  /\ pc' = "returned"
  /\ UNCHANGED <<refresh, gone, outcome, n, hits, cursor, completed, bookVars, hb>>

Accept ==
  /\ pc = "params"
  /\ pc' = "fetching"
  /\ UNCHANGED <<refresh, gone, outcome, n, hits, cursor, completed, wire, bookVars, hb>>

\* FetchShelf returns an error: the upstream's, or the context's once the client left.
ShelfFails ==
  /\ pc = "fetching"
  /\ \/ Send(Say("shelf_failed"))
     \/ gone /\ Send(Say("shelf_canceled"))
  /\ pc' = "returned"
  /\ UNCHANGED <<refresh, gone, outcome, n, hits, cursor, completed, bookVars, hb>>

ShelfEmpty ==
  /\ pc = "fetching"
  /\ Send(Say("done"))
  /\ outcome' = "ok"
  /\ pc' = "returned"
  /\ UNCHANGED <<refresh, gone, n, hits, cursor, completed, bookVars, hb>>

\* A non-empty shelf: the heartbeat starts and the whole list goes out as stubs.
ShelfFetched ==
  /\ pc = "fetching"
  /\ n' \in 1..MaxBooks
  /\ Send(Say("book_stubs"))
  /\ hb' = "on"
  /\ pc' = "lookup"
  /\ UNCHANGED <<refresh, gone, outcome, hits, cursor, completed, bookVars>>

\* GetBooks in one batch; an error leaves no hits, a hard refresh does not ask.
ReadCache ==
  /\ pc = "lookup"
  /\ \/ hits' = IF refresh THEN {} ELSE {b \in 1..n : b \notin Anonymous /\ row[b] # {}}
     \/ hits' = {}
  /\ pc' = "scan"
  /\ UNCHANGED <<refresh, gone, outcome, n, cursor, completed, wire, bookVars, hb>>

ServeHit ==
  /\ pc = "scan" /\ cursor <= n
  /\ cursor \in hits
  /\ completed' = completed + 1
  /\ Send(Card(cursor))
  /\ cursor' = cursor + 1
  /\ UNCHANGED <<pc, refresh, gone, outcome, n, hits, bookVars, hb>>

QueueMiss ==
  /\ pc = "scan" /\ cursor <= n
  /\ cursor \notin hits
  /\ g' = [g EXCEPT ![cursor].pc = "queued"]
  /\ cursor' = cursor + 1
  /\ UNCHANGED <<pc, refresh, gone, outcome, n, hits, completed, wire,
                 resultCh, updateCh, row, hb>>

\* The channels are made with capacity len(toFetch) and every goroutine is started.
Spawn ==
  /\ pc = "scan" /\ cursor > n
  /\ g' = [b \in Books |-> IF g[b].pc = "queued" THEN [g[b] EXCEPT !.pc = "check"] ELSE g[b]]
  /\ pc' = "results"
  /\ UNCHANGED <<refresh, gone, outcome, n, hits, cursor, completed, wire,
                 resultCh, updateCh, row, hb>>

ReceiveResult ==
  /\ pc = "results"
  /\ resultCh # <<>>
  /\ resultCh' = Tail(resultCh)
  /\ IF gone
       THEN /\ outcome' = "canceled"
            /\ pc' = "returned"
            /\ UNCHANGED <<completed, wire>>
       ELSE /\ completed' = completed + 1
            /\ Send(Card(Head(resultCh)))
            /\ UNCHANGED <<outcome, pc>>
  /\ UNCHANGED <<refresh, gone, n, hits, cursor, g, updateCh, row, hb>>

ResultsEnd ==
  /\ pc = "results"
  /\ resultCh = <<>> /\ ResultsClosed
  /\ IF ToFetch # {} /\ ~gone
       THEN Send(Say("availability_done"))
       ELSE UNCHANGED wire
  /\ pc' = "updates"
  /\ UNCHANGED <<refresh, gone, outcome, n, hits, cursor, completed, bookVars, hb>>

ReceiveUpdate ==
  /\ pc = "updates"
  /\ updateCh # <<>>
  /\ updateCh' = Tail(updateCh)
  /\ IF gone
       THEN outcome' = "canceled" /\ pc' = "returned" /\ UNCHANGED wire
       ELSE Send(Update(Head(updateCh))) /\ UNCHANGED <<outcome, pc>>
  /\ UNCHANGED <<refresh, gone, n, hits, cursor, completed, g, resultCh, row, hb>>

UpdatesEnd ==
  /\ pc = "updates"
  /\ updateCh = <<>> /\ UpdatesClosed
  /\ outcome' = "ok"
  /\ Send(Say("done"))
  /\ pc' = "returned"
  /\ UNCHANGED <<refresh, gone, n, hits, cursor, completed, bookVars, hb>>

-----------------------------------------------------------------------------
(* The goroutine of book b *)

\* The goroutine of one library ends: CheckAvailability returned, or an Acquire of
\* either semaphore did with an error and the slot is left as it was.
Check(b, l) ==
  /\ g[b].pc = "check"
  /\ g[b].lib[l] = "pending"
  /\ \E r \in {"filled", "unfilled", "gone"} :
       /\ r = "gone" => gone
       /\ g' = [g EXCEPT ![b].lib[l] = r]
  /\ UNCHANGED <<handlerVars, gone, resultCh, updateCh, row, hb>>

CheckedAll(b) == g[b].pc = "check" /\ \A l \in Libraries : g[b].lib[l] # "pending"

\* mutant: an early return when a slot was not filled, without availWg.Done
DeliverFilled(b) ==
  /\ CheckedAll(b) /\ \A l \in Libraries : g[b].lib[l] = "filled"
  /\ resultCh' = Append(resultCh, b)
  /\ g' = [g EXCEPT ![b].pc = "enrich"]
  /\ UNCHANGED <<handlerVars, gone, updateCh, row, hb>>

\* libWg.Wait returned: the result goes out (blocking while the buffer is full).
Deliver(b) ==
  /\ CheckedAll(b)
  /\ Len(resultCh) < Capacity
  /\ resultCh' = Append(resultCh, b)
  /\ g' = [g EXCEPT ![b].pc = "enrich"]
  /\ UNCHANGED <<handlerVars, gone, updateCh, row, hb>>

EnrichBook(b) ==
  /\ g[b].pc = "enrich"
  /\ \E found \in BOOLEAN : g' = [g EXCEPT ![b].pc = "azwait", ![b].adds = found]
  /\ UNCHANGED <<handlerVars, gone, resultCh, updateCh, row, hb>>

AcquireAz(b) ==
  /\ g[b].pc = "azwait"
  /\ ~gone
  /\ Cardinality(AzHolders) < AzConcurrency
  /\ g' = [g EXCEPT ![b].pc = "pricing"]
  /\ UNCHANGED <<handlerVars, gone, resultCh, updateCh, row, hb>>

\* enrichCtx ends first: by its deadline, at any moment, or with the client.
AbandonAz(b) ==
  /\ g[b].pc = "azwait"
  /\ g' = [g EXCEPT ![b].pc = "store", ![b].slow = ~gone]
  /\ UNCHANGED <<handlerVars, gone, resultCh, updateCh, row, hb>>

GetPrices(b) ==
  /\ g[b].pc = "pricing"
  /\ \E priced, slow \in BOOLEAN :
       g' = [g EXCEPT ![b].pc = "store", ![b].slow = slow, ![b].adds = @ \/ priced]
  /\ UNCHANGED <<handlerVars, gone, resultCh, updateCh, row, hb>>

\* enrichCtx.Err() == nil && GoodreadsID != "": the only guard of the cache write.
\* SetBook may fail, which is logged and forgotten.
\* (mutant: guarded by the deadline alone)
StorableInTime(b) == ~g[b].slow /\ b \notin Anonymous
Storable(b) == ~g[b].slow /\ ~gone /\ b \notin Anonymous

Store(b) ==
  /\ g[b].pc = "store"
  /\ \/ Storable(b) /\ row' = [row EXCEPT ![b] = {g[b].lib[l] : l \in Libraries}]
     \/ UNCHANGED row
  /\ g' = [g EXCEPT ![b].pc = "patch"]
  /\ UNCHANGED <<handlerVars, gone, resultCh, updateCh, hb>>

Patch(b) ==
  /\ g[b].pc = "patch"
  /\ IF g[b].adds
       THEN /\ Len(updateCh) < Capacity
            /\ updateCh' = Append(updateCh, b)
       ELSE UNCHANGED updateCh
  /\ g' = [g EXCEPT ![b].pc = "end"]
  /\ UNCHANGED <<handlerVars, gone, resultCh, row, hb>>

\* A book's goroutine before and after its card has gone out.
Checks(b) == Deliver(b) \/ \E l \in Libraries : Check(b, l)
Enrichment(b) ==
  \/ EnrichBook(b) \/ AcquireAz(b) \/ AbandonAz(b) \/ GetPrices(b)
  \/ Store(b) \/ Patch(b)

BookStep(b) == Checks(b) \/ Enrichment(b)

-----------------------------------------------------------------------------
(* The heartbeat goroutine and the client *)

\* mutant: no streamDone case
HeartbeatStopOnLeave ==
  /\ hb = "on"
  /\ gone
  /\ hb' = "stopped"
  /\ UNCHANGED <<handlerVars, gone, bookVars>>

\* streamDone is closed by the handler's return.
HeartbeatStop ==
  /\ hb = "on"
  /\ pc = "returned" \/ gone
  /\ hb' = "stopped"
  /\ UNCHANGED <<handlerVars, gone, bookVars>>

ClientLeaves ==
  /\ ~gone /\ pc # "returned"
  /\ gone' = TRUE
  /\ UNCHANGED <<handlerVars, bookVars, hb>>

\* Everything the request started has ended.
Quiet ==
  /\ pc = "returned"
  /\ UpdatesClosed
  /\ hb \in {"off", "stopped"}

Ended == Quiet /\ UNCHANGED vars

-----------------------------------------------------------------------------

Handler ==
  \/ Refuse \/ Accept \/ ShelfFails \/ ShelfEmpty \/ ShelfFetched
  \/ ReadCache \/ ServeHit \/ QueueMiss \/ Spawn
  \/ ReceiveResult \/ ResultsEnd \/ ReceiveUpdate \/ UpdatesEnd

Next ==
  \/ Handler
  \/ \E b \in Books : BookStep(b)
  \/ HeartbeatStop
  \/ ClientLeaves
  \/ Ended

Spec == Init /\ [][Next]_vars

\* The goroutines are scheduled, every check returns (its context has a deadline).
AvailabilityFairness ==
  WF_vars(Handler) /\ \A b \in Books : WF_vars(Checks(b))

\* The enrichment calls return as well, and the heartbeat, which ticks every 20s,
\* finds streamDone closed between two ticks.
EnrichmentFairness ==
  WF_vars(HeartbeatStop) /\ \A b \in Books : WF_vars(Enrichment(b))

AvailabilitySpec == Spec /\ AvailabilityFairness

-----------------------------------------------------------------------------
(* What must hold *)

\* Every variable stays in its type: no goroutine is at an unknown point and every
\* queued element is a book of the shelf.
TypeOK ==
  /\ pc \in {"params", "fetching", "lookup", "scan", "results", "updates", "returned"}
  /\ refresh \in BOOLEAN /\ gone \in BOOLEAN
  /\ outcome \in {"ok", "error", "canceled"}
  /\ n \in 0..MaxBooks
  /\ hits \subseteq Books
  /\ cursor \in 1..(MaxBooks + 1)
  /\ completed \in Nat
  /\ wire \in Seq(Event)
  /\ g \in [Books -> Goroutine]
  /\ resultCh \in Seq(Books) /\ updateCh \in Seq(Books)
  /\ row \in [Books -> SUBSET Provenance]
  /\ hb \in {"off", "on", "stopped"}

\* The buffers hold len(toFetch) values so that a goroutine can always send, also
\* after the handler returned early and nobody receives any more: no goroutine of a
\* canceled search is left blocked on a channel (search.go:306-307, 421-424).
NoSenderBlocks ==
  \A b \in Books :
    /\ CheckedAll(b) => Len(resultCh) < Capacity
    /\ g[b].pc = "patch" => Len(updateCh) < Capacity

\* A check that was cut short because the client left never reaches book_cache, where
\* its "not found" would be served to everybody for a TTL, although the write is not
\* guarded by the context the checks ran under (search.go:320, 376, 398).
NoCanceledRow ==
  \A b \in Books : "gone" \notin row[b]

\* A row is not made of slots that no check ever filled in: "partial results - don't
\* poison the cache" (prewarm.go:270), by code that is "exactly like a live search"
\* (224). Not so: the search guards its write by enrichCtx, while the checks queued
\* under bookCtx, which may have ended long before (search.go:320, 336-342, 398).
NoUnfilledRow ==
  \A b \in Books : "unfilled" \notin row[b]

\* The client that stays gets the end of the stream, whatever the checks and the
\* enrichment of any book come to, if only they return.
StayingClientServed ==
  EnrichmentFairness =>
    (pc = "lookup" ~> (gone \/ (pc = "returned" /\ Sent(Say("done")))))

\* A search that started ends with all its goroutines: the handler, every book's,
\* the heartbeat - whenever the client leaves, and also when nobody drains the channels.
Quiesces == EnrichmentFairness => <>[]Quiet

\* "availability is never queued behind price lookups" (search.go:299-305): a client
\* that stays sees every card, and is told that it has them all (search.go:438-445),
\* even if no enrichment call ever returns.
AvailabilityNotBehindPrices ==
  pc = "results" ~>
    \/ gone
    \/ /\ \A b \in 1..n : Sent(Card(b))
       /\ ToFetch = {} \/ Sent(Say("availability_done"))

-----------------------------------------------------------------------------
(* The stream the client sees *)

Shown   == {b \in Books : Sent(Card(b))}
Patched == {b \in Books : Sent(Update(b))}

Phase ==
  CASE pc = "returned" -> "closed"
    [] pc # "returned" /\ Sent(Say("availability_done")) -> "checked"
    [] pc \in {"lookup", "scan", "results", "updates"} /\ ~Sent(Say("availability_done")) -> "listed"
    [] OTHER -> "open"

Ending ==
  CASE pc # "returned" -> "none"
    [] pc = "returned" /\ outcome = "ok" -> "done"
    [] pc = "returned" /\ outcome = "canceled" -> "cut"
    [] pc = "returned" /\ outcome = "error" -> "error"

Client == INSTANCE StreamProtocol
            WITH phase <- Phase, listed <- 1..n, shown <- Shown, patched <- Patched,
                 ending <- Ending, events <- Len(wire)

\* The handler implements the protocol the results page relies on: the card before
\* its patches, one card per book, availability_done and done after every card, no
\* event after the end.
ImplementsProtocol == Client!Spec

=============================================================================
