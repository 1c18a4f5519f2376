------------------------------ MODULE Prewarm ------------------------------
(***************************************************************************)
(* The prewarm loop over book_cache: internal/services/prewarm.go, with    *)
(* BookFetchedAt and SetBook of cache.go and the purge of db.go.           *)
(*                                                                         *)
(* The processes are the loop (pc), the workers that resolve one book each *)
(* (w), the clock, the live searches that write the same rows              *)
(* (SearchStream's Store, here LiveStore) and the process that may be      *)
(* restarted. A book stands for one (GoodreadsID, libraries) row.          *)
(*                                                                         *)
(* Time is in the seconds of unixepoch(). A row is its fetched_at; NoRow   *)
(* is older than every lifetime, as the lookups treat a missing row.       *)
(***************************************************************************)
EXTENDS Integers, FiniteSets

CONSTANTS
  Books,
  Targets,
  ShelfOf,      \* the cacheable books of a target's shelf
  BookTTL,      \* CACHE_TTL_BOOK
  Interval,     \* PREWARM_INTERVAL
  StartDelay,   \* prewarmStartupDelay
  Workers,      \* prewarmBookWorkers
  AzSlots,      \* prewarmAZConcurrency
  MaxTime,      \* bound on the clock
  None

ASSUME PrewarmAssumption ==
  /\ IsFiniteSet(Books)
  /\ ShelfOf \in [Targets -> SUBSET Books]
  /\ BookTTL \in Nat \ {0}
  /\ Interval \in Nat \ {0}
  /\ StartDelay \in Nat \ {0}
  /\ Workers \in Nat \ {0}
  /\ AzSlots \in Nat \ {0}
  /\ MaxTime \in Nat /\ BookTTL <= MaxTime
  /\ None \notin Books

VARIABLES
  clock,
  row,        \* fetched_at of each book's row
  partial,    \* the rows with a result that was cut short by a context
  stop,       \* ctx is cancelled: the server shuts down
  pc,         \* the loop
  due,        \* when its timer fires next; 0 when it has none
  fired,      \* a tick is waiting in the timer's channel
  first,      \* the last run was the one before the ticker was made
  begun,      \* when the last run began
  todo,       \* targets of the run, still to do
  shelf,      \* what FetchShelf returned
  toFetch, offer,   \* books not yet handed out; the one in the send on workCh
  w,          \* the worker on each book
  late,       \* the books whose two minutes are over
  cut,        \* the books with a check cut short by the context
  warm        \* the books this run found fresh or refreshed

timerVars == <<due, fired>>
runVars   == <<first, begun, todo>>
bookVars  == <<toFetch, offer, w, late, cut>>
cacheVars == <<row, partial, warm>>
vars == <<clock, stop, pc, shelf, timerVars, runVars, bookVars, cacheVars>>

NoRow == 0

\* A lookup with the TTL, and the purge when the database is opened.
Live(b) == row[b] > clock - BookTTL

\* mutant: rows are looked at as a reader does
StaleAtExpiry == clock - BookTTL
\* Rows that end before the next run are refreshed.
StaleAt == clock - (BookTTL - Interval)

\* bookCtx.Err() # nil
Ended(b) == b \in late \/ stop

InFlight == {b \in Books : w[b] # "free"}

Pricing == {b \in Books : w[b] = "pricing"}

-----------------------------------------------------------------------------

\* A process starts with the rows the purge leaves.
Boot ==
  /\ stop' = FALSE
  /\ pc' = "delay" /\ due' = clock + StartDelay /\ fired' = FALSE
  /\ first' = TRUE /\ begun' = clock
  /\ todo' = {} /\ shelf' = {}
  /\ toFetch' = {} /\ offer' = None
  /\ w' = [b \in Books |-> "free"]
  /\ late' = {} /\ cut' = {} /\ warm' = {}

Init ==
  /\ clock = BookTTL
  /\ row \in [Books -> {NoRow} \union (1..BookTTL)]
  /\ partial = {}
  /\ stop = FALSE
  /\ pc = "delay" /\ due = clock + StartDelay /\ fired = FALSE
  /\ first = TRUE /\ begun = clock
  /\ todo = {} /\ shelf = {}
  /\ toFetch = {} /\ offer = None
  /\ w = [b \in Books |-> "free"]
  /\ late = {} /\ cut = {} /\ warm = {}

-----------------------------------------------------------------------------
(* The loop *)

\* The timer fires, or a tick waits in the ticker's channel (one at most).
StartRun ==
  /\ pc \in {"delay", "idle"}
  /\ fired
  /\ fired' = FALSE
  /\ first' = (pc = "delay")
  /\ begun' = clock
  /\ todo' \in SUBSET Targets     \* the seeds and what RecentSearches finds
  /\ warm' = {}
  /\ pc' = "run"
  /\ UNCHANGED <<clock, stop, shelf, due, bookVars, row, partial>>

Return ==
  /\ pc \in {"delay", "idle"}
  /\ stop
  /\ pc' = "returned"
  /\ UNCHANGED <<clock, stop, shelf, timerVars, runVars, bookVars, cacheVars>>

\* mutant: the ticker is made again after every run
EndRunNewTicker ==
  /\ pc = "run"
  /\ todo = {} \/ stop
  /\ pc' = "idle"
  /\ due' = clock + Interval
  /\ UNCHANGED <<clock, stop, shelf, fired, runVars, bookVars, cacheVars>>
\* No target is left or the context has ended. The first run is followed by
\* NewTicker: the ticks count from its end.
EndRun ==
  /\ pc = "run"
  /\ todo = {} \/ stop
  /\ pc' = "idle"
  /\ due' = IF first THEN clock + Interval ELSE due
  /\ UNCHANGED <<clock, stop, shelf, fired, runVars, bookVars, cacheVars>>

\* FetchShelf: all of the shelf, what came of it, or nothing on an error.
FetchShelf(t) ==
  /\ pc = "run" /\ ~stop
  /\ t \in todo
  /\ todo' = todo \ {t}
  /\ shelf' \in SUBSET ShelfOf[t]
  /\ pc' = "shelf"
  /\ UNCHANGED <<clock, stop, timerVars, first, begun, bookVars, cacheVars>>

\* The rows that outlast the interval are skipped; one whose lookup fails is not.
PickStale ==
  /\ pc = "shelf"
  /\ \E unread \in SUBSET shelf :
       LET fresh == {b \in shelf \ unread : row[b] > StaleAt} IN
         /\ warm' = warm \union fresh
         /\ toFetch' = shelf \ fresh
  /\ shelf' = {}
  /\ pc' = "feed"
  /\ UNCHANGED <<clock, stop, timerVars, runVars, offer, w, late, cut, row, partial>>

\* The loop that hands out the books looks at ctx before each blocking send.
Offer(b) ==
  /\ pc = "feed" /\ ~stop
  /\ offer = None /\ b \in toFetch
  /\ offer' = b /\ toFetch' = toFetch \ {b}
  /\ UNCHANGED <<clock, stop, pc, shelf, timerVars, runVars, w, late, cut, cacheVars>>

Break ==
  /\ pc = "feed" /\ stop
  /\ offer = None /\ toFetch # {}
  /\ toFetch' = {}
  /\ UNCHANGED <<clock, stop, pc, shelf, timerVars, runVars, offer, w, late, cut, cacheVars>>

\* close(workCh); wg.Wait().
TargetDone ==
  /\ pc = "feed"
  /\ toFetch = {} /\ offer = None /\ InFlight = {}
  /\ pc' = "run"
  /\ UNCHANGED <<clock, stop, shelf, timerVars, runVars, bookVars, cacheVars>>

-----------------------------------------------------------------------------
(* prewarmBook *)

\* mutant: a worker ends with the context, and the send on workCh waits for ever
TakeUnlessStopped(b) ==
  /\ offer = b /\ ~stop
  /\ Cardinality(InFlight) < Workers
  /\ offer' = None
  /\ w' = [w EXCEPT ![b] = "check"]
  /\ UNCHANGED <<clock, stop, pc, shelf, timerVars, runVars, toFetch, late, cut, cacheVars>>
Take(b) ==
  /\ offer = b
  /\ Cardinality(InFlight) < Workers
  /\ offer' = None
  /\ w' = [w EXCEPT ![b] = "check"]
  /\ UNCHANGED <<clock, stop, pc, shelf, timerVars, runVars, toFetch, late, cut, cacheVars>>

\* The checks of all libraries: some are cut short only if bookCtx has ended.
CheckBook(b) ==
  /\ w[b] = "check"
  /\ cut' \in {cut} \union (IF Ended(b) THEN {cut \union {b}} ELSE {})
  /\ w' = [w EXCEPT ![b] = "azwait"]
  /\ UNCHANGED <<clock, stop, pc, shelf, timerVars, runVars, toFetch, offer, late, cacheVars>>

AcquireAz(b) ==
  /\ w[b] = "azwait" /\ ~Ended(b)
  /\ Cardinality(Pricing) < AzSlots
  /\ w' = [w EXCEPT ![b] = "pricing"]
  /\ UNCHANGED <<clock, stop, pc, shelf, timerVars, runVars, toFetch, offer, late, cut,
                 cacheVars>>

AbandonAz(b) ==
  /\ w[b] = "azwait" /\ Ended(b)
  /\ w' = [w EXCEPT ![b] = "store"]
  /\ UNCHANGED <<clock, stop, pc, shelf, timerVars, runVars, toFetch, offer, late, cut,
                 cacheVars>>

GetPrices(b) ==
  /\ w[b] = "pricing"
  /\ w' = [w EXCEPT ![b] = "store"]
  /\ UNCHANGED <<clock, stop, pc, shelf, timerVars, runVars, toFetch, offer, late, cut,
                 cacheVars>>

Write(b) ==
  /\ row' = [row EXCEPT ![b] = clock]
  /\ partial' = IF b \in cut THEN partial \union {b} ELSE partial \ {b}
  /\ warm' = warm \union {b}

\* mutant: only the shutdown is looked at
StoreInTime(b) ==
  /\ w[b] = "store"
  /\ \/ ~stop /\ Write(b)
     \/ UNCHANGED cacheVars
  /\ w' = [w EXCEPT ![b] = "free"]
  /\ late' = late \ {b} /\ cut' = cut \ {b}
  /\ UNCHANGED <<clock, stop, pc, shelf, timerVars, runVars, toFetch, offer>>
\* SetBook, unless the context has ended; SetBook may fail.
Store(b) ==
  /\ w[b] = "store"
  /\ \/ ~Ended(b) /\ Write(b)
     \/ UNCHANGED cacheVars
  /\ w' = [w EXCEPT ![b] = "free"]
  /\ late' = late \ {b} /\ cut' = cut \ {b}
  /\ UNCHANGED <<clock, stop, pc, shelf, timerVars, runVars, toFetch, offer>>

-----------------------------------------------------------------------------
(* Around the loop *)

\* A timer that has fired wakes the loop, and a run with nothing left to do ends, before
\* the second is over.
Prompt == (pc \in {"delay", "idle"} /\ fired) \/ (pc = "run" /\ todo = {})

\* A second passes; a tick that finds one waiting is dropped.
Advance ==
  /\ clock < MaxTime
  /\ ~Prompt
  /\ clock' = clock + 1
  /\ IF clock' = due
       THEN fired' = TRUE /\ due' = IF pc = "delay" THEN 0 ELSE due + Interval
       ELSE UNCHANGED timerVars
  /\ UNCHANGED <<stop, pc, shelf, runVars, bookVars, cacheVars>>

Expire(b) ==
  /\ w[b] # "free" /\ b \notin late
  /\ late' = late \union {b}
  /\ UNCHANGED <<clock, stop, pc, shelf, timerVars, runVars, toFetch, offer, w, cut, cacheVars>>

\* A live search stores the same book.
LiveStore(b) ==
  /\ row' = [row EXCEPT ![b] = clock]
  /\ partial' = partial \ {b}
  /\ UNCHANGED <<clock, stop, pc, shelf, timerVars, runVars, bookVars, warm>>

Shutdown ==
  /\ ~stop
  /\ stop' = TRUE
  /\ UNCHANGED <<clock, pc, shelf, timerVars, runVars, bookVars, cacheVars>>

\* The process ends, whatever it was doing, and the next one opens the database.
Restart ==
  /\ row' = [b \in Books |-> IF Live(b) THEN row[b] ELSE NoRow]
  /\ partial' = {b \in partial : Live(b)}
  /\ Boot
  /\ UNCHANGED clock

-----------------------------------------------------------------------------

Loop == StartRun \/ Return \/ EndRun \/ PickStale \/ Break \/ TargetDone

Worker(b) ==
  Take(b) \/ CheckBook(b) \/ AcquireAz(b) \/ AbandonAz(b) \/ GetPrices(b) \/ Store(b)

Next ==
  \/ Loop
  \/ \E t \in Targets : FetchShelf(t)
  \/ \E b \in Books : Offer(b) \/ Worker(b) \/ Expire(b) \/ LiveStore(b)
  \/ Advance \/ Shutdown \/ Restart

Spec == Init /\ [][Next]_vars

\* The goroutines run and every upstream call returns, its context having a deadline.
Fairness ==
  /\ WF_vars(Loop)
  /\ WF_vars(Return)
  /\ WF_vars(\E t \in Targets : FetchShelf(t))
  /\ WF_vars(\E b \in Books : Offer(b))
  /\ \A b \in Books :
       /\ WF_vars(Take(b))
       /\ WF_vars(CheckBook(b))
       /\ WF_vars(AcquireAz(b) \/ AbandonAz(b))
       /\ WF_vars(GetPrices(b))
       /\ WF_vars(Store(b))

FairSpec == Spec /\ Fairness

-----------------------------------------------------------------------------

\* Every variable stays in its type; in particular no row is from the future.
TypeOK ==
  /\ clock \in Nat
  /\ row \in [Books -> 0..clock]
  /\ partial \subseteq Books
  /\ stop \in BOOLEAN
  /\ pc \in {"delay", "idle", "run", "shelf", "feed", "returned"}
  /\ due \in Nat /\ fired \in BOOLEAN
  /\ first \in BOOLEAN /\ begun \in 0..clock
  /\ todo \subseteq Targets
  /\ shelf \subseteq Books
  /\ toFetch \subseteq Books /\ offer \in Books \union {None}
  /\ w \in [Books -> {"free", "check", "azwait", "pricing", "store"}]
  /\ late \subseteq Books /\ cut \subseteq Books
  /\ warm \subseteq Books

\* "partial results - don't poison the cache" (prewarm.go:269-271): no row holds a check
\* that the two minutes of its book or the shutdown cut short, whenever they ended.
NoPartialRow == partial = {}

\* "so a user landing between runs always finds a live cache row" (prewarm.go:172-174):
\* while the loop waits for the next tick, what the last run skipped or refreshed is
\* live, however long that run took. It holds from the second run on.
LiveBetweenRuns ==
  pc = "idle" /\ ~fired /\ ~first /\ Interval < BookTTL => \A b \in warm : Live(b)

\* The same, as the comment has it: after every run.
LiveAfterEveryRun ==
  pc = "idle" /\ ~fired /\ Interval < BookTTL => \A b \in warm : Live(b)

\* A shutdown ends the loop: no worker, sender or waiter for the Amazon slot is left
\* behind, in whichever state it comes (the next process may have started by then).
ShutdownEndsLoop == stop ~> (pc = "returned" \/ ~stop)

=============================================================================
