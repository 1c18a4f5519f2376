# BenReadin: a TLA+ model of the server

BenReadin takes a Goodreads shelf and a set of libraries and streams, book by book, where
each one can be borrowed or bought. The server is one Go process over one SQLite file. This
directory holds TLA+ modules of its concurrent parts, TLC configurations that check them
on small instances, and TLAPS proofs of their safety for all instances.

`PROJECT.json` is the index: runs, mutants, the source lines of every definition, findings,
hazards and theorems. Paths below are relative to the repository unless they are modules here.

## 1. The system

| Component | State it keeps | Operations |
|---|---|---|
| Search stream (`internal/handlers/search.go`, `handleSSE`) | per request: cursor, `toFetch`, two buffered channels, one goroutine per uncached book, heartbeat | one SSE stream: stubs, cached cards, checked cards, patches, done |
| OverDrive gate (same file) | `odSem` for the process, `searchSem` per search | two `Acquire`s and two deferred `Release`s around each library check |
| OverDrive service (`internal/services/overdrive.go`) | a singleflight group; `library_cache` | `CheckAvailability`, `SearchMedia` |
| Prewarm (`internal/services/prewarm.go`) | a loop with a ticker, four workers, two semaphores | refreshes `book_cache` for the seeded and the recent searches |
| Gutenberg (`internal/services/gutenberg.go`) | `gutenberg_books`, `catalogLoaded` | `LoadCatalog` once per start, `Lookup` |
| Cache and database (`cache.go`, `internal/db`) | five cache tables with lifetimes, `recent_searches` | `Get…`/`Set…`, the purge on open, SQLite's single writer |
| Goodreads (`goodreads.go`) | a singleflight group; `shelf_cache` | `FetchShelf`: pages 2-5 concurrently |
| Recommendations (`recommendations.go`, `recprofile.go`, handler) | `recState` (seen, count, max); `rec_profile` | two stages of concurrent candidates, emitted as they are found |
| Amazon, OpenLibrary | `amazon_cache`; a semaphore | `GetPrices`, `Enrich` |
| Shortlinks, autocomplete, URL parsing | `shortlinks`, `libraries` | `Create`/`Redirect`; a lookup; a pure function |
| Results page (`public/js/results.js`) | cards by id, `availabilityDone`, `streamDone` | follows the stream, patches cards, handles the end and errors |
| `main.go` | configuration | start, shutdown |

How they meet. A **search** calls Goodreads for the shelf, reads `book_cache`, starts a
goroutine per miss; each passes the **gate** once per library into the **OverDrive service**,
looks up **Gutenberg**, sends its card to the handler, and then waits for one of six OpenLibrary slots and one
of three **Amazon** slots, writes its `book_cache` row and sends a patch. **Prewarm** does the
same in the background, with slots of its own, and writes the same rows. Both go through the
same singleflight groups. **LoadCatalog** runs beside all of it and holds SQLite's only write
lock while it does. The client may leave at any moment; the process may be stopped at any moment.

What is hard about it, and what makes each part correct:

- *Search stream*: early returns while goroutines still send; two channels closed by two
  WaitGroups; contexts of different lifetimes around the check and the write. Correct when the
  page sees a well-formed stream, everything a request starts ends, availability does not
  wait for prices, and nothing cut short is cached.
- *Gate*: slots handed to waiters whose context has just ended; nested acquires. Correct when
  slots are conserved, no wake-up is lost, nobody starves, one shelf cannot take every slot.
- *OverDrive service*: a call shared with strangers, run under one of their contexts; two caches
  behind each other. Correct when each caller returns, one flight per query is open (the fallback query
  is asked within the flight of the ISBN it stands in for), and the age of what is served is bounded.
- *Prewarm*: a decision now about a tick in the future, ticks that are dropped, an unbuffered
  channel at shutdown. Correct when what it calls warm is live until it looks again,
  nothing partial is stored, and a shutdown ends it.
- *Gutenberg*: a download inside a transaction. Correct when readers see no catalog cut off in the
  middle, a catalog is not lost, every way out gives the lock back, other writers get their turn, the load ends.
- *Recommendations*: series goroutines and the author rounds claim titles under one cap, and send
  them much later. Correct when the cap and uniqueness hold over both stages, stages and rounds keep
  their order, nothing claimed is lost, and the rounds end.
- *Goodreads*: a flight shared by refreshes and ordinary calls, pages fetched concurrently by position,
  failed pages dropped. Correct when every caller gets the flight's result, every fetched page is in it,
  and the books are a beginning of the shelf in order, none of them twice.
- *Enrichment*: up to three lookups, each of which may fail or answer in part, under slots that every caller
  shares. Correct when nothing the shelf knew is replaced, slots come back on every path, and prices belong to
  the ISBN the book is shown with.
- *Taste profile*: omnibus ranges, entries only wanted, ratings that add up. Correct when only entries that are
  neither read nor shelved are looked for, in series that are not disliked, and authors are tried who earned it.
- *Results page, shortlinks*: events of a stream that may be replaced, left or lost; links made by several
  readers at once. Correct when each book has one card, only whole lists are kept, links last, and no
  stream is kept open.

## 2. The modules

| Module | Stands for | With |
|---|---|---|
| `SearchStream` | `handleSSE` | `MCSearchStream`, `SearchStreamProofs` |
| `StreamProtocol` | what a stream promises the page; the abstract specification `SearchStream` implements | |
| `OverDriveGate` | the two semaphores | `MCOverDriveGate`, `OverDriveProofs` |
| `LibraryCheck` | `CheckAvailability`, with `library_cache` and `book_cache` | `MCLibraryCheck`, `OverDriveProofs` |
| `Prewarm` | the prewarm loop over `book_cache` | `MCPrewarm`, `PrewarmProofs` |
| `GutenbergLoad` | `LoadCatalog`, the write lock, restarts | `MCGutenbergLoad`, `GutenbergLoadProofs` |
| `RecProfile` | `buildRecProfile`, `NextUnread`, as operators `RecStream` is built on | `MCRecStream` |
| `RecStream` | the recommendations handler, `getProfile`, `Stream`, `recState`, both stages | `MCRecStream`, `RecStreamProofs` |
| `RecPromise` | what a recommendations stream promises the page; `RecStream` implements it | |
| `Shelf` | `FetchShelf`, `fetchShelfPages`, `shelf_cache` | `MCShelf`, `ShelfProofs` |
| `Enrichment` | `Enrich`, `FetchRating`, `GetPrices`, `amazon_cache`, their slots | `MCEnrichment`, `EnrichmentProofs` |
| `ResultsPage` | `results.js` on `StreamProtocol`, which it takes as the server; `shorten.go` | `MCResultsPage`, `ResultsPageProofs` |

A definition marked `mutant` in its comment is a wrong version of the definition below it,
kept to show that a property notices; no specification uses it.

### SearchStream

`pc` is where the handler is: `params`, `fetching` (in `FetchShelf`), `lookup` (before
`GetBooks`), `scan` (the cache-hit loop at book `cursor`), `results` and `updates` (the two
receive loops), `returned`. `g[b]` is the goroutine of book `b`: `queued` when `b` is appended
to `toFetch`, `check` while its library goroutines run (`lib[l]` is what each came to), then
`enrich`, `azwait`, `pricing`, `store`, `patch`, `end`. `gone` is `ctx.Err() != nil`. `wire` is
the sequence of SSE events written, without `progress`, which carries nothing a property asks
about. Channel closing is not a variable: the closers do nothing but wait for a WaitGroup, so
`ResultsClosed` and `UpdatesClosed` say when it has counted down.

A book is its position on the shelf. `FetchShelf` removes repeated ids, so positions and ids
are one-to-one; `Anonymous` are the books without an id (which can then be one at most), never cached.
`Check` abstracts the gate and the OverDrive service, each with a module of its own. It is what the goroutine of
one library comes to: `filled` when `CheckAvailability` returned, with an answer or with an error, be it one that a shared
call brought from another search; `unfilled` when the book's 30 seconds ended while it queued for a slot, so that the
library keeps the "not found" it began with (`search.go:336-342`); `gone` when - only once the client has left - either of
the two was cut short for that.

`StreamProtocol` is the page's view: a list, one card for each book on it, `checked` after the
last card, patches only for cards that are there, one end and nothing after it. It counts
events so that a repeated event is not mistaken for a stutter. `SearchStream!Client` maps the
events written to it.

`RecordSearch` (the `recent_searches` row written after the shelf is fetched) is not kept: no step
of the stream reads it. See section 6.

### OverDriveGate

`at[c]` is the place of check `c`; `odSem` and `searchSem[s]` are a counter and a queue of
waiters, as in `golang.org/x/sync/semaphore`, which is outside the repository and modelled from
its use: first come first served, a release hands its slot to the head of the queue, which is
woken with the slot already counted (`wokenOd`), and one whose context has ended by then passes it on
(`PassOnOd`). For `searchSem` the woken waiter that finds its context ended is `AskOdRefused`:
it releases the slot as `leaving` does. Init, next-state relation and specification carry the prefix `Gate`,
as one module of proofs extends this one and `LibraryCheck`.

### LibraryCheck

One library. A caller is one call of `CheckAvailability` and the `book_cache` write that
follows, by a search or by prewarm. `Lead`/`Follow` are the two outcomes of `flight.Do`; `Land`
gives the result to everyone in it. An ISBN query that finds nothing is repeated with title and
author (`AskFallback`), and the answer is stored under the query that was asked *last*. A server error is asked for once more (`Retry`). The call runs under the leader's
context: when its client leaves (`ClientLeaves`), the call is cut short for everyone (`Cut`). `SearchMedia` has the same shape
under keys of its own, without the fallback.

After its answer a caller waits for the same book's checks at the other libraries (`AllChecked`, `libWg.Wait`), and only then
does `enrichCtx` begin. `asof` is when the library answered, `since` when the caller's present stage began: first
the wait for the other libraries, then the enrichment (`enriching`). `CheckTime` bounds the first: what is left of the 30 s of `bookCtx`, or of
the leader's time when the last check joined a call (at most prewarm's two minutes); `EnrichTime`, the three minutes of `enrichCtx`, the
second, by the guard of the write. Prewarm enriches first and has two minutes for all of it, which is less. A `book_cache` row is dated
when it is written, and says whether the check had been cut short.

### Prewarm

`due` is when the timer fires next and `fired` the one tick a ticker's channel holds: a tick
that finds one waiting is dropped. `FetchShelf`, `PickStale`, `Offer` (the send on `workCh`),
`Take` and the worker steps follow `prewarmTarget` and `prewarmBook`. `late` are the books whose
two minutes are over, `cut` those with a check cut short. `CheckBook` is the whole availability check of a
book, prewarm's ten OverDrive slots included. `LiveStore` is a search that writes the
same row; `Restart` ends the process anywhere and purges on open. Which targets a run has, and
how much of a shelf Goodreads returns, is any subset. `Prompt` says that a loop whose timer has
fired starts its run within the second, and a run with nothing left to do ends within it; upstream calls
take any time.

### GutenbergLoad

`catalog` is what is committed: texts and the day in the sentinel row. `FetchedAt` is 0 because
`SELECT id … WHERE id = 0` yields 0 or leaves the 0 the variable was declared with.
`BodyBreaks` is a response body that fails; from then on each `Read` returns the same error,
which the loop skips (`ReadBroken`). An INSERT that fails is passed over (`ReadRow`), and `skipped` remembers the text,
in the transaction and in the catalog it is committed with; the sentinel's may fail too, and then `at` is 0. `Begin` stands for BEGIN and the DELETE,
which takes the write lock; from there on an error (`Prepare`, `CommitFails`) leads to `unwind`, where the deferred
`Rollback` gives the lock back. A cache write that meets the transaction waits (`Wait`, while the loop waits for the next row of the feed) until
`busy_timeout` is over (`WriteBusy`). Two assumptions: a feed that is read to its end is whole (a truncated body is an
error, not EOF), and an INSERT that fails undoes itself alone. For a full disk SQLite may roll back the whole
transaction instead; that is modelled at the COMMIT only.

### RecStream

`pc` is the request's own goroutine: `params`, `profile`, `series` (starting a goroutine per
series), `seriesWait`, `authors` (the searches), `pick` (the rounds, at `rank` and `author`), `finish`.
`at[i]` is the goroutine of series `i`, and `at[Picker]` the author loop itself while it enriches.
`Claim` is a successful `tryEmit`: title and count in one critical section, `cand` then holds the title
until it is sent. A title stands for its `recTitleKey`; `None` is an empty key or no candidate. The
answers of the libraries are free: any of the titles a series' next entry may have, or none; for an
author any ranking of titles by the author that are not in `seen` (which nobody changes while the
author searches run). A client that leaves makes searches come back empty, which is among these
answers. The taste profile is made from the reader's shelves by `RecProfile`:
`entries` are the unread next entries, `authors` those above the threshold, both in the code's order. That the cached
profile may be a day older than the shelves is left out: properties speak of the shelves the profile was made from.
`rec_progress` events, and the count in `recs_done`, are left out: that count is
incremented by concurrent callbacks without a lock (`handlers/recommendations.go:81`), so it can be too
low, but the page ignores it.

### Shelf

One shelf, one `singleflight` key. `at[c]` is a caller of `FetchShelf`: `missed` after a cache read that
gave nothing (a refresh skips it, so a miss is always possible), `flight` inside `flight.Do`. `fpc` is the
leader's progress through `fetchShelfPages`; `page[p]` the goroutine of page `p`, which keeps its slot of
`sem` until it has sent. `read[p]` is how long the shelf was when page `p` was read: books are numbered as
they are added, so this is all that the page's content depends on. Removing a book from the shelf, or
sorting it anew, is not modelled. A page fails for any reason, a leader whose client has left among them. `Used` are the
pages up to the first gap, `Listed` their books one page after the other, `Deduped` the first of each book, and `Assemble`
the three together: the last third of the function.

### RecProfile

Pure operators over a reader's shelves. A book is its key, author, rating and the entries its annotation names
(`#3` has `to = 0`, `#1-3` a range). Weights are doubled, as three stars count a half. `Leading` is
"the first of a set in an order", which is what sorting and cutting to `maxAuthors` give. Two things the code does that
its comments do not say: `#0` and `#0.5` give a `MaxRead` of 0, and the series is then passed over although a book of it
is finished (`recprofile.go:225`, comment 21); two books with three stars weigh 1, below the threshold,
although the comment says "two finished books" (135-136). The model has the code's version.

### Enrichment

A task is a book on its way through `Enrich` and `GetPrices`: of a search, of prewarm (each with an Amazon
pool of its own) or of a recommendation, which is rated in between and takes no Amazon slot. A field of a book is
`none`, `nophoto`, the `shelf`'s or `ol`'s; an answer of Open Library is the set of fields it has. `book` is what is
enriched so far, `given` what it began with. `Proceed` gives the slot back when the lookups are over. An ISBN is named
by field and source; `rows[k]` is the live row of ISBN `k` in `amazon_cache`, shared by all: it holds the ISBN its result was found by, which
is what a hit returns (`CacheHit`), whatever key it is under. A row stands for prices
and for the price-less result that is stored when the second call fails (`amazon.go:94-103`).
What the model shows of the caps: recommendations ask for prices with no slot and prewarm has its own,
so that the "3-wide global cap" of `search.go:299-300` is one of searches only. `lookupBySearch` never replaces a
"nophoto" cover, although `enrichBook` (134) searches because of it.

### ResultsPage

The server's end of a connection is an instance of `StreamProtocol` (`Server`); what it sends is on `wire` until the
page dispatches it. `Break` puts the loss of the connection behind what still arrives. `elements[b]` counts the
cards and stubs of a book in the grid, `byId` is `bookElements`, `allBooks` the list, `saved` the entry of this search
in the browser's results cache together with the list it came from. A book without an id keeps its stub beside
its card (`results.js:690, 706`), which the model has and no property forbids. `OnLost` is what the two handlers of a
lost connection do together: the one registered first closes the EventSource, so `onerror` returns at its first
line. `request[r]` is a request for a link inside `Create`; a failed look-up counts as not found, a token that is
taken is an error, an answer may never arrive. `given` remembers every token that was given out.

## 3. Runs

| Run | Asks | Instance | Result |
|---|---|---|---|
| `search_stream` | stream protocol, room in the channels, no canceled check cached, the staying client gets `done`, all goroutines end; cards without any enrichment step being fair | 2 books, one without id; 2 libraries; 1 Amazon slot | holds |
| `gate` | slots, limits, wake-ups, room, starvation | searches of 3 and 2 checks, 3 global slots, 2 per search | holds |
| `library_check` | one flight per query, the age of what `book_cache` serves, every check returns | 2 callers, an edition with an ISBN; lifetimes 2 and 2, checks 1, enrichment 1, clock 4 to 9 | holds |
| `prewarm` | nothing partial, warm between runs, shutdown | 2 targets sharing a book, lifetime 3, interval 2, 1 worker, clock 3 to 9 | holds |
| `gutenberg` | no catalog cut off, never lost, flag, lock given back | 2 texts, 2 writers, days 3-6, week of 2 days | holds |
| `gutenberg_weekly`, `_ends` | two statements of docs and comments | same | **violated** |
| `shelf` | every page collected, no sender blocked, no repetition, a beginning of the shelf, all callers served | 2 callers, 4 pages of 2 books, 2 slots, up to 5 books | holds |
| `rec_stream` | the profile's entries and authors, the promise, nothing claimed is lost, round order, end | 5 titles, 2 series and 2 authors that overlap, 96 pairs of shelves, cap 3 | holds |
| `library_poisoned` | no row from a check that somebody's leaving cut short | as `library_check`, with an edition without ISBN besides; book lifetime 1, clock 3 to 5 | **violated** |
| `enrichment` | the shelf's data, slots, prices, end | 2 tasks of searches and recommendations, 3 kinds of book, answers with all or part, 1 slot each | holds |
| `results_page` | one card, whole lists, links, no open stream | 2 books, one without id; 2 requests of the page, 1 of another reader, 2 tokens, 2 searches | holds |

Why the bounds are enough. Two books are the least that can be ordered differently by
their goroutines and by the shelf, with one cached and one not, one named and one anonymous;
two libraries are the least for a book with one check done and one pending. In the gate the
sizes are such that both queues form, behind both the own and the other search. In `prewarm`
the interval is below the lifetime (the case the comment is about), time runs for the start delay,
the first run, and ticks on both sides of a second and third; runs may take longer than the
interval, so ticks are dropped. Its one worker is busy when the second book of a shelf
is handed out, so that the loop waits in its send when a shutdown comes; several workers that share the Amazon slots are left to the
proofs, which are of safety. In `library_check` a `library_cache` row can be read on its last second, the book's checks take
their whole time, the row is written on the last second of the enrichment and read on its last: the bound is reached, one
second less is refuted, and a second is left for a write that comes too late. A second edition, whose query is the fallback of the first, is
in `library_poisoned` only: with it and these times liveness is out of reach. Two texts are the least for
half a catalog. In `rec_stream` the two series can want one title, an author's book can be a series' entry,
and the two authors want the same three books in any two orders; the shelves have first entries and omnibus ranges, every kind of
rating, and wanted books that are next entries or candidates; three
places are too few for all and enough for a second round. In `enrichment` two tasks want one slot of each kind, and share
an ISBN; the books lack nothing, an ISBN, or everything but a title. In `results_page` the first book can be shown when the stream
is lost, a refresh overtakes a request for a link, and both tokens can be taken. In `shelf` the third page holds the
last book and the fourth none, two slots make the loop wait and two pages be read in either order, books
are added in between, and a page before the third may fail. What the bounds cut off - larger numbers of everything - is what the proofs cover.

Deadlock is checked in every run. The specifications of a single request (`SearchStream`, `OverDriveGate`)
stutter explicitly (`Ended`) once everything has ended, and only then.

### Fairness

- Goroutines are scheduled: weak fairness of each step that is computation, a channel
  operation or a semaphore hand-over.
- An upstream call returns: every one runs under a context with a deadline (30 s, 3 min,
  2 min) or a client with a timeout. Its *result* stays free.
- Nothing is assumed of the client, of contexts ending, of the clock, of restarts.
- `AcquireAz(b) \/ AbandonAz(b)` is fair as a whole: a waiter gets a slot or its context ends. The run of
  `SearchStream` assumes fairness of the availability checks only (`AvailabilitySpec`); the two properties that speak of
  the end of a stream name what else they need (`EnrichmentFairness => ...`).
- `FairSpec` of `Enrichment` is strong fairness of each task: a slot that is freed again and again is had at last, as
  `semaphore.Weighted` serves in order. No deadline is assumed to end.
- `FairSpec` of `ResultsPage`: the server goes on, which `SearchStream` shows, or the connection breaks; the browser
  dispatches what arrived.
- `FairSpec` of `Shelf`: requests to Goodreads return (20 s client timeout), goroutines and waiters run.
- `FairSpec` of `RecStream`: the request's goroutine and each started one run, and searches return.
- `FairSpec` of `LibraryCheck`: upstream calls return, as said above; the caller is not required to go on after its answer.
- `FairSpec` of `GutenbergLoad` assumes only that the loading goroutine runs (a read of the feed returns, if only with an error, as the
  client's 60 s cover the body); `gutenberg` needs it for `LockGivenBack`, and `gutenberg_ends`
  is a loop that runs for ever, not one that is not scheduled.

## 4. What is proved

For all values of the constants under the assumptions the modules state (`SearchAssumption`,
`GateAssumption`, `CheckAssumption`, `PrewarmAssumption`, `LoadAssumption`, `RecAssumption`, `ProfileAssumption`, `ShelfAssumption`, `EnrichmentAssumption`,
`PageAssumption`): the type invariants, every safety property of the passing runs, and both refinements (`ImplementsProtocol`,
`ImplementsPromise`). The type invariants are proved and not checked again by runs.

- **SearchStreamProofs.** `StreamInv`. `NoSenderBlocks` is not inductive: one must know that a
  channel holds no more values than goroutines have passed its send (`ChannelInv`; the receiver
  only shortens it), so that a goroutine that has not is missing from the count
  (`RoomInChannel`). `NoCanceledRow` needs `SlotInv`: a slot is `gone` only if the client is,
  and then the write is guarded off, although by a different context. `ClientInv` says what has been written of each book at each
  place of its goroutine, values waiting in the channels included; from it `ProtocolKept` takes the steps in turn: each
  is the step of `StreamProtocol` for the event it writes, or a stutter.
- **OverDriveProofs**, both parts of OverDrive. *Gate*: one predicate, `SemaphoreInv(s, H, W, size)`, ties a semaphore to the sets of
  its holders and waiters; one lemma per operation keeps it; the two semaphores are
  two instances. That waiters are distinct and really waiting is what makes a hand-over add
  exactly one holder. *Check*: `AnswerAge` (an answer was at most `LibraryTTL - 1` old when the caller got
  it, and `CheckTime` older when the enrichment began) and `RowAge` (plus `EnrichTime` when written) give `AgeBounded`.
- **PrewarmProofs.** `LiveBetweenRuns` rests on an anchor: a row kept warm outlasts
  `begun + Interval` (`WarmLasts`), and while no tick has come since `begun` the next is due by
  then (`TickSoon`). However long the run took, either the next tick is already waiting or it
  comes before the row ends. The first run has no ticker, so neither holds for it (section 5).
- **GutenbergLoadProofs.** A transaction reaches COMMIT only when every text of the feed is inserted or was
  refused (`LoadComplete`); `CatalogKept` is an action property from the same invariant.
- **RecStreamProofs.** `ClaimInv`: the count is what was sent plus what emitters hold (`Pending`), whose
  titles are distinct, unsent and not shelved; so whoever holds a claim has room below the cap
  (`ClaimHasRoom`), although many send at once. `StageInv` keeps series goroutines out of the author
  stage. `PromiseKept` is the refinement: a send is a `Recommend`, an end a `Close`, everything else
  a stutter. `RoundInv` gives each pick its place in its author's list, behind the place of the round.
  `NextEntryUnread` and `AuthorsEarned` speak of the shelves a profile was made from: the first follows from the entries being
  `Leading` of unread ones (`SourceInv`), the second from a bound on sums of weights (`SumBounded`): an author who
  misses either condition stays below the threshold.
- **EnrichmentProofs.** Slots and their holders move together on every branch of a lookup (`SlotsAreConserved`).
  `ShelfPrevails` rests on one fact of each lookup: `ByIsbn` and `BySearch` write a field only where it is `none`
  or a placeholder. `PricesBelong`: a row holds the result for its own key, whoever stored it (`RowsOwn`), and nothing changes a book between its look-up
  at Amazon and its event.
- **ShelfProofs.** `ChannelInv` (what was sent is in the channel or received) and `LoopInv` (exactly the pages
  below `next` were started, and goroutines run only while the flight starts or collects pages). A page
  that runs has not sent, so the channel misses at least one page (`SendersNeverBlock`). `NoBookTwice` and
  `ResultIsTheBeginning` are about the books: `Lists` describes `Listed` page by page, `DedupedOnce` and `DedupedSame` say that
  `Deduped` lists every book once and drops none, `ListedIsBeginning` that pages read one after the other, up to a gap,
  hold the books from the newest on. `ResultInv` carries what was put together up to the caller.
- **ResultsPageProofs.** `OneCardEach` needs what is still on the wire: the list is the first event and finds an empty
  grid (`ListFirst`), the cards sent and not yet dispatched are those missing in `allBooks`, once each (`CardsComing`), and an
  end is followed by nothing but the loss (`EndIsLast`); all of it only while the connection is open, as closing it drops the wire.
  `WholeListsSaved`: at `done` no card is on the wire, so the list is whole. `GivenLinksLast`: an answer carries a token whose row
  leads to its search (`Sound`), and rows stay as they are (`RowsStay`).

Only model-checked: the liveness properties (`StayingClientServed`, `Quiesces`,
`AvailabilityNotBehindPrices`, `EveryCheckEnds`, `ShutdownEndsLoop`, `LockGivenBack`, `ChecksReturn`,
`StreamEnds`, `FetchesReturn`, `EnrichmentEnds`, `PageSettles`), which need
fairness and `ENABLED`, out of the prover's reach.

The functions a shelf and a taste profile are computed with recurse over data. The library's induction theorems take
an operator, which the provers cannot instantiate; the proofs use its theorem on minimal elements instead (`LeastNumber`,
`SetInduction`): the numbers for which a claim holds are a set, with 0 and with every successor in it. Functions that
a definition introduces by recursion are shown to exist the same way (`RecursionExists`, `SumExists`).

## 5. Findings

Each is a violation run with a counterexample.

1. `gutenberg_ends` (bug): a body that breaks during the download makes the row loop spin for
   ever, with the write lock (`gutenberg.go:116-118`).
2. `gutenberg_weekly` (bug): the catalog's age is read from the wrong column, so every start
   downloads it (`gutenberg.go:51`).
3. `library_poisoned` (bug): checks of one query share a call under the context of whoever came first; when that client
   leaves, the others take the canceled call for "not found" and store it (`overdrive.go:154-156`), past the guards of
   `search.go:398` and `prewarm.go:269`, which look at their own context.

Stated in the modules and refuted by TLC, without a run of their own. Each can be seen by naming it as
the INVARIANT of the configuration:

- `NoUnfilledRow` in `MCSearchStream.cfg`: a book whose 30 seconds end while it queues for the gate is stored as "not found" for the
  lifetime of `book_cache`, as the write is guarded by a later context (`search.go:320, 336-342, 398`); prewarm, "exactly like a live
  search", leaves such a book out ("don't poison the cache", `prewarm.go:224, 270`).
- `CachedForTheTTL` in `MCLibraryCheck.cfg`: availability is cached for two lifetimes that stack (`search.go:399`), not for the 2
  hours of `README.md:75`; `AgeBounded` is the bound that holds.
- `NoBusy` in `MCGutenbergLoad.cfg`: a cache write that meets the catalog's transaction fails with SQLITE_BUSY; `db.go:34-35` says it
  does not. `busy_timeout` is 5 s, and the transaction lasts as long as the download.
- `CatalogComplete` in `MCGutenbergLoad.cfg`: a text whose INSERT fails is left out and the rest committed
  (`gutenberg.go:140-142`); no comment promises otherwise.
- `AllPicked` in `MCRecStream.cfg`: a round in which every candidate is a duplicate ends the author stage with candidates left and the
  list not full (`recommendations.go:379-381`); it takes two authors that `authorMatchKey` does not tell apart.
- `LiveAfterEveryRun` in `MCPrewarm.cfg`: rows the first run skips can expire before the second, where `prewarm.go:172-174` says
  "always".

Met on the way, without a property: a lost connection is neither reported nor finished quietly, since the first
of the two handlers always closes the EventSource (`results.js:774, 778`; the comment at 780-781 says otherwise); a client that leaves during the shelf fetch counts under outcome
"error" (`search.go:209`, against `metrics.go:13-14`); the data race on the
count of `recs_done` above; a waiter whose leader's client leaves after page 1 gets, and finds cached, a
truncated shelf rather than the error `goodreads.go:113-114` speaks of; a book added between two page requests can push
another from a page read late to one read early, so that `FetchShelf` does not return "all books" (`goodreads.go:96`).

## 6. Plan

What would come next, in this order:

1. **RecentSearches** in Prewarm: recording, purge and deduplication of targets, so that a run's targets are no longer any set.
2. **SharedCheck**: the whole of SearchStream over LibraryCheck's flight; today the composition is by hand, one
   library and one row at a time.

TLC runs stay within three minutes; proofs go into one module per component, those of OverDrive's two parts into one together.

## 7. Not modelled, and why

Request signing, feed and JSON parsing, title matching, genre classification, HTML: data, with
tests of their own. Middleware, static files, metrics counters: stateless or write-only.
The library autocomplete: a read of a
table that asks Thunder when it finds nothing. Shelf URLs: a pure function over strings. Descriptions of books: filled in
like page counts, and nothing depends on them. Heartbeat writes: only the goroutine's end is modelled. Write errors on the SSE connection:
`sendEvent` ignores them. Panics. Configuration values that the assumptions exclude: a
concurrency below one for the gate, an interval below one second.
