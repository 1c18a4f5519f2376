--------------------------- MODULE GutenbergLoad ---------------------------
(***************************************************************************)
(* The Gutenberg catalog: GutenbergService.LoadCatalog                     *)
(* (internal/services/gutenberg.go), run once by each process, against     *)
(* SQLite's single writer lock and the cache writes that need it           *)
(* (internal/db/db.go: WAL, busy_timeout).                                 *)
(*                                                                         *)
(* The catalog is what is committed, which is what Lookup reads: the texts *)
(* and the day written into the sentinel row, 0 when there is none. It     *)
(* also remembers, for the properties, which texts the database refused    *)
(* when it was loaded. The feed is read while the transaction is open; its *)
(* body can break at any point (the client's 60s cover it) and then every  *)
(* read of it fails. Feeds that are read to the end are whole. A refused   *)
(* INSERT undoes itself alone, not its transaction.                        *)
(***************************************************************************)
EXTENDS Integers, FiniteSets

CONSTANTS
  Texts,          \* the English texts of the feed
  Writers,        \* goroutines that write to the caches
  RefreshDays,    \* gutenbergRefreshTTL
  FirstDay,       \* the day of the first start, counted from the Unix epoch
  LastDay,        \* bound on the days
  BusyTimeout     \* busy_timeout

ASSUME LoadAssumption ==
  /\ IsFiniteSet(Texts) /\ Texts # {}
  /\ RefreshDays \in Nat
  /\ FirstDay \in Nat /\ LastDay \in Nat
  /\ RefreshDays < FirstDay /\ FirstDay <= LastDay
  /\ BusyTimeout \in Nat

VARIABLES
  now,
  catalog,    \* [texts, skipped, at]
  loaded,     \* catalogLoaded, which /api/health shows
  pc,         \* LoadCatalog
  rest,       \* the texts the feed still holds
  tx,         \* the texts inserted in the open transaction
  skipped,    \* and those whose INSERT failed
  broken,     \* reading the body fails
  lock,       \* who holds the write lock
  cache,      \* the cache write of each writer
  waited      \* how long it has waited for the lock

loadVars == <<pc, rest, tx, skipped, broken>>
writeVars == <<cache, waited>>
vars == <<now, catalog, loaded, loadVars, lock, writeVars>>

NoCatalog == [texts |-> {}, skipped |-> {}, at |-> 0]

Init ==
  /\ now = FirstDay
  /\ catalog = NoCatalog
  /\ loaded = FALSE
  /\ pc = "check" /\ rest = {} /\ tx = {} /\ skipped = {} /\ broken = FALSE
  /\ lock = "free"
  /\ cache = [x \in Writers |-> "idle"] /\ waited = [x \in Writers |-> 0]

-----------------------------------------------------------------------------
(* LoadCatalog *)

\* Rows of gutenberg_books, the sentinel included.
Count == Cardinality(catalog.texts) + (IF catalog.at = 0 THEN 0 ELSE 1)

\* SELECT id ... WHERE id = 0, into a variable that is 0 without such a row.
FetchedAt == 0

Check ==
  /\ pc = "check"
  /\ IF Count > 1 /\ now - FetchedAt < RefreshDays
       THEN loaded' = TRUE /\ pc' = "done"
       ELSE pc' = "fetch" /\ UNCHANGED loaded
  /\ UNCHANGED <<now, catalog, rest, tx, skipped, broken, lock, writeVars>>

\* The request, the header line and its columns.
Fetch ==
  /\ pc = "fetch"
  /\ \/ pc' = "begin" /\ rest' = Texts
     \/ pc' = "failed" /\ UNCHANGED rest
  /\ UNCHANGED <<now, catalog, loaded, tx, skipped, broken, lock, writeVars>>

\* mutant: the old rows go before the transaction begins
BeginAfterDelete ==
  /\ pc = "begin" /\ lock = "free"
  /\ pc' = "prepare" /\ lock' = "load"
  /\ tx' = {} /\ skipped' = {}
  /\ catalog' = NoCatalog
  /\ UNCHANGED <<now, loaded, rest, broken, writeVars>>
\* BEGIN is deferred: the DELETE takes the write lock.
Begin ==
  /\ pc = "begin" /\ lock = "free"
  /\ pc' = "prepare" /\ lock' = "load"
  /\ tx' = {} /\ skipped' = {}
  /\ UNCHANGED <<now, catalog, loaded, rest, broken, writeVars>>

\* BEGIN fails, or the DELETE does not get the lock.
BeginFails ==
  /\ pc = "begin"
  /\ pc' = "failed"
  /\ UNCHANGED <<now, catalog, loaded, rest, tx, skipped, broken, lock, writeVars>>

Prepare ==
  /\ pc = "prepare"
  /\ pc' \in {"rows", "unwind"}
  /\ UNCHANGED <<now, catalog, loaded, rest, tx, skipped, broken, lock, writeVars>>

\* A row of the feed, whose INSERT may fail: the error is passed over.
ReadRow(t) ==
  /\ pc = "rows" /\ ~broken
  /\ t \in rest
  /\ rest' = rest \ {t}
  /\ \/ tx' = tx \union {t} /\ UNCHANGED skipped
     \/ skipped' = skipped \union {t} /\ UNCHANGED tx
  /\ UNCHANGED <<now, catalog, loaded, pc, broken, lock, writeVars>>

\* mutant: any error ends the loop
ReadBrokenEnds ==
  /\ pc = "rows" /\ broken
  /\ pc' = "commit"
  /\ UNCHANGED <<now, catalog, loaded, rest, tx, skipped, broken, lock, writeVars>>
\* An error other than EOF is taken for a malformed row: the loop reads on.
ReadBroken ==
  /\ pc = "rows" /\ broken
  /\ UNCHANGED vars

ReadEOF ==
  /\ pc = "rows" /\ ~broken /\ rest = {}
  /\ pc' = "commit"
  /\ UNCHANGED <<now, catalog, loaded, rest, tx, skipped, broken, lock, writeVars>>

\* The sentinel, whose INSERT may fail unnoticed, and COMMIT.
Commit ==
  /\ pc = "commit"
  /\ \E at \in {0, now} : catalog' = [texts |-> tx, skipped |-> skipped, at |-> at]
  /\ loaded' = TRUE
  /\ pc' = "done" /\ lock' = "free"
  /\ UNCHANGED <<now, rest, tx, skipped, broken, writeVars>>

\* mutant: the flag is set whatever COMMIT says
CommitFailsLoaded ==
  /\ pc = "commit"
  /\ pc' = "unwind"
  /\ loaded' = TRUE
  /\ UNCHANGED <<now, catalog, rest, tx, skipped, broken, lock, writeVars>>
CommitFails ==
  /\ pc = "commit"
  /\ pc' = "unwind"
  /\ UNCHANGED <<now, catalog, loaded, rest, tx, skipped, broken, lock, writeVars>>

\* mutant: an early return rolls nothing back
RollbackLeftOut ==
  /\ pc = "unwind"
  /\ pc' = "failed"
  /\ UNCHANGED <<now, catalog, loaded, rest, tx, skipped, broken, lock, writeVars>>
\* The deferred Rollback; after a COMMIT that failed it finds the transaction over, as
\* SQLite ends it itself when the disk is full or fails.
Rollback ==
  /\ pc = "unwind"
  /\ pc' = "failed" /\ lock' = "free"
  /\ UNCHANGED <<now, catalog, loaded, rest, tx, skipped, broken, writeVars>>

-----------------------------------------------------------------------------
(* The connection, the other writers and the process *)

BodyBreaks ==
  /\ pc \in {"begin", "prepare", "rows"} /\ ~broken
  /\ broken' = TRUE
  /\ UNCHANGED <<now, catalog, loaded, pc, rest, tx, skipped, lock, writeVars>>

\* SetLibrary, SetAmazon, SetBook, SetShelf, SetRecProfile, RecordSearch.
AskWrite(x) ==
  /\ cache[x] = "idle"
  /\ cache' = [cache EXCEPT ![x] = "waiting"] /\ waited' = [waited EXCEPT ![x] = 0]
  /\ UNCHANGED <<now, catalog, loaded, loadVars, lock>>

Write(x) ==
  /\ cache[x] = "waiting" /\ lock = "free"
  /\ cache' = [cache EXCEPT ![x] = "idle"] /\ waited' = [waited EXCEPT ![x] = 0]
  /\ UNCHANGED <<now, catalog, loaded, loadVars, lock>>

\* The next row is still on its way, and whoever waits for the lock waits on.
Wait ==
  /\ pc = "rows"
  /\ \E x \in Writers : cache[x] = "waiting" /\ waited[x] < BusyTimeout
  /\ waited' = [x \in Writers |-> IF cache[x] = "waiting" /\ waited[x] < BusyTimeout
                                    THEN waited[x] + 1 ELSE waited[x]]
  /\ UNCHANGED <<now, catalog, loaded, loadVars, lock, cache>>

\* SQLITE_BUSY; the caller logs it and goes on.
WriteBusy(x) ==
  /\ cache[x] = "waiting" /\ lock # "free" /\ waited[x] = BusyTimeout
  /\ cache' = [cache EXCEPT ![x] = "busy"] /\ waited' = [waited EXCEPT ![x] = 0]
  /\ UNCHANGED <<now, catalog, loaded, loadVars, lock>>

LogBusy(x) ==
  /\ cache[x] = "busy"
  /\ cache' = [cache EXCEPT ![x] = "idle"]
  /\ UNCHANGED <<now, catalog, loaded, loadVars, lock, waited>>

\* The process ends at any point; the open transaction is rolled back.
Restart ==
  /\ now' \in now..LastDay
  /\ loaded' = FALSE
  /\ pc' = "check" /\ rest' = {} /\ tx' = {} /\ skipped' = {} /\ broken' = FALSE
  /\ lock' = "free"
  /\ cache' = [x \in Writers |-> "idle"] /\ waited' = [x \in Writers |-> 0]
  /\ UNCHANGED catalog

-----------------------------------------------------------------------------

Load ==
  \/ Check \/ Fetch \/ Begin \/ BeginFails \/ Prepare
  \/ \E t \in Texts : ReadRow(t)
  \/ ReadBroken \/ ReadEOF \/ Commit \/ CommitFails \/ Rollback

WriterStep(x) == AskWrite(x) \/ Write(x) \/ WriteBusy(x) \/ LogBusy(x)

Next ==
  \/ Load
  \/ BodyBreaks
  \/ Wait
  \/ \E x \in Writers : WriterStep(x)
  \/ Restart

Spec == Init /\ [][Next]_vars

\* The loading goroutine is never held up for ever.
FairSpec == Spec /\ WF_vars(Load)

-----------------------------------------------------------------------------

\* Every variable stays in its type; no sentinel is from the future.
TypeOK ==
  /\ now \in FirstDay..LastDay
  /\ catalog \in [texts : SUBSET Texts, skipped : SUBSET Texts, at : 0..now]
  /\ loaded \in BOOLEAN
  /\ pc \in {"check", "fetch", "begin", "prepare", "rows", "commit", "unwind", "done", "failed"}
  /\ rest \subseteq Texts /\ tx \subseteq Texts /\ skipped \subseteq Texts
  /\ broken \in BOOLEAN
  /\ lock \in {"free", "load"}
  /\ cache \in [Writers -> {"idle", "waiting", "busy"}]
  /\ waited \in [Writers -> 0..BusyTimeout]

\* Lookup never sees a catalog cut off in the middle, wherever a download breaks, a commit
\* fails or the process ends: the rows are replaced in one transaction
\* (gutenberg.go:93-152), and a text is missing only if the database refused that very row.
CatalogWhole ==
  catalog.texts # {} => catalog.texts \union catalog.skipped = Texts

\* A catalog that was there is never lost to a later load that fails: a text goes only
\* with a load that was committed and whose INSERT of that text failed.
CatalogKept == [][catalog.texts \subseteq catalog'.texts \union catalog'.skipped]_vars

\* /api/health reports the catalog only when a load has been committed, with every text
\* the database took.
LoadedIsThere == loaded => catalog.texts \union catalog.skipped = Texts

\* Every way out of LoadCatalog gives the write lock back (gutenberg.go:97, 103-108, 152),
\* unless the body broke, when there is no way out (LoadEnds).
LockGivenBack == lock = "load" ~> lock = "free" \/ broken

\* The whole of the feed or nothing. Not so: an INSERT that fails is passed over and the
\* rest is committed (gutenberg.go:140-142); the log counts what went in (156).
CatalogComplete == catalog.texts \in {{}, Texts}

\* "busy_timeout serializes writer collisions instead of surfacing SQLITE_BUSY"
\* (db.go:34-35): a cache write that meets the load waits and gets its turn. Not so: the
\* transaction is open while the feed is downloaded, longer than busy_timeout.
NoBusy == \A x \in Writers : cache[x] # "busy"

\* "Re-download catalog if older than this many seconds (7 days)" (gutenberg.go:20-22),
\* "if it is missing or stale" (gutenberg.go:42), "refreshed weekly on startup"
\* (schema.sql:32): a start within the week downloads nothing.
OnlyStaleDownloaded ==
  [][pc = "check" /\ pc' = "fetch" =>
       catalog.texts = {} \/ now - catalog.at >= RefreshDays]_vars

\* "skip malformed rows" (gutenberg.go:117), "may not appear for the first minute or so
\* after a fresh start" (README.md:74): the loop over the rows ends, well or badly.
LoadEnds == pc = "rows" ~> pc # "rows"

=============================================================================
