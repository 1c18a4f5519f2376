--------------------------- MODULE OverDriveGate ---------------------------
(***************************************************************************)
(* The two semaphores every live OverDrive check passes: searchSem, one    *)
(* per search, then odSem, shared by all searches (search.go:308-351,      *)
(* 84-96). A check is the goroutine of one book at one library; its        *)
(* context (bookCtx) ends by its 30s deadline or with the client.          *)
(*                                                                         *)
(* The semaphores are golang.org/x/sync/semaphore v0.20: first come first  *)
(* served, a release hands the slot to the first waiter, and a waiter that *)
(* finds its context ended after it was handed a slot gives it back.       *)
(***************************************************************************)
EXTENDS Integers, Sequences, FiniteSets

CONSTANTS
  Searches,
  Checks,
  Owner,            \* the search a check belongs to
  OdConcurrency,    \* CONCURRENCY_OVERDRIVE
  OdPerSearch       \* CONCURRENCY_OVERDRIVE_PER_SEARCH, as configured

ASSUME GateAssumption ==
  /\ IsFiniteSet(Checks)
  /\ Owner \in [Checks -> Searches]
  /\ OdConcurrency \in Nat \ {0}
  /\ OdPerSearch \in Int

VARIABLES
  at,          \* where each check is
  odSem,       \* [cur, waiters]
  searchSem,   \* a semaphore for each search
  expired      \* the checks whose bookCtx has ended

gateVars == <<at, odSem, searchSem, expired>>

Place == {"start", "waitSearch", "hasSearch", "waitOd", "wokenOd", "calling",
          "leaving", "done"}

Semaphore == [cur : Nat, waiters : Seq(Checks)]

\* An unset or oversized ceiling is clamped to the global one.
PerSearch ==
  IF OdPerSearch <= 0 \/ OdPerSearch > OdConcurrency THEN OdConcurrency ELSE OdPerSearch

-----------------------------------------------------------------------------
(* The semaphore *)

NewSemaphore == [cur |-> 0, waiters |-> <<>>]

\* mutant: the size is not looked at
FreeUnlessQueued(s, size) == s.waiters = <<>>
Free(s, size) == s.cur < size /\ s.waiters = <<>>

Take(s) == [s EXCEPT !.cur = @ + 1]

Enqueue(s, c) == [s EXCEPT !.waiters = Append(@, c)]

\* mutant: nobody is woken
ReleaseSilently(s) == [s EXCEPT !.cur = @ - 1]
Release(s) ==
  IF s.waiters = <<>> THEN [s EXCEPT !.cur = @ - 1]
                      ELSE [s EXCEPT !.waiters = Tail(@)]

\* The waiter a release hands its slot to.
Next1(s) == IF s.waiters = <<>> THEN {} ELSE {Head(s.waiters)}

\* The waiter at position k leaves the queue.
Withdraw(s, k) ==
  [s EXCEPT !.waiters = [i \in 1..(Len(s.waiters) - 1) |->
                           IF i < k THEN s.waiters[i] ELSE s.waiters[i + 1]]]

-----------------------------------------------------------------------------

GateInit ==
  /\ at = [c \in Checks |-> "start"]
  /\ odSem = NewSemaphore
  /\ searchSem = [s \in Searches |-> NewSemaphore]
  /\ expired = {}

Move(c, place) == at' = [at EXCEPT ![c] = place]

\* c goes to `place`, and whoever is handed the slot it releases is woken.
MoveAndWake(c, place, woken, wokenPlace) ==
  at' = [x \in Checks |-> IF x = c THEN place
                          ELSE IF x \in woken THEN wokenPlace ELSE at[x]]

\* searchSem.Acquire: refused, granted at once, or queued.
AskSearchRefused(c) ==
  /\ at[c] = "start" /\ c \in expired
  /\ Move(c, "done")
  /\ UNCHANGED <<odSem, searchSem, expired>>

\* mutant: the search's semaphore has the global size
AskSearchUnclamped(c) ==
  /\ at[c] = "start" /\ c \notin expired
  /\ Free(searchSem[Owner[c]], OdConcurrency)
  /\ searchSem' = [searchSem EXCEPT ![Owner[c]] = Take(@)]
  /\ Move(c, "hasSearch")
  /\ UNCHANGED <<odSem, expired>>
AskSearchGranted(c) ==
  /\ at[c] = "start" /\ c \notin expired
  /\ Free(searchSem[Owner[c]], PerSearch)
  /\ searchSem' = [searchSem EXCEPT ![Owner[c]] = Take(@)]
  /\ Move(c, "hasSearch")
  /\ UNCHANGED <<odSem, expired>>

AskSearchQueued(c) ==
  /\ at[c] = "start" /\ c \notin expired
  /\ ~Free(searchSem[Owner[c]], PerSearch)
  /\ searchSem' = [searchSem EXCEPT ![Owner[c]] = Enqueue(@, c)]
  /\ Move(c, "waitSearch")
  /\ UNCHANGED <<odSem, expired>>

GiveUpSearch(c) ==
  /\ at[c] = "waitSearch" /\ c \in expired
  /\ \E k \in 1..Len(searchSem[Owner[c]].waiters) :
       /\ searchSem[Owner[c]].waiters[k] = c
       /\ searchSem' = [searchSem EXCEPT ![Owner[c]] = Withdraw(@, k)]
  /\ Move(c, "done")
  /\ UNCHANGED <<odSem, expired>>

\* odSem.Acquire, holding a slot of the search.
AskOdRefused(c) ==
  /\ at[c] = "hasSearch" /\ c \in expired
  /\ Move(c, "leaving")
  /\ UNCHANGED <<odSem, searchSem, expired>>

AskOdGranted(c) ==
  /\ at[c] = "hasSearch" /\ c \notin expired
  /\ Free(odSem, OdConcurrency)
  /\ odSem' = Take(odSem)
  /\ Move(c, "calling")
  /\ UNCHANGED <<searchSem, expired>>

AskOdQueued(c) ==
  /\ at[c] = "hasSearch" /\ c \notin expired
  /\ ~Free(odSem, OdConcurrency)
  /\ odSem' = Enqueue(odSem, c)
  /\ Move(c, "waitOd")
  /\ UNCHANGED <<searchSem, expired>>

GiveUpOd(c) ==
  /\ at[c] = "waitOd" /\ c \in expired
  /\ \E k \in 1..Len(odSem.waiters) :
       /\ odSem.waiters[k] = c
       /\ odSem' = Withdraw(odSem, k)
  /\ Move(c, "leaving")
  /\ UNCHANGED <<searchSem, expired>>

ProceedOd(c) ==
  /\ at[c] = "wokenOd" /\ c \notin expired
  /\ Move(c, "calling")
  /\ UNCHANGED <<odSem, searchSem, expired>>

\* mutant: the slot is not given back
KeepOd(c) ==
  /\ at[c] = "wokenOd" /\ c \in expired
  /\ Move(c, "leaving")
  /\ UNCHANGED <<odSem, searchSem, expired>>
\* Handed a slot, but the context has ended: the slot goes on to the next.
PassOnOd(c) ==
  /\ at[c] = "wokenOd" /\ c \in expired
  /\ odSem' = Release(odSem)
  /\ MoveAndWake(c, "leaving", Next1(odSem), "wokenOd")
  /\ UNCHANGED <<searchSem, expired>>

\* mutant: CheckAvailability's error path returns without the deferred release
CallReturnsHolding(c) ==
  /\ at[c] = "calling"
  /\ Move(c, "leaving")
  /\ UNCHANGED <<odSem, searchSem, expired>>
\* CheckAvailability returned; the deferred releases run, odSem first.
CallReturns(c) ==
  /\ at[c] = "calling"
  /\ odSem' = Release(odSem)
  /\ MoveAndWake(c, "leaving", Next1(odSem), "wokenOd")
  /\ UNCHANGED <<searchSem, expired>>

LeaveSearch(c) ==
  /\ at[c] = "leaving"
  /\ searchSem' = [searchSem EXCEPT ![Owner[c]] = Release(@)]
  /\ MoveAndWake(c, "done", Next1(searchSem[Owner[c]]), "hasSearch")
  /\ UNCHANGED <<odSem, expired>>

\* With several libraries the checks of one book expire together; letting each
\* expire on its own adds behaviours and takes none away.
Expire(c) ==
  /\ at[c] # "done" /\ c \notin expired
  /\ expired' = expired \union {c}
  /\ UNCHANGED <<at, odSem, searchSem>>

Step(c) ==
  \/ AskSearchRefused(c) \/ AskSearchGranted(c) \/ AskSearchQueued(c) \/ GiveUpSearch(c)
  \/ AskOdRefused(c) \/ AskOdGranted(c) \/ AskOdQueued(c) \/ GiveUpOd(c)
  \/ ProceedOd(c) \/ PassOnOd(c) \/ CallReturns(c) \/ LeaveSearch(c)

AllDone == \A c \in Checks : at[c] = "done"

Ended == AllDone /\ UNCHANGED gateVars

GateNext == (\E c \in Checks : Step(c) \/ Expire(c)) \/ Ended

GateSpec == GateInit /\ [][GateNext]_gateVars

\* Goroutines run and calls return. Contexts need not end.
Fairness == \A c \in Checks : WF_gateVars(Step(c))

GateFairSpec == GateSpec /\ Fairness

-----------------------------------------------------------------------------

OdHolders == {c \in Checks : at[c] \in {"wokenOd", "calling"}}

SearchHolders(s) ==
  {c \in Checks : Owner[c] = s /\
     at[c] \in {"hasSearch", "waitOd", "wokenOd", "calling", "leaving"}}

\* Every check is at a known place and both semaphores count in the naturals.
GateTypeOK ==
  /\ at \in [Checks -> Place]
  /\ odSem \in Semaphore
  /\ searchSem \in [Searches -> Semaphore]
  /\ expired \subseteq Checks

\* No slot leaks and none is released twice, on any of the early returns: the
\* counters are the checks between acquire and release (search.go:336-343).
SlotsConserved ==
  /\ odSem.cur = Cardinality(OdHolders)
  /\ \A s \in Searches : searchSem[s].cur = Cardinality(SearchHolders(s))

\* At most CONCURRENCY_OVERDRIVE calls are in flight, and at most the per-search
\* ceiling of one search.
WithinLimits ==
  /\ Cardinality(OdHolders) <= OdConcurrency
  /\ \A s \in Searches : Cardinality(SearchHolders(s)) <= PerSearch

\* No lost wake-up: nobody queues while a slot is free.
NoIdleSlot ==
  /\ odSem.waiters # <<>> => odSem.cur = OdConcurrency
  /\ \A s \in Searches : searchSem[s].waiters # <<>> => searchSem[s].cur = PerSearch

\* The purpose of the per-search ceiling (search.go:308-310): one huge shelf alone
\* never makes a check of another search, or its own, wait for a global slot.
HugeShelfLeavesRoom ==
  PerSearch < OdConcurrency /\ odSem.waiters # <<>> =>
    \A s \in Searches : \E c \in OdHolders : Owner[c] # s

\* Nobody starves: every check gets its call or gives up, without needing a deadline.
EveryCheckEnds == <>AllDone

=============================================================================
