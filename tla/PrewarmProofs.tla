--------------------------- MODULE PrewarmProofs ---------------------------
(* Safety of the prewarm loop for every set of books and targets and every  *)
(* setting of the lifetimes, the interval and the worker counts.            *)
EXTENDS Prewarm, TLAPS

\* A check is cut short only by a context that stays ended until the book is done.
CutEnded == \A b \in cut : Ended(b)

\* Once the ticker runs, its next tick is ahead, at most an interval.
TickAhead ==
  /\ pc = "delay" => first
  /\ pc = "idle" \/ ~first => clock < due /\ due <= clock + Interval

\* While no tick has come since the run began, the next comes within an interval of that.
TickSoon == ~first /\ ~fired => due <= begun + Interval

\* What the run skipped or refreshed lives an interval from where the run began.
WarmLasts ==
  ~first /\ Interval < BookTTL => \A b \in warm : row[b] + BookTTL > begun + Interval

PrewarmInv ==
  /\ TypeOK
  /\ NoPartialRow /\ CutEnded
  /\ TickAhead /\ TickSoon /\ WarmLasts

USE PrewarmAssumption

-----------------------------------------------------------------------------

\* The loop starts with an empty cut set, no run behind it and rows of the past.
LEMMA InitPrewarm == Init => PrewarmInv
<1> SUFFICES ASSUME Init PROVE PrewarmInv
  OBVIOUS
<1>1. row \in [Books -> 0..clock]
  BY DEF Init, NoRow
<1>2. clock \in Nat /\ due \in Nat /\ begun \in 0..clock
  BY DEF Init
<1>3. w \in [Books -> {"free", "check", "azwait", "pricing", "store"}]
  BY DEF Init
<1>4. TypeOK
  BY <1>1, <1>2, <1>3 DEF Init, TypeOK
<1> QED
  BY <1>4 DEF Init, PrewarmInv, NoPartialRow, CutEnded, TickAhead, TickSoon, WarmLasts

\* Typing, one action at a time.
LEMMA TypeStep == TypeOK /\ [Next]_vars => TypeOK'
<1> SUFFICES ASSUME TypeOK, [Next]_vars PROVE TypeOK'
  OBVIOUS
<1> USE DEF timerVars, runVars, bookVars, cacheVars, vars
<1>1. CASE UNCHANGED vars
  BY <1>1 DEF TypeOK
<1>2. CASE StartRun
  <2>1. first' \in BOOLEAN
    BY <1>2, Zenon DEF StartRun
  <2>2. begun' \in 0..clock'
    BY <1>2 DEF StartRun, TypeOK
  <2> QED
    BY <1>2, <2>1, <2>2 DEF StartRun, TypeOK
<1>3. CASE Return
  BY <1>3 DEF Return, TypeOK
<1>4. CASE EndRun
  BY <1>4 DEF EndRun, TypeOK
<1>5. CASE PickStale
  <2>1. /\ pc' = "feed" /\ warm' \subseteq Books /\ toFetch' \subseteq Books
        /\ shelf' = {}
    BY <1>5 DEF PickStale, TypeOK
  <2> QED
    BY <1>5, <2>1 DEF PickStale, TypeOK
<1>6. CASE Break
  BY <1>6 DEF Break, TypeOK
<1>7. CASE TargetDone
  BY <1>7 DEF TargetDone, TypeOK
<1>8. ASSUME NEW t \in Targets, FetchShelf(t) PROVE TypeOK'
  BY <1>8 DEF FetchShelf, TypeOK
<1>9. ASSUME NEW b \in Books, Offer(b) PROVE TypeOK'
  BY <1>9 DEF Offer, TypeOK
<1>10. ASSUME NEW b \in Books, Take(b) PROVE TypeOK'
  BY <1>10 DEF Take, TypeOK
<1>11. ASSUME NEW b \in Books, CheckBook(b) PROVE TypeOK'
  <2>1. cut' \subseteq Books
    BY <1>11 DEF CheckBook, TypeOK
  <2> QED
    BY <1>11, <2>1 DEF CheckBook, TypeOK
<1>12. ASSUME NEW b \in Books, AcquireAz(b) PROVE TypeOK'
  BY <1>12 DEF AcquireAz, TypeOK
<1>13. ASSUME NEW b \in Books, AbandonAz(b) PROVE TypeOK'
  BY <1>13 DEF AbandonAz, TypeOK
<1>14. ASSUME NEW b \in Books, GetPrices(b) PROVE TypeOK'
  BY <1>14 DEF GetPrices, TypeOK
<1>15. ASSUME NEW b \in Books, Store(b) PROVE TypeOK'
  <2>1. row' \in [Books -> 0..clock] /\ partial' \subseteq Books /\ warm' \subseteq Books
    BY <1>15 DEF Store, Write, TypeOK
  <2> QED
    BY <1>15, <2>1 DEF Store, TypeOK
<1>16. ASSUME NEW b \in Books, Expire(b) PROVE TypeOK'
  BY <1>16 DEF Expire, TypeOK
<1>17. ASSUME NEW b \in Books, LiveStore(b) PROVE TypeOK'
  BY <1>17 DEF LiveStore, TypeOK
<1>18. CASE Advance
  <2>1. clock' \in Nat /\ clock' = clock + 1
    BY <1>18 DEF Advance, TypeOK
  <2>2. row' \in [Books -> 0..clock'] /\ begun' \in 0..clock'
    <3>1. row \in [Books -> 0..clock] /\ clock \in Nat /\ begun \in 0..clock
      BY DEF TypeOK
    <3>2. row' = row /\ begun' = begun
      BY <1>18 DEF Advance
    <3>3. \A x \in 0..clock : x \in 0..clock'
      <4>1. PICK k \in Nat : clock' = k /\ k = clock + 1
        BY <2>1
      <4> QED
        BY <3>1, <4>1
    <3>4. row \in [Books -> 0..clock'] /\ begun \in 0..clock'
      BY <3>1, <3>3
    <3> QED
      BY <3>2, <3>4
  <2>4. due' \in Nat /\ fired' \in BOOLEAN
    <3>1. CASE clock' = due
      <4>1. fired' = TRUE /\ (due' = 0 \/ due' = due + Interval)
        BY <1>18, <3>1 DEF Advance
      <4> QED
        BY <4>1 DEF TypeOK
    <3>2. CASE clock' # due
      <4>1. fired' = fired /\ due' = due
        BY <1>18, <3>2 DEF Advance
      <4> QED
        BY <4>1 DEF TypeOK
    <3> QED
      BY <3>1, <3>2
  <2> QED
    BY <1>18, <2>1, <2>2, <2>4 DEF Advance, TypeOK
<1>19. CASE Shutdown
  BY <1>19 DEF Shutdown, TypeOK
<1>20. CASE Restart
  <2>1. row' \in [Books -> 0..clock]
    BY <1>20 DEF Restart, TypeOK, NoRow
  <2>2. due' \in Nat /\ begun' \in 0..clock
    BY <1>20 DEF Restart, Boot, TypeOK
  <2>3. w' \in [Books -> {"free", "check", "azwait", "pricing", "store"}]
    BY <1>20 DEF Restart, Boot
  <2>4. partial' \subseteq Books
    BY <1>20 DEF Restart, TypeOK
  <2> QED
    BY <1>20, <2>1, <2>2, <2>3, <2>4 DEF Restart, Boot, TypeOK
<1> QED
  BY <1>1, <1>2, <1>3, <1>4, <1>5, <1>6, <1>7, <1>8, <1>9, <1>10, <1>11, <1>12, <1>13,
     <1>14, <1>15, <1>16, <1>17, <1>18, <1>19, <1>20 DEF Next, Loop, Worker

\* The cache keeps no partial row: the write looks at the context the checks ran under.
LEMMA PartialStep ==
  TypeOK /\ NoPartialRow /\ CutEnded /\ [Next]_vars => NoPartialRow' /\ CutEnded'
<1> SUFFICES ASSUME TypeOK, NoPartialRow, CutEnded, [Next]_vars
             PROVE  NoPartialRow' /\ CutEnded'
  OBVIOUS
<1> USE DEF timerVars, runVars, bookVars, cacheVars, vars, NoPartialRow, CutEnded, Ended
<1>1. CASE UNCHANGED vars
  BY <1>1
<1>2. CASE Loop
  BY <1>2 DEF Loop, StartRun, Return, EndRun, PickStale, Break, TargetDone
<1>3. ASSUME NEW t \in Targets, FetchShelf(t) PROVE NoPartialRow' /\ CutEnded'
  BY <1>3 DEF FetchShelf
<1>4. ASSUME NEW b \in Books, Offer(b) \/ Take(b) \/ AcquireAz(b) \/ AbandonAz(b) \/ GetPrices(b)
      PROVE  NoPartialRow' /\ CutEnded'
  BY <1>4 DEF Offer, Take, AcquireAz, AbandonAz, GetPrices
<1>5. ASSUME NEW b \in Books, CheckBook(b) PROVE NoPartialRow' /\ CutEnded'
  BY <1>5 DEF CheckBook
<1>6. ASSUME NEW b \in Books, Store(b) PROVE NoPartialRow' /\ CutEnded'
  BY <1>6 DEF Store, Write
<1>7. ASSUME NEW b \in Books, Expire(b) \/ LiveStore(b) PROVE NoPartialRow' /\ CutEnded'
  BY <1>7 DEF Expire, LiveStore
<1>8. CASE Advance \/ Shutdown
  BY <1>8 DEF Advance, Shutdown
<1>9. CASE Restart
  BY <1>9 DEF Restart, Boot
<1> QED
  BY <1>1, <1>2, <1>3, <1>4, <1>5, <1>6, <1>7, <1>8, <1>9 DEF Next, Worker

\* The ticks: the ticker counts from the end of the first run, drops the tick that finds
\* one waiting, and never falls behind the clock.
LEMMA TickStep ==
  TypeOK /\ TickAhead /\ TickSoon /\ [Next]_vars => TickAhead' /\ TickSoon'
<1> SUFFICES ASSUME TypeOK, TickAhead, TickSoon, [Next]_vars
             PROVE  TickAhead' /\ TickSoon'
  OBVIOUS
<1> USE DEF timerVars, runVars, bookVars, cacheVars, vars, TickAhead, TickSoon
<1>1. ASSUME UNCHANGED <<clock, due, fired, first, begun>>,
             pc' = pc \/ pc' \in {"run", "shelf", "feed", "returned"}
      PROVE  TickAhead' /\ TickSoon'
  BY <1>1
<1>2. CASE StartRun
  BY <1>2 DEF StartRun, TypeOK
<1>3. CASE EndRun
  BY <1>3 DEF EndRun, TypeOK
<1>4. CASE Advance
  <2>1. clock' = clock + 1 /\ UNCHANGED <<pc, first, begun>>
    BY <1>4 DEF Advance
  <2>2. CASE clock' = due
    BY <1>4, <2>1, <2>2 DEF Advance, TypeOK
  <2>3. CASE clock' # due
    BY <1>4, <2>1, <2>3 DEF Advance, TypeOK
  <2> QED
    BY <2>2, <2>3
<1>5. CASE Restart
  BY <1>5 DEF Restart, Boot
<1>6. CASE Return \/ PickStale \/ Break \/ TargetDone \/ Shutdown \/ UNCHANGED vars
  BY <1>1, <1>6 DEF Return, PickStale, Break, TargetDone, Shutdown
<1>7. ASSUME NEW t \in Targets, FetchShelf(t) PROVE TickAhead' /\ TickSoon'
  BY <1>1, <1>7 DEF FetchShelf
<1>8. ASSUME NEW b \in Books, Offer(b) \/ Worker(b) \/ Expire(b) \/ LiveStore(b)
      PROVE  TickAhead' /\ TickSoon'
  BY <1>1, <1>8 DEF Offer, Worker, Take, CheckBook, AcquireAz, AbandonAz, GetPrices, Store,
                    Expire, LiveStore
<1> QED
  BY <1>2, <1>3, <1>4, <1>5, <1>6, <1>7, <1>8 DEF Next, Loop

\* What is warm outlasts the interval: the threshold is taken after the run began, and
\* every write is later still.
LEMMA WarmStep == TypeOK /\ WarmLasts /\ [Next]_vars => WarmLasts'
<1> SUFFICES ASSUME TypeOK, WarmLasts, [Next]_vars,
                    ~first', Interval < BookTTL,
                    NEW b \in warm'
             PROVE  row'[b] + BookTTL > begun' + Interval
  BY DEF WarmLasts
<1> USE DEF timerVars, runVars, bookVars, cacheVars, vars
<1> DEFINE Lasts == row'[b] + BookTTL > begun' + Interval
<1>0. /\ clock \in Nat /\ begun \in Nat /\ begun <= clock
      /\ \A x \in Books : row[x] \in Nat /\ row[x] <= clock
  BY DEF TypeOK
<1>1. ASSUME UNCHANGED <<row, first, begun, warm>> PROVE Lasts
  BY <1>1 DEF WarmLasts
<1>2. CASE StartRun
  BY <1>2 DEF StartRun
<1>3. CASE PickStale
  <2>1. b \in warm \/ (b \in Books /\ row[b] > StaleAt)
    BY <1>3 DEF PickStale, TypeOK
  <2>2. CASE b \in warm
    BY <1>3, <2>2 DEF PickStale, WarmLasts
  <2>3. CASE b \in Books /\ row[b] > StaleAt
    BY <1>0, <1>3, <2>3 DEF PickStale, StaleAt
  <2> QED
    BY <2>1, <2>2, <2>3
<1>4. ASSUME NEW x \in Books,
             row' = [row EXCEPT ![x] = clock], warm' \subseteq warm \union {x},
             UNCHANGED <<first, begun>>,
             x = b \/ b \in warm
      PROVE  Lasts
  <2>1. row \in [Books -> 0..clock] /\ warm \subseteq Books
    BY DEF TypeOK
  <2>2. CASE x = b
    BY <1>0, <1>4, <2>1, <2>2
  <2>3. CASE x # b
    BY <1>4, <2>1, <2>3 DEF WarmLasts
  <2> QED
    BY <2>2, <2>3
<1>5. ASSUME NEW x \in Books, LiveStore(x) PROVE Lasts
  <2>1. row' = [row EXCEPT ![x] = clock] /\ warm' = warm /\ UNCHANGED <<first, begun>>
    BY <1>5 DEF LiveStore
  <2> QED
    BY <1>4, <2>1
<1>6. ASSUME NEW x \in Books, Store(x) PROVE Lasts
  <2>1. CASE Write(x)
    BY <1>4, <1>6, <2>1 DEF Store, Write
  <2>2. CASE UNCHANGED cacheVars
    BY <1>1, <1>6, <2>2 DEF Store
  <2> QED
    BY <1>6, <2>1, <2>2 DEF Store
<1>7. CASE Restart
  BY <1>7 DEF Restart, Boot
<1>8. CASE Return \/ EndRun \/ Break \/ TargetDone \/ Advance \/ Shutdown \/ UNCHANGED vars
  BY <1>1, <1>8 DEF Return, EndRun, Break, TargetDone, Advance, Shutdown
<1>9. ASSUME NEW t \in Targets, FetchShelf(t) PROVE Lasts
  BY <1>1, <1>9 DEF FetchShelf
<1>10. ASSUME NEW x \in Books,
              Offer(x) \/ Take(x) \/ CheckBook(x) \/ AcquireAz(x) \/ AbandonAz(x)
              \/ GetPrices(x) \/ Expire(x)
       PROVE  Lasts
  BY <1>1, <1>10 DEF Offer, Take, CheckBook, AcquireAz, AbandonAz, GetPrices, Expire
<1> QED
  BY <1>2, <1>3, <1>5, <1>6, <1>7, <1>8, <1>9, <1>10 DEF Next, Loop, Worker

\* The four parts together are inductive.
LEMMA NextPrewarm == PrewarmInv /\ [Next]_vars => PrewarmInv'
  BY TypeStep, PartialStep, TickStep, WarmStep DEF PrewarmInv

-----------------------------------------------------------------------------

\* The inductive invariant holds in every reachable state.
THEOREM PrewarmInvariant == Spec => []PrewarmInv
  BY InitPrewarm, NextPrewarm, PTL DEF Spec

\* Every variable stays in its type, and no row is from the future.
THEOREM TypeCorrect == Spec => []TypeOK
<1>1. PrewarmInv => TypeOK
  BY DEF PrewarmInv
<1> QED
  BY <1>1, PrewarmInvariant, PTL

\* No result that the context cut short is written to book_cache (prewarm.go:269-271).
THEOREM NothingPartialCached == Spec => []NoPartialRow
<1>1. PrewarmInv => NoPartialRow
  BY DEF PrewarmInv
<1> QED
  BY <1>1, PrewarmInvariant, PTL

\* From the second run on, what a run left warm is live until the next one begins
\* (prewarm.go:172-175), whatever the lifetimes and however long the runs take.
THEOREM WarmBetweenRuns == Spec => []LiveBetweenRuns
<1>1. PrewarmInv => LiveBetweenRuns
  <2> SUFFICES ASSUME PrewarmInv, pc = "idle", ~fired, ~first, Interval < BookTTL,
                      NEW b \in warm
               PROVE  Live(b)
    BY DEF LiveBetweenRuns
  <2>1. clock < due /\ due <= begun + Interval /\ row[b] + BookTTL > begun + Interval
    BY DEF PrewarmInv, TickAhead, TickSoon, WarmLasts
  <2>2. clock \in Nat /\ due \in Nat /\ begun \in Nat /\ row[b] \in Nat
    BY DEF PrewarmInv, TypeOK
  <2> QED
    BY <2>1, <2>2 DEF Live
<1> QED
  BY <1>1, PrewarmInvariant, PTL

=============================================================================
