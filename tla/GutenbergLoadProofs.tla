------------------------ MODULE GutenbergLoadProofs ------------------------
(* Safety of the catalog load for every feed, every number of cache writers *)
(* and every sequence of starts.                                            *)
EXTENDS GutenbergLoad, FiniteSetTheorems, TLAPS

\* What the feed still holds, what was inserted and what the database refused make up the
\* feed, and a transaction reaches COMMIT only with nothing left of it.
LoadComplete ==
  /\ pc \in {"begin", "prepare"} => rest = Texts
  /\ pc = "prepare" => tx = {} /\ skipped = {}
  /\ pc = "rows" => tx \union skipped \union rest = Texts
  /\ pc = "commit" => tx \union skipped = Texts

LoadInv == TypeOK /\ LoadComplete /\ CatalogWhole /\ LoadedIsThere

USE LoadAssumption

-----------------------------------------------------------------------------

\* The first start finds no catalog and nobody in a transaction.
LEMMA InitLoad == Init => LoadInv
<1> SUFFICES ASSUME Init PROVE LoadInv
  OBVIOUS
<1>1. /\ cache \in [Writers -> {"idle", "waiting", "busy"}]
      /\ waited \in [Writers -> 0..BusyTimeout]
      /\ catalog \in [texts : SUBSET Texts, skipped : SUBSET Texts, at : 0..now]
  BY DEF Init, NoCatalog
<1>2. TypeOK
  <2>1. now \in FirstDay..LastDay
    BY DEF Init
  <2>2. loaded \in BOOLEAN /\ broken \in BOOLEAN
    BY Zenon DEF Init
  <2>3. rest \subseteq Texts /\ tx \subseteq Texts /\ skipped \subseteq Texts
    BY DEF Init
  <2> QED
    BY <1>1, <2>1, <2>2, <2>3 DEF Init, TypeOK
<1> QED
  BY <1>2 DEF Init, NoCatalog, LoadInv, LoadComplete, CatalogWhole, LoadedIsThere

\* The count the check looks at is above one only with a text in the catalog.
LEMMA CountNeedsTexts ==
  ASSUME TypeOK, Count > 1
  PROVE  catalog.texts # {}
<1>1. Cardinality({}) = 0
  BY FS_EmptySet
<1> QED
  BY <1>1 DEF Count

\* Every step keeps the invariant.
LEMMA NextLoad == LoadInv /\ [Next]_vars => LoadInv'
<1> SUFFICES ASSUME LoadInv, [Next]_vars PROVE LoadInv'
  OBVIOUS
<1> USE DEF LoadInv, TypeOK, LoadComplete, CatalogWhole, LoadedIsThere,
            loadVars, writeVars, vars
<1>1. CASE Check
  <2>1. CASE Count > 1 /\ now - FetchedAt < RefreshDays
    BY <1>1, <2>1, CountNeedsTexts DEF Check
  <2>2. CASE ~(Count > 1 /\ now - FetchedAt < RefreshDays)
    BY <1>1, <2>2 DEF Check
  <2> QED
    BY <2>1, <2>2
<1>2. CASE Fetch
  BY <1>2 DEF Fetch
<1>3. CASE Begin
  BY <1>3 DEF Begin
<1>4. CASE BeginFails \/ Prepare
  BY <1>4 DEF BeginFails, Prepare
<1>5. ASSUME NEW t \in Texts, ReadRow(t) PROVE LoadInv'
  <2>1. tx' \union skipped' \union rest' = tx \union skipped \union rest
    BY <1>5 DEF ReadRow
  <2> QED
    BY <1>5, <2>1 DEF ReadRow
<1>6. CASE ReadBroken \/ UNCHANGED vars
  BY <1>6 DEF ReadBroken
<1>7. CASE ReadEOF
  BY <1>7 DEF ReadEOF
<1>8. CASE Commit
  BY <1>8 DEF Commit
<1>9. CASE CommitFails \/ Rollback
  BY <1>9 DEF CommitFails, Rollback
<1>10. CASE BodyBreaks
  BY <1>10 DEF BodyBreaks
<1>13. CASE Wait
  <2>1. waited' \in [Writers -> 0..BusyTimeout]
    BY <1>13 DEF Wait
  <2> QED
    BY <1>13, <2>1 DEF Wait
<1>11. ASSUME NEW x \in Writers, WriterStep(x) PROVE LoadInv'
  <2>1. cache' \in [Writers -> {"idle", "waiting", "busy"}]
    BY <1>11 DEF WriterStep, AskWrite, Write, WriteBusy, LogBusy
  <2>2. waited' \in [Writers -> 0..BusyTimeout]
    BY <1>11 DEF WriterStep, AskWrite, Write, WriteBusy, LogBusy
  <2>3. UNCHANGED <<now, catalog, loaded, pc, rest, tx, skipped, broken, lock>>
    BY <1>11 DEF WriterStep, AskWrite, Write, WriteBusy, LogBusy
  <2> QED
    BY <2>1, <2>2, <2>3
<1>12. CASE Restart
  <2>1. PICK d \in FirstDay..LastDay : now' = d /\ now <= d
    BY <1>12 DEF Restart
  <2>2. /\ catalog.texts \in SUBSET Texts /\ catalog.skipped \in SUBSET Texts
        /\ catalog.at \in 0..d
        /\ catalog = [texts |-> catalog.texts, skipped |-> catalog.skipped, at |-> catalog.at]
    BY <2>1
  <2>3. catalog' \in [texts : SUBSET Texts, skipped : SUBSET Texts, at : 0..d]
    BY <1>12, <2>2 DEF Restart
  <2>4. /\ cache' \in [Writers -> {"idle", "waiting", "busy"}]
        /\ waited' \in [Writers -> 0..BusyTimeout]
    BY <1>12 DEF Restart
  <2> QED
    BY <1>12, <2>1, <2>3, <2>4 DEF Restart
<1> QED
  BY <1>1, <1>2, <1>3, <1>4, <1>5, <1>6, <1>7, <1>8, <1>9, <1>10, <1>11, <1>12, <1>13 DEF Next, Load

-----------------------------------------------------------------------------

\* The inductive invariant holds in every reachable state.
THEOREM LoadInvariant == Spec => []LoadInv
  BY InitLoad, NextLoad, PTL DEF Spec

\* Every variable stays in its type.
THEOREM TypeCorrect == Spec => []TypeOK
<1>1. LoadInv => TypeOK
  BY DEF LoadInv
<1> QED
  BY <1>1, LoadInvariant, PTL

\* Lookup reads no catalog, or all of one but the rows the database itself refused
\* (gutenberg.go:93-152), wherever a load stops.
THEOREM WholeCatalog == Spec => []CatalogWhole
<1>1. LoadInv => CatalogWhole
  BY DEF LoadInv
<1> QED
  BY <1>1, LoadInvariant, PTL

\* The health endpoint's flag is never ahead of the catalog (gutenberg.go:155).
THEOREM FlagIsTrue == Spec => []LoadedIsThere
<1>1. LoadInv => LoadedIsThere
  BY DEF LoadInv
<1> QED
  BY <1>1, LoadInvariant, PTL

\* A later load that fails takes nothing away, and one that is committed only the texts
\* whose INSERT failed.
THEOREM NeverLost == Spec => CatalogKept
<1>1. LoadInv /\ [Next]_vars =>
        [catalog.texts \subseteq catalog'.texts \union catalog'.skipped]_vars
  <2> SUFFICES ASSUME LoadInv, [Next]_vars
               PROVE  catalog.texts \subseteq catalog'.texts \union catalog'.skipped
    OBVIOUS
  <2>1. catalog.texts \subseteq Texts
    BY DEF LoadInv, TypeOK
  <2>2. CASE Commit
    <3>1. catalog'.texts \union catalog'.skipped = tx \union skipped
      BY <2>2 DEF Commit
    <3> QED
      BY <2>1, <2>2, <3>1 DEF Commit, LoadInv, LoadComplete
  <2>3. CASE UNCHANGED catalog
    BY <2>3
  <2> QED
    BY <2>2, <2>3 DEF Next, Load, Check, Fetch, Begin, BeginFails, Prepare, ReadRow, ReadBroken,
       ReadEOF, CommitFails, Rollback, BodyBreaks, Wait, WriterStep, AskWrite, Write, WriteBusy,
       LogBusy, Restart, vars
<1> QED
  BY <1>1, LoadInvariant, PTL DEF Spec, CatalogKept

=============================================================================
