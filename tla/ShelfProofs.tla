---------------------------- MODULE ShelfProofs ----------------------------
(* What Shelf promises for every number of pages, slots and callers: first   *)
(* the goroutines, the channel and the flight, then the books of a result.   *)
(* The functions that put those together recurse over a number; what holds   *)
(* of them for every number follows from the least one it could fail for.    *)
EXTENDS Shelf, FiniteSetTheorems, SequenceTheorems, WellFoundedInduction, TLAPS

\* What was sent is in the channel or was received.
ChannelInv ==
  /\ page \in [MorePages -> {"none", "fetching", "sending", "sent", "failed"}]
  /\ pageCh \union pageMap = Sent

\* The loop has started the pages before next and no other; goroutines run only
\* while the flight starts or collects pages, so that none outlives its flight.
LoopInv ==
  /\ next \in Nat /\ next >= 2
  /\ \A p \in MorePages : page[p] = "none" <=> p >= next
  /\ fpc \notin {"spawn", "collect"} => Running = {} /\ pageCh = {}
  /\ fpc = "spawn" => pageMap = {}
  /\ fpc \in {"none", "page1"} => next = 2

\* There is a flight exactly while it has a leader, and whoever waits is in one.
FlightInv ==
  /\ at \in [Callers -> {"idle", "missed", "flight", "books", "error"}]
  /\ leader \in Callers \union {None}
  /\ fpc \in {"none", "page1", "spawn", "collect", "assemble", "store", "fetched", "failed"}
  /\ fpc = "none" <=> leader = None
  /\ leader # None => at[leader] = "flight"
  /\ \A c \in Callers : at[c] = "flight" => leader # None

ShelfInv == ChannelInv /\ LoopInv /\ FlightInv

-----------------------------------------------------------------------------

LEMMA InitInv == Init => ShelfInv
  BY ShelfAssumption
     DEF Init, ShelfInv, ChannelInv, LoopInv, FlightInv, Sent, Running, MorePages

\* The callers and the feed: no page changes its state.
LEMMA CallStep ==
  ASSUME ShelfInv,
         \/ Add \/ Expire
         \/ \E c \in Callers : Hit(c) \/ Miss(c) \/ Call(c)
  PROVE  ShelfInv'
<1> USE ShelfAssumption DEF ShelfInv
<1>1. UNCHANGED pageVars
  BY DEF Add, Expire, Hit, Miss, Call, Lead, Join, flightVars
<1>2. ChannelInv'
  BY <1>1 DEF ChannelInv, Sent, pageVars
<1>3. FlightInv'
  BY DEF FlightInv, Add, Expire, Hit, Miss, Call, Lead, Join, flightVars, Outside
<1>4. fpc' = fpc \/ (fpc = "none" /\ fpc' = "page1")
  BY DEF FlightInv, Add, Expire, Hit, Miss, Call, Lead, Join, flightVars
<1>5. LoopInv'
  BY <1>1, <1>4 DEF LoopInv, Running, pageVars
<1> QED
  BY <1>2, <1>3, <1>5

\* The goroutine of a page fetches, fails or sends; it is its own state only.
LEMMA PageStep ==
  ASSUME ShelfInv, NEW p \in MorePages, Page(p)
  PROVE  ShelfInv'
<1> USE DEF ShelfInv
<1>1. fpc \in {"spawn", "collect"}
  BY DEF LoopInv, Running, Page, FetchPage, FetchPageFails, SendPage
<1>2. ChannelInv'
  BY DEF ChannelInv, Sent, Page, FetchPage, FetchPageFails, SendPage
<1>3. LoopInv'
  BY <1>1 DEF ChannelInv, LoopInv, Page, FetchPage, FetchPageFails, SendPage
<1>4. FlightInv'
  BY DEF FlightInv, Page, FetchPage, FetchPageFails, SendPage
<1> QED
  BY <1>2, <1>3, <1>4

\* The leader's own steps; the loop and the collection are the delicate ones.
LEMMA FlightStep ==
  ASSUME ShelfInv, Flight
  PROVE  ShelfInv'
<1> USE ShelfAssumption DEF ShelfInv
<1>1. CASE FirstPage \/ FirstPageFails \/ SpawnOver \/ CollectOver \/ Assemble \/ Store
  <2>1. UNCHANGED <<page, next, pageCh, pageMap, leader, at>>
    BY <1>1 DEF FirstPage, FirstPageFails, SpawnOver, CollectOver, Assemble, Store, pageVars
  <2>2. ChannelInv'
    BY <2>1 DEF ChannelInv, Sent
  <2>3. FlightInv'
    BY <1>1, <2>1
       DEF FlightInv, FirstPage, FirstPageFails, SpawnOver, CollectOver, Assemble, Store
  <2>4. fpc = "page1" => pageMap = {}
    BY DEF ChannelInv, LoopInv, Sent, MorePages
  <2>5. LoopInv'
    BY <1>1, <2>1, <2>4
       DEF LoopInv, Running, FirstPage, FirstPageFails, SpawnOver, CollectOver, Assemble, Store
  <2> QED
    BY <2>2, <2>3, <2>5
<1>2. CASE SpawnPage
  <2>1. next \in MorePages /\ page[next] = "none"
    BY <1>2 DEF SpawnPage, LoopInv, MorePages
  <2>2. ChannelInv'
    BY <1>2, <2>1 DEF SpawnPage, ChannelInv, Sent
  <2>3. \A p \in MorePages : page'[p] = "none" <=> p >= next'
    BY <1>2, <2>1 DEF SpawnPage, ChannelInv, LoopInv, MorePages
  <2>4. LoopInv'
    BY <1>2, <2>3 DEF SpawnPage, LoopInv
  <2>5. FlightInv'
    BY <1>2 DEF SpawnPage, FlightInv
  <2> QED
    BY <2>2, <2>4, <2>5
<1>3. CASE \E p \in MorePages : ReceivePage(p)
  BY <1>3 DEF ReceivePage, ChannelInv, LoopInv, FlightInv, Sent, Running
<1>4. CASE Land
  <2>1. ChannelInv'
    BY <1>4 DEF Land, ChannelInv, Sent
  <2>2. LoopInv'
    BY <1>4 DEF Land, LoopInv, Running, MorePages
  <2>3. FlightInv'
    BY <1>4 DEF Land, FlightInv, InFlight
  <2> QED
    BY <2>1, <2>2, <2>3
<1> QED
  BY <1>1, <1>2, <1>3, <1>4 DEF Flight

\* The inductive invariant of the flight.
THEOREM FlightInvariant == Spec => []ShelfInv
<1>1. ShelfInv /\ [Next]_vars => ShelfInv'
  <2> SUFFICES ASSUME ShelfInv, [Next]_vars PROVE ShelfInv'
    OBVIOUS
  <2>1. CASE UNCHANGED vars
    BY <2>1 DEF ShelfInv, ChannelInv, LoopInv, FlightInv, Sent, Running, vars, flightVars, pageVars
  <2>2. CASE Next
    BY <2>2, CallStep, PageStep, FlightStep DEF Next
  <2> QED
    BY <2>1, <2>2
<1> QED
  BY InitInv, <1>1, PTL DEF Spec

\* Typing for every number of callers, pages and books: the loop stops behind the last
\* page, and no page is read of a shelf longer than it is.
THEOREM TypeCorrect == Spec => []TypeOK
<1> DEFINE DataInv == /\ added \in 0..MaxBooks
                      /\ read \in [1..MaxPage -> 0..MaxBooks]
                      /\ next \in 2..MaxPage + 1
<1>1. Init => DataInv
  BY ShelfAssumption DEF Init
<1>2. DataInv /\ [Next]_vars => DataInv'
  <2> SUFFICES ASSUME DataInv, [Next]_vars PROVE DataInv'
    OBVIOUS
  <2>1. CASE UNCHANGED <<added, read, next>>
    BY <2>1
  <2>2. CASE Add
    BY <2>2, ShelfAssumption DEF Add, flightVars, pageVars
  <2>3. CASE FirstPage
    BY <2>3, ShelfAssumption DEF FirstPage
  <2>4. CASE SpawnPage
    BY <2>4, ShelfAssumption DEF SpawnPage
  <2>5. CASE \E p \in MorePages : FetchPage(p)
    BY <2>5 DEF FetchPage
  <2>6. CASE Land
    BY <2>6, ShelfAssumption DEF Land
  <2> QED
    BY <2>1, <2>2, <2>3, <2>4, <2>5, <2>6
       DEF Next, vars, flightVars, pageVars, Expire, Hit, Miss, Call, Lead, Join, Flight,
           FirstPageFails, SpawnOver, ReceivePage, CollectOver, Assemble, Store, Page,
           FetchPageFails, SendPage
<1>3. ShelfInv /\ DataInv => TypeOK
  BY DEF ShelfInv, ChannelInv, FlightInv, TypeOK
<1>4. Spec => []DataInv
  BY <1>1, <1>2, PTL DEF Spec
<1> QED
  BY FlightInvariant, <1>3, <1>4, PTL

\* The buffer has room for every page that can be fetched, so a goroutine never
\* waits to send while the loop waits for its slot (goodreads.go:164-181).
THEOREM SendersNeverBlock == Spec => []NoSenderBlocks
<1>1. ASSUME ShelfInv, NEW p \in Running
      PROVE  Cardinality(pageCh) < Capacity
  <2>1. pageCh \subseteq MorePages \ {p}
    BY <1>1 DEF ShelfInv, ChannelInv, Sent, Running
  <2>2. IsFiniteSet(MorePages) /\ Cardinality(MorePages) <= MaxPage
    <3>1. 2 \in Int /\ MaxPage \in Int
      BY ShelfAssumption
    <3>2. IsFiniteSet(MorePages)
      BY <3>1, FS_Interval DEF MorePages
    <3>3. Cardinality(MorePages) = IF 2 > MaxPage THEN 0 ELSE MaxPage - 2 + 1
      BY <3>1, FS_Interval DEF MorePages
    <3> QED
      BY <3>2, <3>3, ShelfAssumption
  <2>3. p \in MorePages
    BY DEF Running
  <2>4. IsFiniteSet(MorePages \ {p}) /\ Cardinality(MorePages \ {p}) = Cardinality(MorePages) - 1
    BY <2>2, <2>3, FS_RemoveElement
  <2>5. IsFiniteSet(pageCh) /\ Cardinality(pageCh) <= Cardinality(MorePages \ {p})
    BY <2>1, <2>4, FS_Subset
  <2>6. Cardinality(pageCh) \in Nat /\ Cardinality(MorePages) \in Nat
    BY <2>2, <2>5, FS_CardinalityType
  <2> QED
    BY <2>2, <2>4, <2>5, <2>6, ShelfAssumption DEF Capacity
<1>2. ShelfInv => NoSenderBlocks
  BY <1>1 DEF NoSenderBlocks
<1> QED
  BY FlightInvariant, <1>2, PTL

\* Nothing that was fetched is missing when the pages are put together, and no
\* goroutine runs on after its flight (goodreads.go:183-192).
THEOREM EveryPageCollected == Spec => []AllCollected
<1>1. ShelfInv => AllCollected
  BY DEF ShelfInv, ChannelInv, LoopInv, AllCollected
<1> QED
  BY FlightInvariant, <1>1, PTL

-----------------------------------------------------------------------------
(* Recursion over the pages and the books *)

\* A set of numbers has a least one.
LEMMA LeastNumber ==
  ASSUME NEW S \in SUBSET Nat, S # {}
  PROVE  \E m \in S : \A k \in S : m <= k
<1> DEFINE R == OpToRel(<,Nat)
<1>1. IsWellFoundedOn(R, Nat)
  BY NatLessThanWellFounded
<1>3. \A x, y \in Nat : y < x => <<y, x>> \in R
  BY DEF OpToRel
<1> HIDE DEF R
<1>2. PICK x \in S : \A y \in S : ~ (<<y, x>> \in R)
  BY <1>1, WFMin
<1>4. \A y \in S : ~(y < x)
  BY <1>2, <1>3
<1> QED
  BY <1>4

\* Induction over the numbers of a set.
LEMMA SetInduction ==
  ASSUME NEW S, 0 \in S, \A k \in Nat : k \in S => k + 1 \in S
  PROVE  Nat \subseteq S
<1> SUFFICES ASSUME Nat \ S # {} PROVE FALSE
  OBVIOUS
<1>1. PICK m \in Nat \ S : \A k \in Nat \ S : m <= k
  BY LeastNumber
<1> QED
  BY <1>1

\* A function of 0..n can be defined by its first value and its steps.
StepsOf(n, V) == [1..n -> [V -> V]]
IsRecursion(f, n, V, base, step) ==
  f \in [0..n -> V] /\ f[0] = base /\ \A i \in 1..n : f[i] = step[i][f[i - 1]]

LEMMA RecursionExists ==
  ASSUME NEW n \in Nat, NEW V, NEW base \in V, NEW step \in StepsOf(n, V)
  PROVE  \E f : IsRecursion(f, n, V, base, step)
<1> USE DEF StepsOf
<1> DEFINE Steps(f, m) == f[0] = base /\ \A i \in 1..m : f[i] = step[i][f[i - 1]]
           Defined(m) == m <= n => \E f \in [0..m -> V] : Steps(f, m)
           N == {m \in Nat : Defined(m)}
<1>1. 0 \in N
  <2> DEFINE f == [i \in 0..0 |-> base]
  <2>1. f \in [0..0 -> V] /\ Steps(f, 0)
    OBVIOUS
  <2>2. Defined(0)
    BY <2>1
  <2> HIDE DEF Defined
  <2> QED
    BY <2>2
<1>2. ASSUME NEW m \in Nat, m \in N PROVE m + 1 \in N
  <2>1. ASSUME m + 1 <= n PROVE \E f \in [0..m + 1 -> V] : Steps(f, m + 1)
    <3>1. PICK f \in [0..m -> V] : Steps(f, m)
      BY <1>2, <2>1
    <3> DEFINE h == [i \in 0..m + 1 |-> IF i = m + 1 THEN step[m + 1][f[m]] ELSE f[i]]
    <3>2. step[m + 1] \in [V -> V] /\ f[m] \in V
      BY <2>1
    <3>3. h \in [0..m + 1 -> V]
      BY <3>2
    <3>4. h[0] = base /\ h[m + 1] = step[m + 1][h[m]]
      BY <3>1
    <3>5. \A i \in 1..m : h[i] = step[i][h[i - 1]]
      BY <3>1
    <3> HIDE DEF h
    <3>6. Steps(h, m + 1)
      <4>1. \A i \in 1..m + 1 : i \in 1..m \/ i = m + 1
        OBVIOUS
      <4>2. m + 1 - 1 = m
        OBVIOUS
      <4> QED
        BY <3>4, <3>5, <4>1, <4>2
    <3> QED
      BY <3>3, <3>6
  <2>2. Defined(m + 1)
    BY <2>1
  <2> HIDE DEF Defined
  <2> QED
    BY <2>2
<1>3. Nat \subseteq N
  <2> HIDE DEF N
  <2> QED
    BY <1>1, <1>2, SetInduction
<1>4. PICK f \in [0..n -> V] : Steps(f, n)
  BY <1>3
<1> QED
  BY <1>4 DEF IsRecursion

\* What is kept of the books, from the first to the last.
Keeps(kept, X, books) ==
  /\ kept \in [0..Len(books) -> Seq(X)]
  /\ kept[0] = <<>>
  /\ \A i \in 1..Len(books) :
       kept[i] = IF \E j \in 1..i - 1 : books[j] = books[i]
                 THEN kept[i - 1] ELSE Append(kept[i - 1], books[i])

LEMMA DedupedIs ==
  ASSUME NEW X, NEW books \in Seq(X)
  PROVE  \E kept : Keeps(kept, X, books) /\ Deduped(books) = kept[Len(books)]
<1>1. PICK n : n = Len(books)
  OBVIOUS
<1>2. PICK V : V = Seq(X)
  OBVIOUS
<1>3. PICK empty : empty = <<>>
  OBVIOUS
<1>4. n \in Nat /\ empty \in V /\ \A i \in 1..n : books[i] \in X
  BY <1>1, <1>2, <1>3
<1>5. \A s \in V, i \in 1..n : Append(s, books[i]) \in V
  BY <1>2, <1>4
<1>6. PICK step : step = [i \in 1..n |-> [s \in V |->
                    IF \E j \in 1..i - 1 : books[j] = books[i] THEN s ELSE Append(s, books[i])]]
  OBVIOUS
<1>7. step \in [1..n -> [V -> V]]
  BY <1>5, <1>6
<1> DEFINE Is(f) == f = [i \in 0..n |->
                      IF i = 0 THEN <<>>
                      ELSE IF books[i] \in {books[j] : j \in 1..i - 1} THEN f[i - 1]
                      ELSE Append(f[i - 1], books[i])]
<1>8. PICK f \in [0..n -> V] : f[0] = empty /\ \A i \in 1..n : f[i] = step[i][f[i - 1]]
  <2>1. step \in StepsOf(n, V)
    BY <1>7 DEF StepsOf
  <2>2. \E f : IsRecursion(f, n, V, empty, step)
    BY <1>4, <2>1, RecursionExists
  <2> QED
    BY <2>2 DEF IsRecursion
<1>9. Is(f)
  <2>1. \A i \in 1..n : i - 1 \in 0..n /\ f[i - 1] \in V
    BY <1>4, <1>8
  <2>2. \A i \in 1..n : f[i] = IF \E j \in 1..i - 1 : books[j] = books[i] THEN f[i - 1]
                               ELSE Append(f[i - 1], books[i])
    BY <1>6, <1>8, <2>1
  <2>3. \A i \in 0..n : i = 0 \/ i \in 1..n
    BY <1>4
  <2>4. \A i \in 0..n : f[i] = IF i = 0 THEN <<>>
                      ELSE IF books[i] \in {books[j] : j \in 1..i - 1} THEN f[i - 1]
                      ELSE Append(f[i - 1], books[i])
    BY <1>3, <1>8, <2>2, <2>3
  <2>5. f = [i \in 0..n |-> f[i]]
    BY <1>8
  <2> QED
    BY <2>4, <2>5
<1>10. PICK kept : kept = CHOOSE g : Is(g)
  OBVIOUS
<1>11. Is(kept)
  <2> HIDE DEF Is
  <2> QED
    BY <1>9, <1>10
<1>12. kept[0] = empty
  BY <1>3, <1>4, <1>11
<1>13. \A i \in 1..n : kept[i] = IF \E j \in 1..i - 1 : books[j] = books[i] THEN kept[i - 1]
                                 ELSE Append(kept[i - 1], books[i])
  <2>1. \A i \in 1..n : i \in 0..n /\ i # 0
    BY <1>4
  <2>2. \A i \in 0..n : kept[i] = IF i = 0 THEN <<>>
                      ELSE IF books[i] \in {books[j] : j \in 1..i - 1} THEN kept[i - 1]
                      ELSE Append(kept[i - 1], books[i])
    BY <1>11, Zenon
  <2> QED
    BY <2>1, <2>2
<1>14. \A i \in 1..n : kept[i - 1] \in V => kept[i] \in V
  BY <1>5, <1>13
<1>15. \A i \in 0..n : kept[i] \in V
  <2> DEFINE N == {i \in Nat : i <= n => kept[i] \in V}
  <2>1. 0 \in N
    BY <1>4, <1>12
  <2>2. ASSUME NEW i \in Nat, i \in N PROVE i + 1 \in N
    <3>1. i + 1 <= n => i + 1 \in 1..n /\ i + 1 - 1 = i /\ kept[i] \in V
      BY <1>4, <2>2
    <3>2. i + 1 <= n => kept[i + 1] \in V
      BY <1>14, <3>1
    <3> QED
      BY <3>2
  <2>3. Nat \subseteq N
    <3> HIDE DEF N
    <3> QED
      BY <2>1, <2>2, SetInduction
  <2> QED
    BY <1>4, <2>3
<1>16. kept \in [0..n -> V]
  BY <1>11, <1>15
<1>17. Deduped(books) = kept[n]
  BY <1>1, <1>10 DEF Deduped
<1> HIDE DEF Is
<1>18. Keeps(kept, X, books)
  BY <1>1, <1>2, <1>3, <1>12, <1>13, <1>16 DEF Keeps
<1> QED
  BY <1>1, <1>17, <1>18

\* What is kept of a list has no repeats, whatever the list.
LEMMA DedupedOnce ==
  ASSUME NEW X, NEW books \in Seq(X)
  PROVE  Deduped(books) \in Seq(X) /\ IsInjective(Deduped(books))
<1>1. PICK n : n = Len(books) /\ n \in Nat
  OBVIOUS
<1>0. PICK kept : Keeps(kept, X, books) /\ Deduped(books) = kept[Len(books)]
  BY DedupedIs
<1>2. /\ Deduped(books) = kept[n]
      /\ \A i \in 0..n : kept[i] \in Seq(X)
      /\ kept[0] = <<>>
      /\ \A i \in 1..n : kept[i] = IF \E j \in 1..i - 1 : books[j] = books[i]
                                   THEN kept[i - 1] ELSE Append(kept[i - 1], books[i])
  BY <1>0, <1>1 DEF Keeps
<1> DEFINE Once(s, i) == /\ \A a, b \in 1..Len(s) : s[a] = s[b] => a = b
                         /\ \A a \in 1..Len(s) : \E j \in 1..i : books[j] = s[a]
           N == {i \in Nat : i <= n => Once(kept[i], i)}
<1>3. ASSUME NEW s \in Seq(X), NEW i \in Nat, i + 1 <= n, Once(s, i)
      PROVE  IF \E j \in 1..i : books[j] = books[i + 1] THEN Once(s, i + 1)
             ELSE Once(Append(s, books[i + 1]), i + 1)
  <2>1. CASE \E j \in 1..i : books[j] = books[i + 1]
    BY <1>3, <2>1
  <2>2. CASE ~\E j \in 1..i : books[j] = books[i + 1]
    <3>1. PICK t : t = Append(s, books[i + 1])
      OBVIOUS
    <3>2. Len(t) = Len(s) + 1 /\ t[Len(s) + 1] = books[i + 1] /\ \A a \in 1..Len(s) : t[a] = s[a]
      BY <1>1, <1>3, <3>1
    <3>3. Len(s) \in Nat /\ \A a \in 1..Len(s) + 1 : a \in 1..Len(s) \/ a = Len(s) + 1
      OBVIOUS
    <3>4. Once(t, i + 1)
      <4>1. ASSUME NEW a \in 1..Len(t) PROVE \E j \in 1..i + 1 : books[j] = t[a]
        BY <1>3, <3>2, <3>3
      <4>2. \A a \in 1..Len(s) : t[a] # books[i + 1]
        BY <1>3, <2>2, <3>2
      <4>3. \A a, b \in 1..Len(t) : t[a] = t[b] => a = b
        BY <1>3, <3>2, <3>3, <4>2
      <4> QED
        BY <4>1, <4>3
    <3> QED
      BY <2>2, <3>1, <3>4
  <2> QED
    BY <2>1, <2>2
<1>4. 0 \in N
  BY <1>2
<1>5. ASSUME NEW i \in Nat, i \in N PROVE i + 1 \in N
  <2>1. ASSUME i + 1 <= n PROVE Once(kept[i + 1], i + 1)
    <3>1. i + 1 \in 1..n /\ i + 1 - 1 = i /\ kept[i] \in Seq(X) /\ Once(kept[i], i)
      BY <1>1, <1>2, <1>5, <2>1
    <3>2. kept[i + 1] = IF \E j \in 1..i : books[j] = books[i + 1]
                        THEN kept[i] ELSE Append(kept[i], books[i + 1])
      BY <1>2, <3>1
    <3> HIDE DEF Once
    <3> QED
      BY <1>3, <2>1, <3>1, <3>2
  <2> QED
    BY <2>1
<1>6. Nat \subseteq N
  <2> HIDE DEF N
  <2> QED
    BY <1>4, <1>5, SetInduction
<1>7. kept[n] \in Seq(X) /\ Once(kept[n], n)
  <2> HIDE DEF Once
  <2> QED
    BY <1>1, <1>2, <1>6
<1> QED
  BY <1>2, <1>7 DEF IsInjective

\* A list without repeats is kept as it is.
LEMMA DedupedSame ==
  ASSUME NEW X, NEW books \in Seq(X), IsInjective(books)
  PROVE  Deduped(books) = books
<1>1. PICK n : n = Len(books) /\ n \in Nat
  OBVIOUS
<1>0. PICK kept : Keeps(kept, X, books) /\ Deduped(books) = kept[Len(books)]
  BY DedupedIs
<1>2. /\ Deduped(books) = kept[n]
      /\ \A i \in 0..n : kept[i] \in Seq(X)
      /\ kept[0] = <<>>
      /\ \A i \in 1..n : kept[i] = IF \E j \in 1..i - 1 : books[j] = books[i]
                                   THEN kept[i - 1] ELSE Append(kept[i - 1], books[i])
  BY <1>0, <1>1 DEF Keeps
<1>3. \A i \in 1..n : kept[i] = Append(kept[i - 1], books[i])
  <2>1. \A i \in 1..n : \A j \in 1..i - 1 : books[j] # books[i]
    BY <1>1 DEF IsInjective
  <2> QED
    BY <1>2, <2>1
<1> DEFINE N == {i \in Nat : i <= n => Len(kept[i]) = i /\ \A a \in 1..i : kept[i][a] = books[a]}
<1>4. 0 \in N
  BY <1>2
<1>5. ASSUME NEW i \in Nat, i \in N PROVE i + 1 \in N
  <2>1. ASSUME i + 1 <= n
        PROVE  Len(kept[i + 1]) = i + 1 /\ \A a \in 1..i + 1 : kept[i + 1][a] = books[a]
    <3>1. PICK s \in Seq(X) : s = kept[i]
      BY <1>1, <1>2, <2>1
    <3>2. i + 1 \in 1..n /\ i + 1 - 1 = i /\ Len(s) = i /\ \A a \in 1..i : s[a] = books[a]
      BY <1>1, <1>5, <2>1, <3>1
    <3>3. kept[i + 1] = Append(s, books[i + 1])
      BY <1>3, <3>1, <3>2
    <3> QED
      BY <3>2, <3>3
  <2> QED
    BY <2>1
<1>6. Nat \subseteq N
  <2> HIDE DEF N
  <2> QED
    BY <1>4, <1>5, SetInduction
<1>7. PICK s \in Seq(X) : s = kept[n]
  BY <1>1, <1>2
<1>8. Len(s) = Len(books) /\ \A a \in 1..Len(books) : s[a] = books[a]
  BY <1>1, <1>6, <1>7
<1> QED
  BY <1>2, <1>7, <1>8

\* A page is a list of books, no longer than a page.
LEMMA ItemsAre ==
  ASSUME NEW p \in 1..MaxPage, NEW k \in 0..MaxBooks
  PROVE  /\ PageLen(p, k) \in 0..PageSize
         /\ Items(p, k) \in BookSeqs
         /\ Len(Items(p, k)) = PageLen(p, k)
         /\ \A i \in 1..PageLen(p, k) : Items(p, k)[i] = k - (p - 1) * PageSize - i + 1
<1>1. PICK before : before = (p - 1) * PageSize /\ before \in Nat
  <2>1. \A a, b \in Nat : a * b \in Nat
    OBVIOUS
  <2>2. p - 1 \in Nat /\ PageSize \in Nat
    BY ShelfAssumption
  <2> QED
    BY <2>1, <2>2
<1>2. PICK m : m = PageLen(p, k)
  OBVIOUS
<1>3. m \in 0..PageSize /\ \A i \in 1..m : k - before - i + 1 \in 1..MaxBooks
  BY <1>1, <1>2, ShelfAssumption DEF PageLen, Least, Greatest
<1>4. PICK s : s = [i \in 1..m |-> k - before - i + 1]
  OBVIOUS
<1>5. s = Items(p, k)
  BY <1>1, <1>2, <1>4 DEF Items
<1>6. s \in Seq(1..MaxBooks) /\ Len(s) = m /\ \A i \in 1..m : s[i] = k - before - i + 1
  BY <1>3, <1>4
<1> QED
  BY <1>1, <1>2, <1>3, <1>5, <1>6 DEF BookSeqs

\* The list up to each page.
Lists(upto) ==
  /\ upto \in [0..MaxPage -> BookSeqs]
  /\ upto[0] = <<>>
  /\ \A p \in 1..MaxPage :
       upto[p] = IF p \in Used THEN upto[p - 1] \o Items(p, read[p]) ELSE upto[p - 1]

LEMMA ListedIs ==
  ASSUME read \in [1..MaxPage -> 0..MaxBooks]
  PROVE  \E upto : Lists(upto) /\ Listed = upto[MaxPage]
<1>1. PICK V : V = BookSeqs
  OBVIOUS
<1>2. PICK empty : empty = <<>>
  OBVIOUS
<1>3. PICK item : item = [p \in 1..MaxPage |-> Items(p, read[p])]
  OBVIOUS
<1>4. MaxPage \in Nat /\ empty \in V /\ \A p \in 1..MaxPage : item[p] \in V
  BY <1>1, <1>2, <1>3, ItemsAre, ShelfAssumption DEF BookSeqs
<1>5. \A s, t \in V : s \o t \in V
  BY <1>1 DEF BookSeqs
<1>6. PICK step : step = [p \in 1..MaxPage |-> [s \in V |->
                    IF p \in Used THEN s \o item[p] ELSE s]]
  OBVIOUS
<1>7. step \in StepsOf(MaxPage, V)
  BY <1>4, <1>5, <1>6 DEF StepsOf
<1>8. PICK f : IsRecursion(f, MaxPage, V, empty, step)
  BY <1>4, <1>7, RecursionExists
<1> DEFINE Is(g) == g = [p \in 0..MaxPage |->
                      IF p = 0 THEN <<>>
                      ELSE IF p \in Used THEN g[p - 1] \o Items(p, read[p]) ELSE g[p - 1]]
<1>9. Is(f)
  <2>1. \A p \in 1..MaxPage : p - 1 \in 0..MaxPage /\ f[p - 1] \in V
    BY <1>4, <1>8 DEF IsRecursion
  <2>2. \A p \in 1..MaxPage : f[p] = IF p \in Used THEN f[p - 1] \o Items(p, read[p])
                                     ELSE f[p - 1]
    BY <1>3, <1>6, <1>8, <2>1 DEF IsRecursion
  <2>3. \A p \in 0..MaxPage : p = 0 \/ p \in 1..MaxPage
    BY <1>4
  <2>4. \A p \in 0..MaxPage : f[p] =
                      IF p = 0 THEN <<>>
                      ELSE IF p \in Used THEN f[p - 1] \o Items(p, read[p]) ELSE f[p - 1]
    BY <1>2, <1>8, <2>2, <2>3 DEF IsRecursion
  <2>5. f = [p \in 0..MaxPage |-> f[p]]
    BY <1>8 DEF IsRecursion
  <2> QED
    BY <2>4, <2>5
<1>10. PICK upto : upto = CHOOSE g : Is(g)
  OBVIOUS
<1>11. Is(upto)
  <2> HIDE DEF Is
  <2> QED
    BY <1>9, <1>10
<1>12. upto[0] = empty
  BY <1>2, <1>4, <1>11
<1>13. \A p \in 1..MaxPage : upto[p] = IF p \in Used THEN upto[p - 1] \o Items(p, read[p])
                                       ELSE upto[p - 1]
  <2>1. \A p \in 1..MaxPage : p \in 0..MaxPage /\ p # 0
    BY <1>4
  <2>2. \A p \in 0..MaxPage : upto[p] =
                      IF p = 0 THEN <<>>
                      ELSE IF p \in Used THEN upto[p - 1] \o Items(p, read[p]) ELSE upto[p - 1]
    BY <1>11, Zenon
  <2> QED
    BY <2>1, <2>2
<1>14. \A p \in 1..MaxPage : upto[p - 1] \in V => upto[p] \in V
  BY <1>3, <1>4, <1>5, <1>13
<1>15. \A p \in 0..MaxPage : upto[p] \in V
  <2> DEFINE N == {p \in Nat : p <= MaxPage => upto[p] \in V}
  <2>1. 0 \in N
    BY <1>4, <1>12
  <2>2. ASSUME NEW p \in Nat, p \in N PROVE p + 1 \in N
    <3>1. p + 1 <= MaxPage => p + 1 \in 1..MaxPage /\ p + 1 - 1 = p /\ upto[p] \in V
      BY <1>4, <2>2
    <3>2. p + 1 <= MaxPage => upto[p + 1] \in V
      BY <1>14, <3>1
    <3> QED
      BY <3>2
  <2>3. Nat \subseteq N
    <3> HIDE DEF N
    <3> QED
      BY <2>1, <2>2, SetInduction
  <2> QED
    BY <1>4, <2>3
<1>16. upto \in [0..MaxPage -> V]
  BY <1>11, <1>15
<1>17. Listed = upto[MaxPage]
  BY <1>10 DEF Listed
<1> HIDE DEF Is
<1>18. Lists(upto)
  BY <1>1, <1>2, <1>12, <1>13, <1>16 DEF Lists
<1> QED
  BY <1>17, <1>18

\* When the used pages were read of one shelf of k books, are among the first d, and are
\* all of those that hold a book, the list is the beginning of the shelf, d pages long.
LEMMA ListedIsBeginning ==
  ASSUME NEW k \in 0..MaxBooks, NEW d \in 1..MaxPage, NEW upto, Lists(upto),
         \A p \in Used : read[p] = k /\ p <= d,
         \A p \in 1..d : (p - 1) * PageSize < k => p \in Used
  PROVE  upto[MaxPage] = [i \in 1..Least(k, d * PageSize) |-> k + 1 - i]
<1>1. PICK b : b = [p \in 0..MaxPage |-> p * PageSize]
  OBVIOUS
<1>2. MaxPage \in Nat /\ PageSize \in Nat /\ k \in Nat /\ d \in Nat /\ d <= MaxPage /\ d >= 1
  BY ShelfAssumption
<1>3. /\ b[0] = 0
      /\ \A p \in 1..MaxPage : b[p] = b[p - 1] + PageSize /\ b[p - 1] = (p - 1) * PageSize
      /\ \A p \in 0..MaxPage : b[p] \in Nat
  <2>1. 0 * PageSize = 0 /\ 0 \in 0..MaxPage
    BY <1>2
  <2>2. ASSUME NEW p \in 1..MaxPage
        PROVE  p * PageSize = (p - 1) * PageSize + PageSize /\ p - 1 \in 0..MaxPage /\ p \in 0..MaxPage
    <3>1. p * PageSize = (p - 1) * PageSize + PageSize
      BY <1>2
    <3> QED
      BY <1>2, <3>1
  <2>3. \A m, n \in Nat : m * n \in Nat
    OBVIOUS
  <2> QED
    BY <1>1, <1>2, <2>1, <2>2, <2>3
<1> DEFINE len(p) == Least(k, b[Least(p, d)])
           Is(s, m) == s \in BookSeqs /\ Len(s) = m /\ \A i \in 1..m : s[i] = k + 1 - i
           N == {p \in Nat : p <= MaxPage => Is(upto[p], len(p))}
<1>4. 0 \in N
  BY <1>2, <1>3 DEF Lists, Least
<1>5. ASSUME NEW q \in Nat, q \in N PROVE q + 1 \in N
  <2>1. SUFFICES ASSUME q + 1 <= MaxPage PROVE Is(upto[q + 1], len(q + 1))
    OBVIOUS
  <2>2. PICK p \in 1..MaxPage : p = q + 1 /\ p - 1 = q
    BY <1>2, <2>1
  <2>3. PICK s : s = upto[p - 1] /\ Is(s, len(p - 1))
    BY <1>2, <1>5, <2>1, <2>2
  <2>4. upto[p] = IF p \in Used THEN s \o Items(p, read[p]) ELSE s
    BY <2>3 DEF Lists
  <2>5. CASE p > d
    <3>1. len(p) = len(p - 1)
      BY <1>2, <2>5 DEF Least
    <3>2. upto[p] = s
      BY <1>2, <2>4, <2>5
    <3> HIDE DEF Is, len
    <3> QED
      BY <2>2, <2>3, <3>1, <3>2
  <2>6. CASE p <= d
    <3>1. PICK before \in Nat : before = b[p - 1] /\ b[p] = before + PageSize
      BY <1>2, <1>3
    <3>2. len(p - 1) = Least(k, before) /\ len(p) = Least(k, before + PageSize)
      BY <1>2, <2>6, <3>1 DEF Least
    <3>3. CASE before < k
      <4>1. p \in Used /\ read[p] = k
        BY <1>2, <1>3, <2>6, <3>1, <3>3
      <4>2. PICK t : t = Items(p, k)
        OBVIOUS
      <4>3. PICK m : m = PageLen(p, k)
        OBVIOUS
      <4>4. before = (p - 1) * PageSize
        BY <1>3, <3>1
      <4>5. t \in BookSeqs /\ Len(t) = m /\ m \in Nat /\ \A i \in 1..m : t[i] = k - before - i + 1
        BY <1>2, <4>2, <4>3, <4>4, ItemsAre
      <4>6. m = Least(k - before, PageSize)
        BY <1>2, <3>3, <4>3, <4>4 DEF PageLen, Greatest, Least
      <4>7. s \in BookSeqs /\ Len(s) = before /\ \A i \in 1..before : s[i] = k + 1 - i
        BY <1>2, <2>3, <3>2, <3>3 DEF Least
      <4>8. len(p) = before + m
        BY <1>2, <3>2, <4>6 DEF Least
      <4>9. PICK r : r = s \o t
        OBVIOUS
      <4>10. /\ r \in BookSeqs /\ Len(r) = before + m
             /\ \A i \in 1..before + m : r[i] = IF i <= before THEN s[i] ELSE t[i - before]
        <5>1. s \in Seq(1..MaxBooks) /\ t \in Seq(1..MaxBooks)
          BY <4>5, <4>7 DEF BookSeqs
        <5>2. /\ s \o t \in Seq(1..MaxBooks)
              /\ Len(s \o t) = Len(s) + Len(t)
              /\ \A i \in 1..Len(s) + Len(t) :
                   (s \o t)[i] = IF i <= Len(s) THEN s[i] ELSE t[i - Len(s)]
          BY <5>1, ConcatProperties
        <5> QED
          BY <4>5, <4>7, <4>9, <5>2 DEF BookSeqs
      <4>11. \A i \in 1..before + m : r[i] = k + 1 - i
        <5>1. \A i \in 1..before + m : i \in 1..before \/ (i > before /\ i - before \in 1..m)
          BY <4>5
        <5> QED
          BY <1>2, <4>5, <4>7, <4>10, <5>1
      <4>12. upto[p] = r
        BY <2>4, <4>1, <4>2, <4>9
      <4> HIDE DEF len
      <4> QED
        BY <2>2, <4>8, <4>10, <4>11, <4>12
    <3>4. CASE before >= k
      <4>1. len(p) = len(p - 1)
        BY <1>2, <3>2, <3>4 DEF Least
      <4>2. upto[p] = s
        <5>1. CASE p \in Used
          <6>1. read[p] = k /\ before = (p - 1) * PageSize
            BY <1>3, <3>1, <5>1
          <6>2. PageLen(p, k) = 0
            BY <1>2, <3>4, <6>1 DEF PageLen, Greatest, Least
          <6>3. PICK t : t = Items(p, k)
            OBVIOUS
          <6>4. t \in BookSeqs /\ Len(t) = 0
            BY <6>2, <6>3, ItemsAre
          <6>5. PICK e : e = s \o t
            OBVIOUS
          <6>6. s \in Seq(1..MaxBooks) /\ e \in Seq(1..MaxBooks) /\ Len(e) = Len(s)
                /\ \A i \in 1..Len(s) : e[i] = s[i]
            BY <2>3, <6>4, <6>5 DEF BookSeqs
          <6>7. e = s
            BY <6>6
          <6> QED
            BY <2>4, <5>1, <6>1, <6>3, <6>5, <6>7
        <5>2. CASE p \notin Used
          BY <2>4, <5>2
        <5> QED
          BY <5>1, <5>2
      <4> HIDE DEF Is, len
      <4> QED
        BY <2>2, <2>3, <4>1, <4>2
    <3> QED
      BY <1>2, <3>1, <3>3, <3>4
  <2> QED
    BY <1>2, <2>5, <2>6
<1>6. Nat \subseteq N
  <2> HIDE DEF N
  <2> QED
    BY <1>4, <1>5, SetInduction
<1>7. Is(upto[MaxPage], Least(k, d * PageSize))
  <2>1. len(MaxPage) = Least(k, d * PageSize)
    BY <1>1, <1>2 DEF Least
  <2>2. Is(upto[MaxPage], len(MaxPage))
    <3> HIDE DEF Is, len
    <3> QED
      BY <1>2, <1>6
  <2> HIDE DEF len, Is
  <2> QED
    BY <2>1, <2>2
<1>8. PICK s \in Seq(1..MaxBooks) : s = upto[MaxPage]
  BY <1>7 DEF BookSeqs
<1>9. PICK m : m = Least(k, d * PageSize)
  OBVIOUS
<1>10. Len(s) = m /\ \A i \in 1..m : s[i] = k + 1 - i
  BY <1>7, <1>8, <1>9
<1>11. s = [i \in 1..Len(s) |-> s[i]]
  OBVIOUS
<1> QED
  BY <1>8, <1>9, <1>10, <1>11

-----------------------------------------------------------------------------
(* The result *)

\* No book is listed twice, neither in what a flight returns nor in a row, whatever was
\* added between the requests (goodreads.go:207-215).
THEOREM NoBookTwice == Spec => []NoRepeats
<1>1. Init => NoRepeats
  BY DEF Init, NoRepeats, BookSeqs, IsInjective
<1>2. TypeOK /\ NoRepeats /\ [Next]_vars => NoRepeats'
  <2> SUFFICES ASSUME TypeOK, NoRepeats, [Next]_vars PROVE NoRepeats'
    OBVIOUS
  <2>1. CASE UNCHANGED <<row, fetched>>
    BY <2>1 DEF NoRepeats
  <2>2. CASE Expire
    BY <2>2 DEF Expire, NoRepeats, flightVars
  <2>3. CASE Assemble
    <3>1. PICK upto : Lists(upto) /\ Listed = upto[MaxPage]
      BY ListedIs DEF TypeOK
    <3>2. upto[MaxPage] \in Seq(1..MaxBooks)
      BY <3>1, ShelfAssumption DEF Lists, BookSeqs
    <3>3. fetched' = Deduped(upto[MaxPage]) /\ row' = row
      BY <2>3, <3>1 DEF Assemble
    <3>4. fetched' \in Seq(1..MaxBooks) /\ IsInjective(fetched')
      BY <3>2, <3>3, DedupedOnce
    <3> QED
      BY <3>3, <3>4 DEF NoRepeats, BookSeqs
  <2>4. CASE Store
    BY <2>4 DEF Store, NoRepeats, pageVars
  <2>5. CASE Land
    BY <2>5 DEF Land, NoRepeats, BookSeqs, IsInjective
  <2> QED
    BY <2>1, <2>2, <2>3, <2>4, <2>5
       DEF Next, vars, flightVars, pageVars, Add, Hit, Miss, Call, Lead, Join, Flight,
           FirstPage, FirstPageFails, SpawnPage, SpawnOver, ReceivePage, CollectOver,
           Page, FetchPage, FetchPageFails, SendPage
<1> QED
  BY TypeCorrect, <1>1, <1>2, PTL DEF Spec

\* Every page was asked for, or the first was not full and no other was; the result was
\* put together of the pages as they still are.
ResultInv ==
  /\ fpc = "spawn" => PageLen(1, read[1]) = PageSize
  /\ fpc \in {"collect", "assemble", "store", "fetched"} =>
       next = IF PageLen(1, read[1]) = PageSize THEN MaxPage + 1 ELSE 2
  /\ fpc \in {"store", "fetched"} =>
       \E upto : Lists(upto) /\ fetched = Deduped(upto[MaxPage])

LEMMA ResultStep ==
  ASSUME ShelfInv, TypeOK, ResultInv, [Next]_vars
  PROVE  ResultInv'
<1> USE ShelfAssumption
<1>1. CASE UNCHANGED <<read, pageMap, next, fetched, fpc>>
  BY <1>1 DEF ResultInv, Lists, Used
<1>2. CASE \E c \in Callers : Lead(c)
  BY <1>2 DEF Lead, ResultInv
<1>3. CASE FirstPage
  <2>1. next = 2 /\ next' = 2 /\ read'[1] = added
    BY <1>3 DEF FirstPage, ShelfInv, LoopInv, TypeOK
  <2> QED
    BY <1>3, <2>1 DEF FirstPage, ResultInv
<1>4. CASE FirstPageFails \/ Land
  BY <1>4 DEF FirstPageFails, Land, ResultInv
<1>5. CASE SpawnPage
  BY <1>5 DEF SpawnPage, ResultInv
<1>6. CASE SpawnOver
  BY <1>6 DEF SpawnOver, ResultInv, TypeOK, pageVars
<1>7. CASE \E p \in MorePages : FetchPage(p)
  <2>1. fpc \in {"spawn", "collect"}
    BY <1>7 DEF FetchPage, ShelfInv, LoopInv, Running
  <2>2. fpc' = fpc /\ next' = next /\ read'[1] = read[1]
    BY <1>7 DEF FetchPage, TypeOK, MorePages
  <2> QED
    BY <2>1, <2>2 DEF ResultInv
<1>8. CASE \E p \in MorePages : ReceivePage(p)
  BY <1>8 DEF ReceivePage, ResultInv
<1>9. CASE CollectOver
  BY <1>9 DEF CollectOver, ResultInv, pageVars
<1>10. CASE Assemble
  <2>1. PICK upto : Lists(upto) /\ Listed = upto[MaxPage]
    BY ListedIs DEF TypeOK
  <2>2. fetched' = Deduped(upto[MaxPage]) /\ UNCHANGED <<read, pageMap, next>>
    BY <1>10, <2>1 DEF Assemble, pageVars
  <2>3. Lists(upto)'
    BY <2>1, <2>2 DEF Lists, Used
  <2> QED
    BY <1>10, <2>2, <2>3 DEF Assemble, ResultInv
<1>11. CASE Store
  <2>1. UNCHANGED <<read, pageMap, next, fetched>> /\ fpc = "store" /\ fpc' = "fetched"
    BY <1>11 DEF Store, pageVars
  <2>2. \A upto : Lists(upto) => Lists(upto)'
    BY <2>1 DEF Lists, Used
  <2> QED
    BY <2>1, <2>2 DEF ResultInv
<1> QED
  BY <1>1, <1>2, <1>3, <1>4, <1>5, <1>6, <1>7, <1>8, <1>9, <1>10, <1>11
     DEF Next, vars, flightVars, pageVars, Add, Expire, Hit, Miss, Call, Join, Flight, Page,
         FetchPageFails, SendPage

LEMMA ResultIsBeginning ==
  ASSUME ShelfInv, TypeOK, ResultInv
  PROVE  BeginningOfShelf
<1> DEFINE dropped == {p \in MorePages : page[p] = "failed"}
<1> SUFFICES ASSUME fpc \in {"store", "fetched"},
                    NEW k, k = read[1], \A p \in {1} \union Sent : read[p] = k
             PROVE  IF dropped = {} THEN fetched = Newest(k)
                    ELSE \E first \in dropped :
                           fetched = SubSeq(Newest(k), 1, Least(Len(Newest(k)), (first - 1) * PageSize))
  BY DEF BeginningOfShelf
<1>1. k \in 0..MaxBooks /\ MaxPage \in Nat \ {0} /\ PageSize \in Nat \ {0}
  BY ShelfAssumption DEF TypeOK
<1>2. Running = {} /\ pageMap = Sent
  BY DEF ShelfInv, ChannelInv, LoopInv
<1>3. PICK d \in 1..MaxPage : IF dropped = {} THEN d = MaxPage
                              ELSE d + 1 \in dropped /\ \A p \in dropped : d + 1 <= p
  <2>1. CASE dropped = {}
    BY <1>1, <2>1
  <2>2. CASE dropped # {}
    <3>1. dropped \in SUBSET Nat
      BY DEF MorePages
    <3>2. PICK first \in dropped : \A p \in dropped : first <= p
      BY <2>2, <3>1, LeastNumber
    <3>3. first - 1 \in 1..MaxPage /\ first - 1 + 1 = first
      BY <1>1 DEF MorePages
    <3> QED
      BY <2>2, <3>2, <3>3
  <2> QED
    BY <2>1, <2>2
<1>4. \A p \in Used : read[p] = k /\ p <= d
  <2>1. \A p \in Used : p \in {1} \union Sent /\ \A q \in 1..p - 1 : q \in {1} \union Sent
    BY <1>2 DEF Used
  <2>2. ASSUME NEW p \in Used, p > d PROVE FALSE
    <3>1. p \in 1..MaxPage
      BY <1>1, <2>1 DEF Sent, MorePages
    <3>2. d + 1 \in dropped
      BY <1>3, <2>2, <3>1
    <3>3. d + 1 \notin {1} \union Sent
      BY <3>2 DEF Sent, MorePages
    <3>4. d + 1 = p \/ d + 1 \in 1..p - 1
      BY <2>2, <3>1
    <3> QED
      BY <2>1, <3>3, <3>4
  <2>3. \A p \in Used : p \in Int
    BY <2>1 DEF Sent, MorePages
  <2> QED
    BY <2>1, <2>2, <2>3
<1>5. \A p \in 1..d : (p - 1) * PageSize < k => p \in Used
  <2> SUFFICES ASSUME NEW p \in 1..d, (p - 1) * PageSize < k PROVE p \in Used
    OBVIOUS
  <2>1. CASE PageLen(1, k) # PageSize
    <3>1. k < PageSize
      BY <1>1, <2>1 DEF PageLen, Least, Greatest
    <3>2. p = 1
      <4>1. p >= 2 => (p - 1) * PageSize >= PageSize
        BY <1>1
      <4> QED
        BY <1>1, <3>1, <4>1
    <3> QED
      BY <3>2 DEF Used
  <2>2. CASE PageLen(1, k) = PageSize
    <3>1. next = MaxPage + 1
      BY <2>2 DEF ResultInv
    <3>2. \A q \in MorePages : page[q] \in {"sent", "failed"}
      BY <1>1, <1>2, <3>1 DEF ShelfInv, ChannelInv, LoopInv, Running, MorePages
    <3>3. \A q \in 1..d : q \in {1} \union Sent
      <4>1. \A q \in 1..d : q # 1 => q \in MorePages
        BY <1>1 DEF MorePages
      <4>2. \A q \in 1..d : q \notin dropped
        BY <1>3
      <4> QED
        BY <3>2, <4>1, <4>2 DEF Sent
    <3>4. ASSUME NEW q \in 1..p - 1
          PROVE  q \in {1} \union Sent /\ PageLen(q, read[q]) = PageSize
      <4>1. q \in 1..d /\ read[q] = k
        BY <1>1, <3>3
      <4>2. q * PageSize <= (p - 1) * PageSize
        BY <1>1
      <4>3. q * PageSize = (q - 1) * PageSize + PageSize
        BY <1>1
      <4>4. PICK before : before = (q - 1) * PageSize /\ before \in Int
        <5>1. \A a, b \in Int : a * b \in Int
          OBVIOUS
        <5> QED
          BY <1>1, <5>1
      <4>5. k - before >= PageSize
        BY <1>1, <4>2, <4>3, <4>4
      <4>6. PageLen(q, k) = PageSize
        BY <1>1, <4>4, <4>5 DEF PageLen, Least, Greatest
      <4> QED
        BY <3>3, <4>1, <4>6
    <3> QED
      BY <1>2, <3>3, <3>4 DEF Used
  <2> QED
    BY <2>1, <2>2
<1>6. PICK m : m = Least(k, d * PageSize)
  OBVIOUS
<1>7. m \in Nat /\ m <= k
  <2>1. \A a, b \in Nat : a * b \in Nat
    OBVIOUS
  <2>2. d * PageSize \in Nat
    BY <1>1, <2>1
  <2> QED
    BY <1>1, <1>6, <2>2 DEF Least
<1>8. PICK s : s = [i \in 1..m |-> k + 1 - i]
  OBVIOUS
<1>9. s \in Seq(1..MaxBooks) /\ IsInjective(s)
  <2>1. \A i \in 1..m : s[i] = k + 1 - i /\ k + 1 - i \in 1..MaxBooks
    BY <1>1, <1>7, <1>8, ShelfAssumption
  <2> QED
    BY <1>1, <1>7, <1>8, <2>1 DEF IsInjective
<1>10. fetched = s
  <2>1. PICK upto : Lists(upto) /\ fetched = Deduped(upto[MaxPage])
    BY DEF ResultInv
  <2>2. upto[MaxPage] = s
    BY <1>1, <1>4, <1>5, <1>6, <1>8, <2>1, ListedIsBeginning
  <2> QED
    BY <1>9, <2>1, <2>2, DedupedSame
<1>11. CASE dropped = {}
  BY <1>3, <1>6, <1>8, <1>10, <1>11 DEF Newest
<1>12. CASE dropped # {}
  <2>1. PICK first \in dropped : first = d + 1
    BY <1>3, <1>12
  <2>2. (first - 1) * PageSize = d * PageSize
    BY <1>1, <2>1
  <2>3. PICK all : all = Newest(k)
    OBVIOUS
  <2>4. PICK n : n = Least(k, MaxPage * PageSize)
    OBVIOUS
  <2>5. PICK x \in Nat : x = d * PageSize
    <3>1. \A a, b \in Nat : a * b \in Nat
      OBVIOUS
    <3> QED
      BY <1>1, <3>1
  <2>6. PICK y \in Nat : y = MaxPage * PageSize /\ x <= y
    <3>1. \A a, b, c \in Nat : a <= b => a * c <= b * c /\ b * c \in Nat
      OBVIOUS
    <3> QED
      BY <1>1, <2>5, <3>1
  <2>7. n \in Nat /\ m <= n /\ m = Least(n, x)
    BY <1>1, <1>6, <2>4, <2>5, <2>6 DEF Least
  <2>8. all = [i \in 1..n |-> k + 1 - i]
    BY <2>3, <2>4 DEF Newest
  <2>9. Len(all) = n
    BY <2>7, <2>8
  <2>10. s = SubSeq(all, 1, m)
    BY <1>1, <1>7, <1>8, <2>7, <2>8
  <2>11. Least(Len(Newest(k)), (first - 1) * PageSize) = m
    BY <2>2, <2>3, <2>5, <2>7, <2>9
  <2>12. fetched = SubSeq(Newest(k), 1, Least(Len(Newest(k)), (first - 1) * PageSize))
    BY <1>10, <2>3, <2>10, <2>11
  <2> QED
    BY <1>12, <2>12
<1> QED
  BY <1>11, <1>12

\* The result of a fetch is the beginning of the shelf: no book is missing before the first
\* page that failed, and none follows it (goodreads.go:96, 188-205).
THEOREM ResultIsTheBeginning == Spec => []BeginningOfShelf
<1>1. Init => ResultInv
  BY DEF Init, ResultInv
<1>2. ShelfInv /\ TypeOK /\ ResultInv /\ [Next]_vars => ResultInv'
  BY ResultStep
<1>3. ShelfInv /\ TypeOK /\ ResultInv => BeginningOfShelf
  BY ResultIsBeginning
<1> QED
  BY FlightInvariant, TypeCorrect, <1>1, <1>2, <1>3, PTL DEF Spec
=============================================================================
