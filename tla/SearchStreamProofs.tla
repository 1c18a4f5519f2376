------------------------- MODULE SearchStreamProofs -------------------------
(***************************************************************************)
(* Proofs about SearchStream for every shelf length, every set of          *)
(* libraries and every Amazon limit: types, the channels' capacity, that a *)
(* canceled check is never cached, and that what the handler writes is the *)
(* stream StreamProtocol promises the client.                              *)
(***************************************************************************)
EXTENDS SearchStream, FiniteSetTheorems, SequenceTheorems, TLAPS

\* The books whose goroutine has sent its result, and those that have ended.
Senders == {b \in Books : Delivered(b)}
Enders  == {b \in Books : g[b].pc = "end"}

\* The loop variable stays on the shelf.
CursorInv ==
  /\ cursor \in 1..(n + 1)
  /\ pc \in {"params", "fetching"} => n = 0

\* Before the goroutines are started, none has sent anything.
SpawnInv ==
  pc \in {"params", "fetching", "lookup", "scan"} =>
    /\ \A b \in Books : g[b].pc \in {"none", "queued"}
    /\ resultCh = <<>> /\ updateCh = <<>>

\* A channel never holds more values than goroutines have passed its send. (The
\* receiver, which may stop receiving for ever, only makes the channel shorter.)
ChannelInv ==
  /\ Len(resultCh) <= Cardinality(Senders)
  /\ Len(updateCh) <= Cardinality(Enders)

\* Why no canceled check is cached: a slot can only be "gone" once ctx is done, the
\* write is guarded by a descendant of ctx.
SlotInv ==
  \A b \in Books : \A l \in Libraries : g[b].lib[l] = "gone" => gone

StreamInv ==
  /\ TypeOK
  /\ CursorInv
  /\ SpawnInv
  /\ ChannelInv
  /\ SlotInv
  /\ NoCanceledRow

-----------------------------------------------------------------------------

\* The books, and every set of them, are finite.
LEMMA BooksFinite ==
  /\ IsFiniteSet(Books)
  /\ \A S \in SUBSET Books : IsFiniteSet(S) /\ Cardinality(S) \in Nat
<1>1. IsFiniteSet(Books)
  BY SearchAssumption, FS_Interval DEF Books
<1>2. ASSUME NEW S \in SUBSET Books PROVE IsFiniteSet(S) /\ Cardinality(S) \in Nat
  BY <1>1, FS_Subset, FS_CardinalityType
<1> QED
  BY <1>1, <1>2

\* A goroutine that is not yet in S leaves room among the goroutines that were started.
LEMMA RoomInChannel ==
  ASSUME TypeOK, NEW b \in Books, g[b].pc # "none",
         NEW S \in SUBSET ToFetch, b \notin S
  PROVE  Cardinality(S) < Capacity
<1>1. ToFetch \in SUBSET Books /\ b \in ToFetch
  BY DEF ToFetch
<1>2. IsFiniteSet(ToFetch) /\ Cardinality(ToFetch) \in Nat /\ Cardinality(S) \in Nat
  BY <1>1, BooksFinite
<1>3. Cardinality(S) <= Cardinality(ToFetch) /\ (Cardinality(ToFetch) = Cardinality(S) => ToFetch = S)
  BY <1>2, FS_Subset
<1> QED
  BY <1>1, <1>2, <1>3 DEF Capacity

\* A search starts with no goroutine and empty channels.
LEMMA InitStream == Init => StreamInv
<1> SUFFICES ASSUME Init PROVE StreamInv
  OBVIOUS
<1>1. TypeOK
  <2>1. g \in [Books -> Goroutine]
    BY DEF Init, Goroutine, BookPc, Provenance
  <2>2. row \in [Books -> SUBSET Provenance]
    BY DEF Init, Provenance
  <2>3. wire \in Seq(Event) /\ resultCh \in Seq(Books) /\ updateCh \in Seq(Books)
    BY DEF Init
  <2>4. n \in 0..MaxBooks /\ cursor \in 1..(MaxBooks + 1) /\ completed \in Nat
    BY SearchAssumption DEF Init
  <2> QED
    BY <2>1, <2>2, <2>3, <2>4 DEF Init, TypeOK
<1>2. CursorInv /\ SpawnInv
  BY DEF Init, CursorInv, SpawnInv
<1>3. ChannelInv
  BY BooksFinite DEF Init, ChannelInv, Senders, Enders
<1>4. SlotInv
  BY DEF Init, SlotInv, Delivered
<1>5. NoCanceledRow
  BY DEF Init, NoCanceledRow
<1> QED
  BY <1>1, <1>2, <1>3, <1>4, <1>5 DEF StreamInv

-----------------------------------------------------------------------------

\* What the handler writes is an event.
LEMMA SendTyped ==
  ASSUME TypeOK
  PROVE  /\ \A t \in EventTypes : Send(Say(t)) => wire' \in Seq(Event)
         /\ \A b \in Books : Send(Card(b)) \/ Send(Update(b)) => wire' \in Seq(Event)
<1>1. \A t \in EventTypes : Say(t) \in Event
  BY SearchAssumption DEF Say, Event
<1>2. \A b \in Books : Card(b) \in Event /\ Update(b) \in Event
  BY SearchAssumption DEF Card, Update, Event, EventTypes, Books
<1>3. \A e \in Event : Send(e) => wire' \in Seq(Event)
  BY DEF Send, TypeOK
<1> QED
  BY <1>1, <1>2, <1>3

\* The element a receive takes off a channel is a book.
LEMMA ReceiveTyped ==
  ASSUME NEW ch \in Seq(Books), ch # <<>>
  PROVE  /\ Head(ch) \in Books /\ Tail(ch) \in Seq(Books)
         /\ Len(Tail(ch)) = Len(ch) - 1 /\ Len(ch) \in Nat
  OBVIOUS

\* The handler's steps keep every variable in its type.
LEMMA HandlerTyped ==
  ASSUME TypeOK, CursorInv, Handler
  PROVE  TypeOK' /\ CursorInv'
<1> USE DEF TypeOK, CursorInv, bookVars
<1>1. CASE Refuse \/ ShelfFails \/ ShelfEmpty \/ Accept
  <2>1. wire' \in Seq(Event)
    BY <1>1, SendTyped DEF Refuse, ShelfFails, ShelfEmpty, Accept, EventTypes
  <2> QED
    BY <1>1, <2>1 DEF Refuse, ShelfFails, ShelfEmpty, Accept
<1>2. CASE ShelfFetched
  <2>1. wire' \in Seq(Event)
    BY <1>2, SendTyped DEF ShelfFetched, EventTypes
  <2>2. n = 0 /\ cursor = 1 /\ cursor' = 1
    BY <1>2 DEF ShelfFetched
  <2>3. PICK k \in 1..MaxBooks : n' = k
    BY <1>2 DEF ShelfFetched
  <2>4. n' \in 0..MaxBooks /\ cursor' \in 1..(n' + 1)
    BY <2>2, <2>3, SearchAssumption
  <2> QED
    BY <1>2, <2>1, <2>4 DEF ShelfFetched
<1>3. CASE ReadCache
  <2>1. hits' \subseteq Books
    BY <1>3, SearchAssumption DEF ReadCache, Books
  <2> QED
    BY <1>3, <2>1 DEF ReadCache
<1>4. CASE ServeHit
  <2>1. cursor \in Books /\ cursor' \in 1..(n + 1) /\ cursor' \in 1..(MaxBooks + 1)
    BY <1>4, SearchAssumption DEF ServeHit, Books
  <2>2. wire' \in Seq(Event)
    BY <1>4, <2>1, SendTyped DEF ServeHit
  <2> QED
    BY <1>4, <2>1, <2>2 DEF ServeHit
<1>5. CASE QueueMiss
  <2>1. cursor \in Books /\ cursor' \in 1..(n + 1) /\ cursor' \in 1..(MaxBooks + 1)
    BY <1>5, SearchAssumption DEF QueueMiss, Books
  <2>2. g' \in [Books -> Goroutine]
    BY <1>5, <2>1 DEF QueueMiss, Goroutine, BookPc
  <2> QED
    BY <1>5, <2>1, <2>2 DEF QueueMiss
<1>6. CASE Spawn
  <2>1. g' \in [Books -> Goroutine]
    BY <1>6 DEF Spawn, Goroutine, BookPc
  <2> QED
    BY <1>6, <2>1 DEF Spawn
<1>7. CASE ReceiveResult
  <2>1. Head(resultCh) \in Books /\ resultCh' \in Seq(Books)
    BY <1>7, ReceiveTyped DEF ReceiveResult
  <2>2. wire' \in Seq(Event)
    BY <1>7, <2>1, SendTyped DEF ReceiveResult
  <2> QED
    BY <1>7, <2>1, <2>2 DEF ReceiveResult
<1>8. CASE ReceiveUpdate
  <2>1. Head(updateCh) \in Books /\ updateCh' \in Seq(Books)
    BY <1>8, ReceiveTyped DEF ReceiveUpdate
  <2>2. wire' \in Seq(Event)
    BY <1>8, <2>1, SendTyped DEF ReceiveUpdate
  <2> QED
    BY <1>8, <2>1, <2>2 DEF ReceiveUpdate
<1>9. CASE ResultsEnd \/ UpdatesEnd
  <2>1. wire' \in Seq(Event)
    BY <1>9, SendTyped DEF ResultsEnd, UpdatesEnd, EventTypes
  <2> QED
    BY <1>9, <2>1 DEF ResultsEnd, UpdatesEnd
<1> QED
  BY <1>1, <1>2, <1>3, <1>4, <1>5, <1>6, <1>7, <1>8, <1>9 DEF Handler

\* So do the steps of a book's goroutine.
LEMMA BookTyped ==
  ASSUME TypeOK, CursorInv, NEW b \in Books, BookStep(b)
  PROVE  TypeOK' /\ CursorInv'
<1> USE DEF TypeOK, CursorInv, handlerVars
<1>1. CASE \E l \in Libraries : Check(b, l)
  <2>1. PICK l \in Libraries, r \in {"filled", "unfilled", "gone"} :
          g' = [g EXCEPT ![b].lib[l] = r]
    BY <1>1 DEF Check
  <2>2. g' \in [Books -> Goroutine]
    BY <2>1 DEF Goroutine, Provenance
  <2> QED
    BY <1>1, <2>2 DEF Check
<1>2. CASE Deliver(b)
  <2>1. g' \in [Books -> Goroutine]
    BY <1>2 DEF Deliver, Goroutine, BookPc
  <2>2. resultCh' \in Seq(Books)
    BY <1>2 DEF Deliver
  <2> QED
    BY <1>2, <2>1, <2>2 DEF Deliver
<1>3. CASE EnrichBook(b) \/ AcquireAz(b) \/ AbandonAz(b) \/ GetPrices(b)
  <2>1. g' \in [Books -> Goroutine]
    <3>1. \/ g' = [g EXCEPT ![b].pc = "azwait", ![b].adds = TRUE]
          \/ g' = [g EXCEPT ![b].pc = "azwait", ![b].adds = FALSE]
          \/ g' = [g EXCEPT ![b].pc = "pricing"]
          \/ g' = [g EXCEPT ![b].pc = "store", ![b].slow = ~gone]
          \/ g' = [g EXCEPT ![b].pc = "store", ![b].slow = TRUE, ![b].adds = @ \/ TRUE]
          \/ g' = [g EXCEPT ![b].pc = "store", ![b].slow = TRUE, ![b].adds = @ \/ FALSE]
          \/ g' = [g EXCEPT ![b].pc = "store", ![b].slow = FALSE, ![b].adds = @ \/ TRUE]
          \/ g' = [g EXCEPT ![b].pc = "store", ![b].slow = FALSE, ![b].adds = @ \/ FALSE]
      BY <1>3, Zenon DEF EnrichBook, AcquireAz, AbandonAz, GetPrices
    <3> HIDE DEF TypeOK, CursorInv
    <3>3. g \in [Books -> Goroutine]
      BY DEF TypeOK
    <3> QED
      BY <3>1, <3>3 DEF Goroutine, BookPc
  <2> QED
    BY <1>3, <2>1 DEF EnrichBook, AcquireAz, AbandonAz, GetPrices
<1>4. CASE Store(b)
  <2>1. g' \in [Books -> Goroutine]
    BY <1>4 DEF Store, Goroutine, BookPc
  <2>2. {g[b].lib[l] : l \in Libraries} \in SUBSET Provenance
    BY DEF Goroutine
  <2>3. row' \in [Books -> SUBSET Provenance]
    BY <1>4, <2>2 DEF Store
  <2> QED
    BY <1>4, <2>1, <2>3 DEF Store
<1>5. CASE Patch(b)
  <2>1. g' \in [Books -> Goroutine]
    BY <1>5 DEF Patch, Goroutine, BookPc
  <2>2. updateCh' = Append(updateCh, b) \/ updateCh' = updateCh
    BY <1>5, Zenon DEF Patch
  <2>3. updateCh' \in Seq(Books)
    <3>1. updateCh \in Seq(Books)
      OBVIOUS
    <3> HIDE DEF TypeOK, CursorInv
    <3> QED  BY <2>2, <3>1
  <2> QED
    BY <1>5, <2>1, <2>3 DEF Patch
<1> QED
  BY <1>1, <1>2, <1>3, <1>4, <1>5 DEF BookStep, Checks, Enrichment

-----------------------------------------------------------------------------

\* The handler queues and starts goroutines; it never makes one that has started go
\* back, and of the channels it only takes values off.
LEMMA HandlerKeeps ==
  ASSUME StreamInv, Handler
  PROVE  SpawnInv' /\ ChannelInv' /\ SlotInv' /\ NoCanceledRow'
<1>0. /\ TypeOK /\ SpawnInv /\ ChannelInv /\ SlotInv /\ NoCanceledRow
      /\ UNCHANGED gone /\ UNCHANGED row
  BY DEF StreamInv, Handler, Refuse, Accept, ShelfFails, ShelfEmpty, ShelfFetched, ReadCache,
     ServeHit, QueueMiss, Spawn, ReceiveResult, ResultsEnd, ReceiveUpdate, UpdatesEnd, bookVars
<1>1. NoCanceledRow'
  BY <1>0 DEF NoCanceledRow
<1>2. CASE Refuse \/ Accept \/ ShelfFails \/ ShelfEmpty \/ ShelfFetched \/ ReadCache
           \/ ServeHit \/ ResultsEnd \/ UpdatesEnd
  <2>1. /\ UNCHANGED bookVars
        /\ pc' \in {"params", "fetching", "lookup", "scan"} =>
             pc \in {"params", "fetching", "lookup", "scan"}
    BY <1>2 DEF Refuse, Accept, ShelfFails, ShelfEmpty, ShelfFetched, ReadCache, ServeHit,
       ResultsEnd, UpdatesEnd
  <2>2. Senders' = Senders /\ Enders' = Enders
    BY <2>1 DEF Senders, Enders, Delivered, bookVars
  <2> QED
    BY <1>0, <1>1, <2>1, <2>2 DEF SpawnInv, ChannelInv, SlotInv, Delivered, bookVars
<1>3. CASE QueueMiss \/ Spawn
  <2>1. /\ pc = "scan"
        /\ resultCh = <<>> /\ updateCh = <<>> /\ UNCHANGED <<resultCh, updateCh>>
        /\ \A b \in Books : g[b].pc \in {"none", "queued"}
    BY <1>0, <1>3 DEF QueueMiss, Spawn, SpawnInv
  <2>2. \A b \in Books : /\ g'[b].pc \in {"none", "queued", "check"}
                         /\ g'[b].lib = g[b].lib
                         /\ pc' = "scan" => g'[b].pc \in {"none", "queued"}
    <3>1. g \in [Books -> Goroutine]
      BY <1>0 DEF TypeOK
    <3>2. CASE QueueMiss
      BY <2>1, <3>1, <3>2 DEF QueueMiss, Goroutine
    <3>3. CASE Spawn
      <4>1. g' = [b \in Books |-> IF g[b].pc = "queued" THEN [g[b] EXCEPT !.pc = "check"] ELSE g[b]]
        BY <3>3 DEF Spawn
      <4>2. pc' = "results"
        BY <3>3 DEF Spawn
      <4>3. ASSUME NEW b \in Books
            PROVE  g'[b].pc \in {"none", "queued", "check"} /\ g'[b].lib = g[b].lib
        <5>1. g[b] \in Goroutine /\ g[b].pc \in {"none", "queued"}
          BY <2>1, <3>1
        <5>2. CASE g[b].pc = "queued"
          <6>1. g'[b] = [g[b] EXCEPT !.pc = "check"]
            BY <4>1, <5>2
          <6> QED
            BY <5>1, <6>1 DEF Goroutine
        <5>3. CASE g[b].pc # "queued"
          BY <4>1, <5>1, <5>3
        <5> QED
          BY <5>2, <5>3
      <4> QED
        BY <4>2, <4>3
    <3> QED
      BY <1>3, <3>2, <3>3
  <2>3. SpawnInv'
    BY <1>3, <2>1, <2>2 DEF SpawnInv, QueueMiss, Spawn
  <2>4. ChannelInv'
    <3>1. Senders' \in SUBSET Books /\ Enders' \in SUBSET Books
      BY DEF Senders, Enders
    <3>2. Cardinality(Senders') \in Nat /\ Cardinality(Enders') \in Nat
      BY <3>1, BooksFinite
    <3>3. Len(resultCh') = 0 /\ Len(updateCh') = 0
      BY <2>1
    <3> HIDE DEF Senders, Enders
    <3> QED
      BY <3>2, <3>3 DEF ChannelInv
  <2>5. SlotInv'
    BY <1>0, <2>2 DEF SlotInv, Delivered
  <2> QED
    BY <1>1, <2>3, <2>4, <2>5
<1>4. CASE ReceiveResult \/ ReceiveUpdate
  <2>1. /\ g' = g /\ pc' \notin {"params", "fetching", "lookup", "scan"}
        /\ \/ resultCh # <<>> /\ resultCh' = Tail(resultCh) /\ updateCh' = updateCh
           \/ updateCh # <<>> /\ updateCh' = Tail(updateCh) /\ resultCh' = resultCh
    BY <1>4 DEF ReceiveResult, ReceiveUpdate
  <2>2. Senders' = Senders /\ Enders' = Enders
    BY <2>1 DEF Senders, Enders, Delivered
  <2>3. Cardinality(Senders) \in Nat /\ Cardinality(Enders) \in Nat
    BY BooksFinite DEF Senders, Enders
  <2>4. resultCh \in Seq(Books) /\ updateCh \in Seq(Books)
    BY <1>0 DEF TypeOK
  <2>5. Len(resultCh') <= Len(resultCh) /\ Len(updateCh') <= Len(updateCh)
    BY <2>1, <2>4, ReceiveTyped
  <2>6. ChannelInv'
    <3>1. \E k, m \in Nat : Len(resultCh') = k /\ Len(updateCh') = m
      BY <2>1, <2>4
    <3> QED
      BY <1>0, <2>2, <2>3, <2>4, <2>5, <3>1 DEF ChannelInv
  <2> QED
    BY <1>0, <1>1, <2>1, <2>6 DEF SpawnInv, SlotInv, Delivered
<1> QED
  BY <1>2, <1>3, <1>4 DEF Handler

\* A goroutine sends once on each channel, and writes its row only after its checks
\* and under a live context.
LEMMA BookKeeps ==
  ASSUME StreamInv, NEW b \in Books, BookStep(b)
  PROVE  SpawnInv' /\ ChannelInv' /\ SlotInv' /\ NoCanceledRow'
<1>0. /\ SpawnInv /\ ChannelInv /\ SlotInv /\ NoCanceledRow
      /\ g \in [Books -> Goroutine] /\ row \in [Books -> SUBSET Provenance]
      /\ resultCh \in Seq(Books) /\ updateCh \in Seq(Books)
  BY DEF StreamInv, TypeOK
<1>1. pc' = pc /\ gone' = gone /\ g[b].pc \notin {"none", "queued"}
  BY DEF BookStep, Checks, Enrichment, Check, Deliver, CheckedAll, EnrichBook, AcquireAz, AbandonAz, GetPrices,
     Store, Patch, handlerVars
<1>2. SpawnInv'
  BY <1>0, <1>1 DEF SpawnInv
<1>3. Cardinality(Senders) \in Nat /\ Cardinality(Enders) \in Nat
      /\ IsFiniteSet(Senders) /\ IsFiniteSet(Enders)
  BY BooksFinite DEF Senders, Enders
<1>4. CASE \E l \in Libraries : Check(b, l)
  <2>1. PICK l \in Libraries, r \in {"filled", "unfilled", "gone"} :
          /\ g' = [g EXCEPT ![b].lib[l] = r]
          /\ r = "gone" => gone
          /\ g[b].pc = "check" /\ UNCHANGED <<resultCh, updateCh, row>>
    BY <1>4 DEF Check
  <2>2. \A x \in Books : g'[x].pc = g[x].pc
    BY <1>0, <2>1 DEF Goroutine
  <2>3. Senders' = Senders /\ Enders' = Enders
    BY <2>2 DEF Senders, Enders, Delivered
  <2>4. \A x \in Books, m \in Libraries :
          g'[x].lib[m] = IF x = b /\ m = l THEN r ELSE g[x].lib[m]
    BY <1>0, <2>1 DEF Goroutine
  <2>5. SlotInv'
    BY <1>0, <1>1, <2>1, <2>2, <2>4 DEF SlotInv, Delivered
  <2> QED
    BY <1>0, <1>2, <2>1, <2>3, <2>5 DEF ChannelInv, NoCanceledRow
<1>5. CASE Deliver(b)
  <2>1. /\ g' = [g EXCEPT ![b].pc = "enrich"]
        /\ g[b].pc = "check" /\ \A l \in Libraries : g[b].lib[l] # "pending"
        /\ resultCh' = Append(resultCh, b) /\ UNCHANGED <<updateCh, row>>
    BY <1>5 DEF Deliver, CheckedAll
  <2>2. \A x \in Books : /\ g'[x].pc = IF x = b THEN "enrich" ELSE g[x].pc
                         /\ g'[x].lib = g[x].lib
    BY <1>0, <2>1 DEF Goroutine
  <2>3. Senders' = Senders \union {b} /\ b \notin Senders /\ Enders' = Enders
    BY <2>1, <2>2 DEF Senders, Enders, Delivered
  <2>4. Cardinality(Senders') = Cardinality(Senders) + 1
    BY <1>3, <2>3, FS_AddElement
  <2>5. Len(resultCh') = Len(resultCh) + 1
    BY <1>0, <2>1
  <2>6. ChannelInv'
    BY <1>0, <1>3, <2>1, <2>3, <2>4, <2>5 DEF ChannelInv
  <2>7. SlotInv'
    BY <1>0, <1>1, <2>1, <2>2 DEF SlotInv, Delivered
  <2> QED
    BY <1>0, <1>2, <2>1, <2>6, <2>7 DEF NoCanceledRow
<1>6. CASE EnrichBook(b) \/ AcquireAz(b) \/ AbandonAz(b) \/ GetPrices(b) \/ Store(b)
  <2>1. /\ \A x \in Books : g'[x].lib = g[x].lib
        /\ \A x \in Books \ {b} : g'[x].pc = g[x].pc
        /\ g[b].pc \in {"enrich", "azwait", "pricing", "store"}
        /\ g'[b].pc \in {"azwait", "pricing", "store", "patch"}
        /\ UNCHANGED <<resultCh, updateCh>>
    <3>1. g[b].pc \in {"enrich", "azwait", "pricing", "store"} /\ UNCHANGED <<resultCh, updateCh>>
      BY <1>6 DEF EnrichBook, AcquireAz, AbandonAz, GetPrices, Store
    <3>2. \/ g' = [g EXCEPT ![b].pc = "azwait", ![b].adds = TRUE]
          \/ g' = [g EXCEPT ![b].pc = "azwait", ![b].adds = FALSE]
          \/ g' = [g EXCEPT ![b].pc = "pricing"]
          \/ g' = [g EXCEPT ![b].pc = "store", ![b].slow = ~gone]
          \/ g' = [g EXCEPT ![b].pc = "store", ![b].slow = TRUE, ![b].adds = @ \/ TRUE]
          \/ g' = [g EXCEPT ![b].pc = "store", ![b].slow = TRUE, ![b].adds = @ \/ FALSE]
          \/ g' = [g EXCEPT ![b].pc = "store", ![b].slow = FALSE, ![b].adds = @ \/ TRUE]
          \/ g' = [g EXCEPT ![b].pc = "store", ![b].slow = FALSE, ![b].adds = @ \/ FALSE]
          \/ g' = [g EXCEPT ![b].pc = "patch"]
      BY <1>6, Zenon DEF EnrichBook, AcquireAz, AbandonAz, GetPrices, Store
    <3>3. DOMAIN g = Books /\ g[b] = [pc |-> g[b].pc, lib |-> g[b].lib, slow |-> g[b].slow, adds |-> g[b].adds]
      BY <1>0 DEF Goroutine
    <3>4. \A x \in Books \ {b} : g'[x] = g[x]
      BY <3>2, <3>3
    <3>5. g'[b].lib = g[b].lib
      BY <3>2, <3>3
    <3>6. g'[b].pc \in {"azwait", "pricing", "store", "patch"}
      BY <3>2, <3>3
    <3> QED
      BY <3>1, <3>4, <3>5, <3>6
  <2>2. Senders' = Senders /\ Enders' = Enders
    BY <2>1 DEF Senders, Enders, Delivered
  <2>3. SlotInv'
    BY <1>0, <1>1, <2>1 DEF SlotInv, Delivered
  <2>4. NoCanceledRow'
    <3>1. CASE UNCHANGED row
      BY <1>0, <3>1 DEF NoCanceledRow
    <3>2. CASE Storable(b) /\ row' = [row EXCEPT ![b] = {g[b].lib[l] : l \in Libraries}]
      <4>1. "gone" \notin {g[b].lib[l] : l \in Libraries}
        BY <1>0, <2>1, <3>2 DEF Storable, SlotInv, Delivered
      <4> QED
        BY <1>0, <3>2, <4>1 DEF NoCanceledRow
    <3> QED
      BY <1>6, <3>1, <3>2 DEF EnrichBook, AcquireAz, AbandonAz, GetPrices, Store
  <2> QED
    BY <1>0, <1>2, <2>1, <2>2, <2>3, <2>4 DEF ChannelInv
<1>7. CASE Patch(b)
  <2>1. /\ g' = [g EXCEPT ![b].pc = "end"] /\ g[b].pc = "patch"
        /\ updateCh' = Append(updateCh, b) \/ updateCh' = updateCh
        /\ UNCHANGED <<resultCh, row>>
    BY <1>7, Zenon DEF Patch
  <2>2. \A x \in Books : /\ g'[x].pc = IF x = b THEN "end" ELSE g[x].pc
                         /\ g'[x].lib = g[x].lib
    BY <1>0, <2>1 DEF Goroutine
  <2>3. Enders' = Enders \union {b} /\ b \notin Enders /\ Senders' = Senders
    BY <2>1, <2>2 DEF Senders, Enders, Delivered
  <2>4. Cardinality(Enders') = Cardinality(Enders) + 1
    BY <1>3, <2>3, FS_AddElement
  <2>5. Len(updateCh') = Len(updateCh) + 1 \/ Len(updateCh') = Len(updateCh)
    BY <1>0, <2>1
  <2>6. ChannelInv'
    BY <1>0, <1>3, <2>1, <2>3, <2>4, <2>5 DEF ChannelInv
  <2>7. SlotInv'
    BY <1>0, <1>1, <2>1, <2>2 DEF SlotInv, Delivered
  <2> QED
    BY <1>0, <1>2, <2>1, <2>6, <2>7 DEF NoCanceledRow
<1> QED
  BY <1>4, <1>5, <1>6, <1>7 DEF BookStep, Checks, Enrichment

\* The invariant is inductive.
LEMMA NextStream == StreamInv /\ [Next]_vars => StreamInv'
<1> SUFFICES ASSUME StreamInv, [Next]_vars PROVE StreamInv'
  OBVIOUS
<1>1. CASE Handler
  BY <1>1, HandlerTyped, HandlerKeeps DEF StreamInv
<1>2. CASE \E b \in Books : BookStep(b)
  BY <1>2, BookTyped, BookKeeps DEF StreamInv
<1>3. CASE HeartbeatStop \/ ClientLeaves \/ Ended \/ UNCHANGED vars
  <2>1. /\ UNCHANGED <<handlerVars, bookVars>>
        /\ hb' \in {hb, "stopped"} /\ (gone' = gone \/ gone' = TRUE)
    BY <1>3 DEF HeartbeatStop, ClientLeaves, Ended, vars
  <2>2. Senders' = Senders /\ Enders' = Enders
    BY <2>1 DEF Senders, Enders, Delivered, bookVars
  <2>3. TypeOK' /\ CursorInv'
    BY <2>1 DEF StreamInv, TypeOK, CursorInv, handlerVars, bookVars
  <2> QED
    BY <2>1, <2>2, <2>3 DEF StreamInv, SpawnInv, ChannelInv, SlotInv, NoCanceledRow,
       Delivered, handlerVars, bookVars
<1> QED
  BY <1>1, <1>2, <1>3 DEF Next

-----------------------------------------------------------------------------

\* The inductive invariant holds in every reachable state of a search.
THEOREM StreamInvariant == Spec => []StreamInv
  BY InitStream, NextStream, PTL DEF Spec

\* Every variable of the search keeps its type.
THEOREM TypeCorrect == Spec => []TypeOK
<1>1. StreamInv => TypeOK
  BY DEF StreamInv
<1> QED
  BY <1>1, StreamInvariant, PTL

\* No goroutine of a search ever blocks on resultCh or updateCh, whether or not the
\* handler still receives.
THEOREM SendersNeverBlock == Spec => []NoSenderBlocks
<1>1. ASSUME StreamInv PROVE NoSenderBlocks
  <2>0. TypeOK /\ ChannelInv
    BY <1>1 DEF StreamInv
  <2> SUFFICES ASSUME NEW b \in Books
               PROVE  /\ CheckedAll(b) => Len(resultCh) < Capacity
                      /\ g[b].pc = "patch" => Len(updateCh) < Capacity
    BY DEF NoSenderBlocks
  <2>1. Senders \in SUBSET ToFetch /\ Enders \in SUBSET ToFetch
    BY DEF Senders, Enders, ToFetch, Delivered
  <2>2. /\ Cardinality(Senders) \in Nat /\ Cardinality(Enders) \in Nat
        /\ Cardinality(ToFetch) \in Nat
    BY BooksFinite DEF Senders, Enders, ToFetch
  <2>3. Len(resultCh) \in Nat /\ Len(updateCh) \in Nat
    BY <2>0 DEF TypeOK
  <2>4. ASSUME CheckedAll(b) PROVE Len(resultCh) < Capacity
    <3>1. g[b].pc # "none" /\ b \notin Senders
      BY <2>4 DEF CheckedAll, Senders, Delivered
    <3>2. Cardinality(Senders) < Capacity
      BY <2>0, <2>1, <3>1, RoomInChannel
    <3> QED
      BY <2>0, <2>2, <2>3, <3>2 DEF ChannelInv, Capacity
  <2>5. ASSUME g[b].pc = "patch" PROVE Len(updateCh) < Capacity
    <3>1. g[b].pc # "none" /\ b \notin Enders
      BY <2>5 DEF Enders
    <3>2. Cardinality(Enders) < Capacity
      BY <2>0, <2>1, <3>1, RoomInChannel
    <3> QED
      BY <2>0, <2>2, <2>3, <3>2 DEF ChannelInv, Capacity
  <2> QED
    BY <2>4, <2>5
<1> QED
  BY <1>1, StreamInvariant, PTL

\* No check cut short by a leaving client is ever in the shared book cache.
THEOREM CanceledIsNotCached == Spec => []NoCanceledRow
<1>1. StreamInv => NoCanceledRow
  BY DEF StreamInv
<1> QED
  BY <1>1, StreamInvariant, PTL

-----------------------------------------------------------------------------
(* The stream the client sees *)

\* The books in a channel, and that each is there once.
Holds(ch) == {ch[i] : i \in 1..Len(ch)}
Once(ch) == \A i, j \in 1..Len(ch) : ch[i] = ch[j] => i = j

Checked == Sent(Say("availability_done"))

\* Whose card is there: in the loop over the shelf that of every hit before the cursor,
\* then that of every book whose goroutine, if it has one, was heard; in the end, all.
CardInv ==
  /\ pc \in {"params", "fetching"} => Shown = {}
  /\ pc = "lookup" => cursor = 1
  /\ pc \in {"lookup", "scan"} =>
       /\ Shown = {b \in hits : b < cursor}
       /\ \A b \in Books : g[b].pc = "queued" <=> b < cursor /\ b \notin hits
  /\ pc = "results" =>
       Shown = {b \in 1..n : g[b].pc # "none" => Delivered(b) /\ b \notin Holds(resultCh)}
  /\ pc = "updates" => Shown = 1..n
  /\ \A b \in Books : g[b].pc # "none" => b <= n

\* A result in the channel was sent, once.
ResultInv == Holds(resultCh) \subseteq Senders /\ Once(resultCh)

\* An update is either in the channel or with the client, once.
UpdateInv ==
  /\ Holds(updateCh) \union Patched \subseteq Enders
  /\ Holds(updateCh) \intersect Patched = {}
  /\ Once(updateCh)

\* A client that stays was told that all is checked before any update is due.
CheckedInv ==
  /\ Checked => pc \in {"updates", "returned"}
  /\ pc = "updates" /\ ~gone /\ ToFetch # {} => Checked

ClientInv == CardInv /\ ResultInv /\ UpdateInv /\ CheckedInv

LEMMA ChannelSends ==
  ASSUME NEW ch \in Seq(Books), NEW b \in Books
  PROVE  /\ Holds(Append(ch, b)) = Holds(ch) \union {b}
         /\ Once(ch) /\ b \notin Holds(ch) => Once(Append(ch, b))
<1>1. /\ Len(Append(ch, b)) = Len(ch) + 1 /\ Len(ch) \in Nat
      /\ \A i \in 1..Len(ch) : Append(ch, b)[i] = ch[i]
      /\ Append(ch, b)[Len(ch) + 1] = b
  OBVIOUS
<1> QED
  BY <1>1 DEF Holds, Once

LEMMA ChannelReceives ==
  ASSUME NEW ch \in Seq(Books), ch # <<>>, Once(ch)
  PROVE  /\ Head(ch) \in Holds(ch) /\ Holds(Tail(ch)) = Holds(ch) \ {Head(ch)}
         /\ Once(Tail(ch))
<1>1. /\ Len(Tail(ch)) = Len(ch) - 1 /\ Len(ch) \in Nat \ {0}
      /\ \A i \in 1..Len(ch) - 1 : Tail(ch)[i] = ch[i + 1]
      /\ Head(ch) = ch[1]
  OBVIOUS
<1>2. Head(ch) \in Holds(ch)
  BY <1>1 DEF Holds
<1>3. Once(Tail(ch)) /\ \A i \in 1..Len(ch) - 1 : Tail(ch)[i] # Head(ch)
  BY <1>1 DEF Once
<1>4. ASSUME NEW i \in 1..Len(ch), ch[i] # Head(ch) PROVE ch[i] \in Holds(Tail(ch))
  <2>1. i - 1 \in 1..Len(ch) - 1
    BY <1>1, <1>4
  <2> QED
    BY <1>1, <2>1 DEF Holds
<1>5. Holds(Tail(ch)) \subseteq Holds(ch)
  BY <1>1 DEF Holds
<1> QED
  BY <1>1, <1>2, <1>3, <1>4, <1>5 DEF Holds

\* What the client has seen grows by the event that is sent.
LEMMA WireGrows ==
  ASSUME TypeOK, NEW e, Send(e), NEW x
  PROVE  Sent(x)' <=> Sent(x) \/ x = e
<1>1. /\ wire' = Append(wire, e) /\ wire \in Seq(Event)
  BY DEF Send, TypeOK
<1>2. /\ Len(wire') = Len(wire) + 1 /\ Len(wire) \in Nat
      /\ \A i \in 1..Len(wire) : wire'[i] = wire[i]
      /\ wire'[Len(wire) + 1] = e
  BY <1>1
<1> QED
  BY <1>2 DEF Sent

LEMMA SaySent ==
  ASSUME TypeOK, NEW t \in EventTypes, Send(Say(t))
  PROVE  /\ Shown' = Shown /\ Patched' = Patched
         /\ Checked' <=> Checked \/ t = "availability_done"
         /\ Len(wire') = Len(wire) + 1
<1>1. \A b \in Books : Card(b) # Say(t) /\ Update(b) # Say(t)
  BY SearchAssumption DEF Card, Update, Say, Books
<1>2. Say("availability_done") = Say(t) <=> t = "availability_done"
  BY DEF Say
<1>3. Shown' = Shown
  BY <1>1, WireGrows DEF Shown
<1>4. Patched' = Patched
  BY <1>1, WireGrows DEF Patched
<1>5. Checked' <=> Checked \/ t = "availability_done"
  BY <1>2, WireGrows DEF Checked
<1> QED
  BY <1>3, <1>4, <1>5 DEF Send, TypeOK

LEMMA CardSent ==
  ASSUME TypeOK, NEW b \in Books, Send(Card(b))
  PROVE  /\ Shown' = Shown \union {b} /\ Patched' = Patched
         /\ Checked' <=> Checked
         /\ Len(wire') = Len(wire) + 1
<1>1. \A x \in Books : (Card(x) = Card(b) <=> x = b) /\ Update(x) # Card(b)
  BY DEF Card, Update
<1>2. Say("availability_done") # Card(b)
  BY DEF Say, Card
<1>3. Shown' = Shown \union {b}
  BY <1>1, WireGrows DEF Shown
<1>4. Patched' = Patched
  BY <1>1, WireGrows DEF Patched
<1>5. Checked' <=> Checked
  BY <1>2, WireGrows DEF Checked
<1> QED
  BY <1>3, <1>4, <1>5 DEF Send, TypeOK

LEMMA UpdateSent ==
  ASSUME TypeOK, NEW b \in Books, Send(Update(b))
  PROVE  /\ Shown' = Shown /\ Patched' = Patched \union {b}
         /\ Checked' <=> Checked
         /\ Len(wire') = Len(wire) + 1
<1>1. \A x \in Books : (Update(x) = Update(b) <=> x = b) /\ Card(x) # Update(b)
  BY DEF Card, Update
<1>2. Say("availability_done") # Update(b)
  BY DEF Say, Update
<1>3. Shown' = Shown
  BY <1>1, WireGrows DEF Shown
<1>4. Patched' = Patched \union {b}
  BY <1>1, WireGrows DEF Patched
<1>5. Checked' <=> Checked
  BY <1>2, WireGrows DEF Checked
<1> QED
  BY <1>3, <1>4, <1>5 DEF Send, TypeOK

LEMMA NothingSent ==
  ASSUME UNCHANGED wire
  PROVE  Shown' = Shown /\ Patched' = Patched /\ (Checked' <=> Checked)
  BY DEF Shown, Patched, Checked, Sent

LEMMA InitClient == Init => ClientInv
<1> SUFFICES ASSUME Init PROVE ClientInv
  OBVIOUS
<1>1. Shown = {} /\ Patched = {} /\ ~Checked
  BY DEF Init, Shown, Patched, Checked, Sent
<1>2. Holds(resultCh) = {} /\ Holds(updateCh) = {} /\ Once(resultCh) /\ Once(updateCh)
  BY DEF Init, Holds, Once
<1> QED
  BY <1>1, <1>2 DEF Init, ClientInv, CardInv, ResultInv, UpdateInv, CheckedInv

\* The handler shows every book once, and says that all is checked when it is.
LEMMA HandlerShows ==
  ASSUME StreamInv, ClientInv, Handler
  PROVE  ClientInv'
<1>0. /\ TypeOK /\ CursorInv /\ SpawnInv
      /\ CardInv /\ ResultInv /\ UpdateInv /\ CheckedInv
      /\ resultCh \in Seq(Books) /\ updateCh \in Seq(Books) /\ n \in 0..MaxBooks
      /\ g \in [Books -> Goroutine]
  BY DEF StreamInv, ClientInv, TypeOK
<1>1. CASE Refuse \/ ShelfFails \/ ShelfEmpty \/ ShelfFetched \/ Accept
  <2>1. /\ Shown' = Shown /\ Patched' = Patched /\ (Checked' <=> Checked)
        /\ UNCHANGED <<bookVars, hits, cursor>>
        /\ pc \in {"params", "fetching"} /\ pc' \in {"fetching", "lookup", "returned"}
    BY <1>0, <1>1, SaySent, NothingSent
       DEF Refuse, ShelfFails, ShelfEmpty, ShelfFetched, Accept, EventTypes
  <2>2. Senders' = Senders /\ Enders' = Enders /\ ToFetch' = ToFetch
    BY <2>1 DEF Senders, Enders, ToFetch, Delivered, bookVars
  <2>3. pc' = "lookup" => pc = "fetching" /\ n' \in 1..MaxBooks
    BY <1>1 DEF Refuse, ShelfFails, ShelfEmpty, ShelfFetched, Accept
  <2>4. n = 0 /\ Shown = {} /\ ~Checked
    BY <1>0, <2>1 DEF CursorInv, CardInv, CheckedInv
  <2>5. cursor \in 1..(n + 1) /\ cursor' = 1
    BY <1>0, <2>1, <2>4 DEF CursorInv
  <2>6. \A b \in Books : g[b].pc = "none"
    <3>1. ASSUME NEW b \in Books PROVE ~(b <= n)
      BY <2>4 DEF Books
    <3> QED
      BY <1>0, <3>1 DEF CardInv
  <2>7. CardInv'
    <3>1. g' = g
      BY <2>1 DEF bookVars
    <3>2. hits' \subseteq Books
      BY <1>0, <2>1 DEF TypeOK
    <3>3. \A b \in Books : g'[b].pc = "none"
      BY <2>6, <3>1
    <3>4. pc' = "lookup" => cursor' = 1 /\ \A b \in Books : ~(b < cursor')
      BY <2>3, <2>5 DEF Books
    <3> QED
      BY <2>1, <2>4, <3>2, <3>3, <3>4 DEF CardInv
  <2> QED
    BY <1>0, <2>1, <2>2, <2>4, <2>7 DEF ClientInv, ResultInv, UpdateInv, CheckedInv, bookVars
<1>2. CASE ReadCache
  <2>1. /\ Shown' = Shown /\ Patched' = Patched /\ (Checked' <=> Checked)
        /\ UNCHANGED <<bookVars, gone, n, cursor>> /\ pc = "lookup" /\ pc' = "scan"
    BY <1>2, NothingSent DEF ReadCache
  <2>2. Senders' = Senders /\ Enders' = Enders
    BY <2>1 DEF Senders, Enders, Delivered, bookVars
  <2>3. cursor = 1 /\ \A b \in Books : ~(b < cursor)
    BY <1>0, <2>1 DEF CardInv, Books
  <2>4. hits \subseteq Books /\ hits' \subseteq Books
    BY <1>0, <1>2, SearchAssumption DEF TypeOK, ReadCache, Books
  <2>5. CardInv'
    BY <1>0, <2>1, <2>3, <2>4 DEF CardInv, bookVars
  <2> QED
    BY <1>0, <2>1, <2>2, <2>5 DEF ClientInv, ResultInv, UpdateInv, CheckedInv, bookVars
<1>3. CASE ServeHit
  <2>1. /\ cursor \in Books /\ cursor \in hits /\ cursor' = cursor + 1 /\ Send(Card(cursor))
        /\ UNCHANGED <<bookVars, gone, n, hits, pc>> /\ pc = "scan"
    BY <1>0, <1>3, SearchAssumption DEF ServeHit, CursorInv, Books
  <2>2. Shown' = Shown \union {cursor} /\ Patched' = Patched /\ (Checked' <=> Checked)
    BY <1>0, <2>1, CardSent
  <2>3. Senders' = Senders /\ Enders' = Enders
    BY <2>1 DEF Senders, Enders, Delivered, bookVars
  <2>4. \A b \in Books : b < cursor' <=> b < cursor \/ b = cursor
    BY <2>1 DEF Books
  <2>5. hits \subseteq Books
    BY <1>0 DEF TypeOK
  <2>6. CardInv'
    BY <1>0, <2>1, <2>2, <2>4, <2>5 DEF CardInv, bookVars
  <2> QED
    BY <1>0, <2>1, <2>2, <2>3, <2>6 DEF ClientInv, ResultInv, UpdateInv, CheckedInv, bookVars
<1>4. CASE QueueMiss
  <2>1. /\ cursor \in Books /\ cursor \notin hits /\ cursor' = cursor + 1 /\ cursor <= n
        /\ UNCHANGED <<gone, n, hits, pc, resultCh, updateCh>> /\ pc = "scan"
        /\ g' = [g EXCEPT ![cursor].pc = "queued"]
    BY <1>0, <1>4, SearchAssumption DEF QueueMiss, CursorInv, Books
  <2>2. Shown' = Shown /\ Patched' = Patched /\ (Checked' <=> Checked)
    BY <1>4, NothingSent DEF QueueMiss
  <2>3. \A b \in Books : g'[b].pc = IF b = cursor THEN "queued" ELSE g[b].pc
    BY <1>0, <2>1 DEF Goroutine
  <2>4. \A b \in Books : b < cursor' <=> b < cursor \/ b = cursor
    BY <2>1 DEF Books
  <2>5. hits \subseteq Books
    BY <1>0 DEF TypeOK
  <2>6. CardInv'
    BY <1>0, <2>1, <2>2, <2>3, <2>4, <2>5 DEF CardInv
  <2>7. resultCh = <<>> /\ updateCh = <<>> /\ Senders = {} /\ Enders = {}
    BY <1>0, <2>1 DEF SpawnInv, Senders, Enders, Delivered
  <2> QED
    BY <1>0, <2>1, <2>2, <2>6, <2>7 DEF ClientInv, ResultInv, UpdateInv, CheckedInv, Holds, Once
<1>5. CASE Spawn
  <2>1. /\ pc = "scan" /\ pc' = "results" /\ cursor > n
        /\ UNCHANGED <<gone, n, hits, resultCh, updateCh>>
        /\ g' = [b \in Books |-> IF g[b].pc = "queued" THEN [g[b] EXCEPT !.pc = "check"] ELSE g[b]]
    BY <1>5 DEF Spawn
  <2>2. Shown' = Shown /\ Patched' = Patched /\ (Checked' <=> Checked)
    BY <1>5, NothingSent DEF Spawn
  <2>3. resultCh = <<>> /\ updateCh = <<>> /\ Enders = {} /\ Senders = {}
    BY <1>0, <2>1 DEF SpawnInv, Senders, Enders, Delivered
  <2>4. \A b \in Books : g'[b].pc = IF g[b].pc = "queued" THEN "check" ELSE g[b].pc
    BY <1>0, <2>1 DEF Goroutine
  <2>5. hits \subseteq Books /\ 1..n \subseteq Books /\ cursor = n + 1
    BY <1>0, <2>1, SearchAssumption DEF TypeOK, CursorInv, Books
  <2>6. \A b \in Books : g[b].pc \in {"none", "queued"} /\ b \in Nat /\ (b < cursor <=> b \in 1..n)
    BY <1>0, <2>1, <2>5 DEF SpawnInv, Books
  <2>7. \A b \in Books : g'[b].pc = "check" <=> b \in 1..n /\ b \notin hits
    BY <1>0, <2>1, <2>4, <2>6 DEF CardInv
  <2>8. \A b \in Books : g'[b].pc = "none" \/ (g'[b].pc = "check" /\ ~Delivered(b)')
    BY <2>4, <2>6 DEF Delivered
  <2>9. Shown' = {b \in 1..n : g'[b].pc # "none" => Delivered(b)' /\ b \notin Holds(resultCh)'}
    BY <1>0, <2>1, <2>2, <2>5, <2>6, <2>7, <2>8 DEF CardInv
  <2>10. CardInv'
    BY <1>0, <2>1, <2>4, <2>9 DEF CardInv
  <2> QED
    BY <1>0, <2>1, <2>2, <2>3, <2>10 DEF ClientInv, ResultInv, UpdateInv, CheckedInv, Holds, Once
<1>6. CASE ReceiveResult
  <2> DEFINE b == Head(resultCh)
  <2>1. /\ b \in Books /\ b \in Holds(resultCh) /\ b \in Senders
        /\ Holds(resultCh') = Holds(resultCh) \ {b} /\ Once(resultCh')
        /\ UNCHANGED <<g, updateCh, n, gone>> /\ pc = "results"
    BY <1>0, <1>6, ChannelReceives, ReceiveTyped DEF ReceiveResult, ResultInv
  <2>2. Senders' = Senders /\ Enders' = Enders /\ ToFetch' = ToFetch
    BY <2>1 DEF Senders, Enders, ToFetch, Delivered
  <2>3. CASE gone
    <3>1. pc' = "returned" /\ Patched' = Patched /\ (Checked' <=> Checked)
      BY <1>6, <2>3, NothingSent DEF ReceiveResult
    <3> QED
      BY <1>0, <2>1, <2>2, <3>1 DEF ClientInv, CardInv, ResultInv, UpdateInv, CheckedInv
  <2>4. CASE ~gone
    <3>1. pc' = pc /\ Send(Card(b))
      BY <1>6, <2>4 DEF ReceiveResult
    <3>2. Shown' = Shown \union {b} /\ Patched' = Patched /\ (Checked' <=> Checked)
      BY <1>0, <2>1, <3>1, CardSent
    <3> HIDE DEF b
    <3>3. b \in 1..n /\ Delivered(b)
      BY <1>0, <2>1 DEF CardInv, Senders, Delivered, Books
    <3>4. \A x \in Books : Delivered(x)' <=> Delivered(x)
      BY <2>1 DEF Delivered
    <3>5. 1..n \subseteq Books
      BY <1>0, SearchAssumption DEF Books
    <3>6. CardInv'
      BY <1>0, <2>1, <3>1, <3>2, <3>3, <3>4, <3>5 DEF CardInv
    <3> QED
      BY <1>0, <2>1, <2>2, <3>1, <3>2, <3>6 DEF ClientInv, ResultInv, UpdateInv, CheckedInv
  <2> QED
    BY <2>3, <2>4
<1>7. CASE ResultsEnd
  <2>1. /\ pc = "results" /\ pc' = "updates" /\ resultCh = <<>> /\ ResultsClosed
        /\ UNCHANGED <<bookVars, gone, n>>
    BY <1>7 DEF ResultsEnd
  <2>2. Senders' = Senders /\ Enders' = Enders /\ ToFetch' = ToFetch
    BY <2>1 DEF Senders, Enders, ToFetch, Delivered, bookVars
  <2>3. /\ Shown' = Shown /\ Patched' = Patched
        /\ Checked' <=> Checked \/ (ToFetch # {} /\ ~gone)
    <3>1. CASE ToFetch # {} /\ ~gone
      BY <1>0, <1>7, <3>1, SaySent DEF ResultsEnd, EventTypes
    <3>2. CASE ~(ToFetch # {} /\ ~gone)
      BY <1>7, <3>2, NothingSent DEF ResultsEnd
    <3> QED
      BY <3>1, <3>2
  <2>4. Holds(resultCh) = {}
    BY <2>1 DEF Holds
  <2>5. 1..n \subseteq Books
    BY <1>0, SearchAssumption DEF Books
  <2>6. \A b \in 1..n : g[b].pc # "none" => Delivered(b) /\ b \notin Holds(resultCh)
    BY <2>1, <2>4, <2>5 DEF ResultsClosed, ToFetch
  <2>7. Shown = 1..n
    BY <1>0, <2>1, <2>6 DEF CardInv
  <2> QED
    BY <1>0, <2>1, <2>2, <2>3, <2>7 DEF ClientInv, CardInv, ResultInv, UpdateInv, CheckedInv, bookVars
<1>8. CASE ReceiveUpdate
  <2> DEFINE b == Head(updateCh)
  <2>1. /\ b \in Books /\ b \in Holds(updateCh)
        /\ Holds(updateCh') = Holds(updateCh) \ {b} /\ Once(updateCh')
        /\ UNCHANGED <<g, resultCh, n, gone>> /\ pc = "updates" /\ pc' \in {pc, "returned"}
    BY <1>0, <1>8, ChannelReceives, ReceiveTyped DEF ReceiveUpdate, UpdateInv
  <2>2. Senders' = Senders /\ Enders' = Enders /\ ToFetch' = ToFetch
    BY <2>1 DEF Senders, Enders, ToFetch, Delivered
  <2>3. Shown' = Shown /\ Patched' \in {Patched, Patched \union {b}} /\ (Checked' <=> Checked)
    BY <1>0, <1>8, <2>1, NothingSent, UpdateSent DEF ReceiveUpdate
  <2> QED
    BY <1>0, <2>1, <2>2, <2>3 DEF ClientInv, CardInv, ResultInv, UpdateInv, CheckedInv
<1>9. CASE UpdatesEnd
  <2>1. pc' = "returned" /\ UNCHANGED <<bookVars, n>>
    BY <1>9 DEF UpdatesEnd
  <2>2. Senders' = Senders /\ Enders' = Enders
    BY <2>1 DEF Senders, Enders, Delivered, bookVars
  <2>3. Patched' = Patched /\ Shown' = Shown
    BY <1>0, <1>9, SaySent DEF UpdatesEnd, EventTypes
  <2> QED
    BY <1>0, <2>1, <2>2, <2>3 DEF ClientInv, CardInv, ResultInv, UpdateInv, CheckedInv, bookVars
<1> QED
  BY <1>1, <1>2, <1>3, <1>4, <1>5, <1>6, <1>7, <1>8, <1>9 DEF Handler

\* A book's goroutine sends a result that is not in the channel and not shown, and ends
\* with an update that is neither in the channel nor with the client.
LEMMA BookShows ==
  ASSUME StreamInv, ClientInv, NEW b \in Books, BookStep(b)
  PROVE  ClientInv'
<1>0. /\ TypeOK /\ SpawnInv /\ CardInv /\ ResultInv /\ UpdateInv /\ CheckedInv
      /\ resultCh \in Seq(Books) /\ updateCh \in Seq(Books) /\ n \in 0..MaxBooks
      /\ g \in [Books -> Goroutine]
  BY DEF StreamInv, ClientInv, TypeOK
<1>1. /\ UNCHANGED <<pc, gone, n, hits, cursor>> /\ g[b].pc \notin {"none", "queued"}
      /\ pc \notin {"params", "fetching", "lookup", "scan"}
  BY <1>0 DEF SpawnInv, BookStep, Checks, Enrichment, Check, Deliver, CheckedAll, EnrichBook,
     AcquireAz, AbandonAz, GetPrices, Store, Patch, handlerVars
<1>2. Shown' = Shown /\ Patched' = Patched /\ (Checked' <=> Checked)
  <2>1. UNCHANGED wire
    BY DEF BookStep, Checks, Enrichment, Check, Deliver, CheckedAll, EnrichBook, AcquireAz,
       AbandonAz, GetPrices, Store, Patch, handlerVars
  <2> QED
    BY <2>1, NothingSent
<1>3. 1..n \subseteq Books
  BY <1>0, SearchAssumption DEF Books
<1>4. CASE \/ \E l \in Libraries : Check(b, l)
           \/ EnrichBook(b) \/ AcquireAz(b) \/ AbandonAz(b) \/ GetPrices(b) \/ Store(b)
  <2>1. /\ \A x \in Books \ {b} : g'[x].pc = g[x].pc
        /\ Delivered(b)' <=> Delivered(b)
        /\ g'[b].pc # "none" /\ g[b].pc # "end" /\ g'[b].pc # "end"
        /\ UNCHANGED <<resultCh, updateCh>>
    <3>1. CASE \E l \in Libraries : Check(b, l)
      <4>1. PICK l \in Libraries, r \in {"filled", "unfilled", "gone"} :
              g' = [g EXCEPT ![b].lib[l] = r] /\ g[b].pc = "check" /\ UNCHANGED <<resultCh, updateCh>>
        BY <3>1 DEF Check
      <4>2. \A x \in Books : g'[x].pc = g[x].pc
        BY <1>0, <4>1 DEF Goroutine
      <4> QED
        BY <4>1, <4>2 DEF Delivered
    <3>2. CASE EnrichBook(b) \/ AcquireAz(b) \/ AbandonAz(b) \/ GetPrices(b) \/ Store(b)
      <4>1. /\ g[b].pc \in {"enrich", "azwait", "pricing", "store"}
            /\ UNCHANGED <<resultCh, updateCh>>
        BY <3>2 DEF EnrichBook, AcquireAz, AbandonAz, GetPrices, Store
      <4>2. \/ g' = [g EXCEPT ![b].pc = "azwait", ![b].adds = TRUE]
            \/ g' = [g EXCEPT ![b].pc = "azwait", ![b].adds = FALSE]
            \/ g' = [g EXCEPT ![b].pc = "pricing"]
            \/ g' = [g EXCEPT ![b].pc = "store", ![b].slow = ~gone]
            \/ g' = [g EXCEPT ![b].pc = "store", ![b].slow = TRUE, ![b].adds = @ \/ TRUE]
            \/ g' = [g EXCEPT ![b].pc = "store", ![b].slow = TRUE, ![b].adds = @ \/ FALSE]
            \/ g' = [g EXCEPT ![b].pc = "store", ![b].slow = FALSE, ![b].adds = @ \/ TRUE]
            \/ g' = [g EXCEPT ![b].pc = "store", ![b].slow = FALSE, ![b].adds = @ \/ FALSE]
            \/ g' = [g EXCEPT ![b].pc = "patch"]
        BY <3>2, Zenon DEF EnrichBook, AcquireAz, AbandonAz, GetPrices, Store
      <4>3. DOMAIN g = Books /\ g[b] = [pc |-> g[b].pc, lib |-> g[b].lib, slow |-> g[b].slow, adds |-> g[b].adds]
        BY <1>0 DEF Goroutine
      <4>4. \A x \in Books \ {b} : g'[x] = g[x]
        BY <4>2, <4>3
      <4>5. g'[b].pc \in {"azwait", "pricing", "store", "patch"}
        BY <4>2, <4>3
      <4> QED
        BY <4>1, <4>4, <4>5 DEF Delivered
    <3> QED
      BY <1>4, <3>1, <3>2
  <2>2. \A x \in Books : /\ Delivered(x)' <=> Delivered(x)
                         /\ g'[x].pc = "none" <=> g[x].pc = "none"
    BY <1>1, <2>1 DEF Delivered
  <2>3. Senders' = Senders
    BY <2>2 DEF Senders
  <2>4. Enders' = Enders
    BY <2>1 DEF Enders
  <2>5. ToFetch' = ToFetch
    BY <2>2 DEF ToFetch
  <2>6. CardInv'
    BY <1>0, <1>1, <1>2, <1>3, <2>1, <2>2 DEF CardInv
  <2> QED
    BY <1>0, <1>1, <1>2, <2>1, <2>3, <2>4, <2>5, <2>6 DEF ClientInv, ResultInv, UpdateInv, CheckedInv
<1>5. CASE Deliver(b)
  <2>1. /\ g' = [g EXCEPT ![b].pc = "enrich"] /\ g[b].pc = "check"
        /\ resultCh' = Append(resultCh, b) /\ UNCHANGED updateCh
    BY <1>5 DEF Deliver, CheckedAll
  <2>2. \A x \in Books : g'[x].pc = IF x = b THEN "enrich" ELSE g[x].pc
    BY <1>0, <2>1 DEF Goroutine
  <2>3. /\ Senders' = Senders \union {b} /\ b \notin Senders
        /\ Enders' = Enders /\ ToFetch' = ToFetch
    BY <2>1, <2>2 DEF Senders, Enders, Delivered, ToFetch
  <2>4. Holds(resultCh') = Holds(resultCh) \union {b} /\ Once(resultCh')
    BY <1>0, <2>1, <2>3, ChannelSends DEF ResultInv
  <2>5. \A x \in Books : Delivered(x)' <=> Delivered(x) \/ x = b
    BY <2>2 DEF Delivered
  <2>6. ~Delivered(b)
    BY <2>1 DEF Delivered
  <2>7. CardInv'
    BY <1>0, <1>1, <1>2, <1>3, <2>2, <2>4, <2>5, <2>6 DEF CardInv
  <2> QED
    BY <1>0, <1>1, <1>2, <2>1, <2>3, <2>4, <2>7 DEF ClientInv, ResultInv, UpdateInv, CheckedInv
<1>6. CASE Patch(b)
  <2>1. /\ g' = [g EXCEPT ![b].pc = "end"] /\ g[b].pc = "patch"
        /\ updateCh' = Append(updateCh, b) \/ updateCh' = updateCh
        /\ UNCHANGED resultCh
    BY <1>6, Zenon DEF Patch
  <2>2. \A x \in Books : g'[x].pc = IF x = b THEN "end" ELSE g[x].pc
    BY <1>0, <2>1 DEF Goroutine
  <2>3. /\ Enders' = Enders \union {b} /\ b \notin Enders
        /\ Senders' = Senders /\ ToFetch' = ToFetch
    BY <2>1, <2>2 DEF Senders, Enders, Delivered, ToFetch
  <2>4. Holds(updateCh') \in {Holds(updateCh), Holds(updateCh) \union {b}} /\ Once(updateCh')
    BY <1>0, <2>1, <2>3, ChannelSends DEF UpdateInv
  <2>5. \A x \in Books : Delivered(x)' <=> Delivered(x)
    BY <2>1, <2>2 DEF Delivered
  <2>6. CardInv'
    BY <1>0, <1>1, <1>2, <1>3, <2>1, <2>2, <2>5 DEF CardInv
  <2> QED
    BY <1>0, <1>1, <1>2, <2>1, <2>3, <2>4, <2>6 DEF ClientInv, ResultInv, UpdateInv, CheckedInv
<1> QED
  BY <1>4, <1>5, <1>6 DEF BookStep, Checks, Enrichment

LEMMA NextClient == StreamInv /\ ClientInv /\ [Next]_vars => ClientInv'
<1> SUFFICES ASSUME StreamInv, ClientInv, [Next]_vars PROVE ClientInv'
  OBVIOUS
<1>1. CASE Handler
  BY <1>1, HandlerShows
<1>2. CASE \E b \in Books : BookStep(b)
  BY <1>2, BookShows
<1>3. CASE HeartbeatStop \/ ClientLeaves \/ Ended \/ UNCHANGED vars
  <2>1. UNCHANGED <<handlerVars, bookVars>> /\ (gone => gone')
    BY <1>3 DEF HeartbeatStop, ClientLeaves, Ended, vars
  <2>2. Shown' = Shown /\ Patched' = Patched /\ (Checked' <=> Checked)
    BY <2>1, NothingSent DEF handlerVars
  <2>3. Senders' = Senders /\ Enders' = Enders /\ ToFetch' = ToFetch
    BY <2>1 DEF Senders, Enders, ToFetch, Delivered, bookVars
  <2> QED
    BY <2>1, <2>2, <2>3 DEF ClientInv, CardInv, ResultInv, UpdateInv, CheckedInv, Delivered,
       handlerVars, bookVars
<1> QED
  BY <1>1, <1>2, <1>3 DEF Next

\* What the client sees is, at every moment, what the handler and the goroutines of the
\* books have not still to send: all the cards of a list that is announced as checked.
THEOREM ClientInvariant == Spec => []ClientInv
<1>1. StreamInv /\ ClientInv /\ [Next]_vars => ClientInv'
  BY NextClient
<1> QED
  BY <1>1, InitClient, StreamInvariant, PTL DEF Spec

\* The label of a search that has not returned is the one an early return reports.
OutcomeInv == pc # "returned" => outcome = "error"

LEMMA OutcomeInvariant == Spec => []OutcomeInv
<1>1. Init => OutcomeInv
  BY DEF Init, OutcomeInv
<1>2. OutcomeInv /\ [Next]_vars => OutcomeInv'
  BY DEF OutcomeInv, Next, vars, handlerVars, Handler, Refuse, Accept, ShelfFails, ShelfEmpty,
     ShelfFetched, ReadCache, ServeHit, QueueMiss, Spawn, ReceiveResult, ResultsEnd,
     ReceiveUpdate, UpdatesEnd, BookStep, Checks, Enrichment, Check, Deliver, EnrichBook,
     AcquireAz, AbandonAz, GetPrices, Store, Patch, HeartbeatStop, ClientLeaves, Ended
<1> QED
  BY <1>1, <1>2, PTL DEF Spec

-----------------------------------------------------------------------------
(* The handler implements StreamProtocol *)

\* The protocol's phase before and after a step, in the handler's terms.
LEMMA PhaseOf ==
  /\ Phase = IF pc = "returned" THEN "closed"
             ELSE IF Checked THEN "checked"
             ELSE IF pc \in {"lookup", "scan", "results", "updates"} THEN "listed" ELSE "open"
  /\ Phase' = IF pc' = "returned" THEN "closed"
              ELSE IF Checked' THEN "checked"
              ELSE IF pc' \in {"lookup", "scan", "results", "updates"} THEN "listed" ELSE "open"
  /\ pc # "returned" => Ending = "none"
  /\ pc' # "returned" => Ending' = "none"
  /\ pc' = "returned" /\ outcome' = "ok" => Ending' = "done"
  /\ pc' = "returned" /\ outcome' = "error" => Ending' = "error"
  /\ pc' = "returned" /\ outcome' = "canceled" => Ending' = "cut"
<1>1. Phase = IF pc = "returned" THEN "closed"
              ELSE IF Checked THEN "checked"
              ELSE IF pc \in {"lookup", "scan", "results", "updates"} THEN "listed" ELSE "open"
  <2>1. CASE pc = "returned"
    BY <2>1 DEF Phase
  <2>2. CASE pc # "returned" /\ Checked
    BY <2>2 DEF Phase, Checked
  <2>3. CASE pc # "returned" /\ ~Checked
    BY <2>3 DEF Phase, Checked
  <2> QED
    BY <2>1, <2>2, <2>3
<1>2. Phase' = IF pc' = "returned" THEN "closed"
               ELSE IF Checked' THEN "checked"
               ELSE IF pc' \in {"lookup", "scan", "results", "updates"} THEN "listed" ELSE "open"
  <2>1. CASE pc' = "returned"
    BY <2>1 DEF Phase
  <2>2. CASE pc' # "returned" /\ Checked'
    BY <2>2 DEF Phase, Checked
  <2>3. CASE pc' # "returned" /\ ~Checked'
    BY <2>3 DEF Phase, Checked
  <2> QED
    BY <2>1, <2>2, <2>3
<1>3. /\ pc # "returned" => Ending = "none"
      /\ pc' # "returned" => Ending' = "none"
      /\ pc' = "returned" /\ outcome' = "ok" => Ending' = "done"
      /\ pc' = "returned" /\ outcome' = "error" => Ending' = "error"
      /\ pc' = "returned" /\ outcome' = "canceled" => Ending' = "cut"
  BY DEF Ending
<1> QED
  BY <1>1, <1>2, <1>3

\* A step that leaves the handler where it is and sends nothing is not seen.
LEMMA UnseenStep ==
  ASSUME UNCHANGED <<wire, n, outcome>>, Phase' = Phase, pc' = pc \/ (pc # "returned" /\ pc' # "returned")
  PROVE  UNCHANGED Client!protocolVars
<1>1. Shown' = Shown /\ Patched' = Patched
  BY NothingSent
<1>2. Ending' = Ending
  BY DEF Ending
<1> QED
  BY <1>1, <1>2 DEF Client!protocolVars

\* Every step of the handler is a step of the protocol, or one that the client does not see.
LEMMA HandlerFollows ==
  ASSUME StreamInv, ClientInv, OutcomeInv, Handler, ClientInv'
  PROVE  Client!Next \/ UNCHANGED Client!protocolVars
<1> DEFINE Listing == {"lookup", "scan", "results", "updates"}
<1>0. /\ TypeOK /\ CursorInv /\ CardInv /\ ResultInv /\ UpdateInv /\ CheckedInv /\ CheckedInv'
      /\ n \in 0..MaxBooks /\ 1..n \subseteq Books
  BY SearchAssumption DEF StreamInv, ClientInv, TypeOK, Books
<1>1. CASE Refuse \/ ShelfFails
  <2>1. /\ pc \in {"params", "fetching"} /\ pc' = "returned" /\ UNCHANGED <<n, outcome>>
        /\ Shown' = Shown /\ Patched' = Patched /\ Len(wire') = Len(wire) + 1
    BY <1>0, <1>1, SaySent DEF Refuse, ShelfFails, EventTypes
  <2>2. ~Checked /\ outcome = "error"
    BY <1>0, <2>1 DEF CheckedInv, OutcomeInv
  <2>3. Phase = "open" /\ Phase' = "closed" /\ Ending' = "error"
    BY <2>1, <2>2, PhaseOf
  <2> QED
    BY <2>1, <2>3 DEF Client!Next, Client!Error
<1>2. CASE ShelfEmpty
  <2>1. /\ pc = "fetching" /\ pc' = "returned" /\ outcome' = "ok" /\ UNCHANGED n
        /\ Shown' = Shown /\ Patched' = Patched /\ Len(wire') = Len(wire) + 1
    BY <1>0, <1>2, SaySent DEF ShelfEmpty, EventTypes
  <2>2. ~Checked /\ n = 0 /\ Shown = {}
    BY <1>0, <2>1 DEF CheckedInv, CursorInv, CardInv
  <2>3. Phase = "open" /\ Phase' = "closed" /\ Ending' = "done"
    BY <2>1, <2>2, PhaseOf
  <2>4. Shown = 1..n
    BY <2>2
  <2> QED
    BY <2>1, <2>3, <2>4 DEF Client!Next, Client!Done
<1>3. CASE ShelfFetched
  <2>1. /\ pc = "fetching" /\ pc' = "lookup" /\ n' \in 1..MaxBooks
        /\ Shown' = Shown /\ Patched' = Patched /\ Len(wire') = Len(wire) + 1
    BY <1>0, <1>3, SaySent DEF ShelfFetched, EventTypes
  <2>2. ~Checked /\ ~Checked'
    BY <1>0, <2>1 DEF CheckedInv
  <2>3. Phase = "open" /\ Phase' = "listed" /\ Ending' = Ending
    BY <2>1, <2>2, PhaseOf
  <2> QED
    BY <2>1, <2>3 DEF Client!Next, Client!List
<1>4. CASE Accept \/ ReadCache \/ QueueMiss \/ Spawn
  <2>1. /\ UNCHANGED <<wire, n, outcome>> /\ pc # "returned" /\ pc' # "returned"
        /\ pc' \in Listing <=> pc \in Listing
    BY <1>4 DEF Accept, ReadCache, QueueMiss, Spawn
  <2>2. Checked' <=> Checked
    BY <2>1, NothingSent
  <2>3. Phase' = Phase
    BY <2>1, <2>2, PhaseOf
  <2> QED
    BY <2>1, <2>3, UnseenStep
<1>5. CASE ServeHit
  <2>1. /\ cursor \in 1..n /\ pc = "scan" /\ pc' = pc /\ UNCHANGED n
        /\ Shown' = Shown \union {cursor} /\ Patched' = Patched /\ Len(wire') = Len(wire) + 1
    BY <1>0, <1>5, CardSent DEF ServeHit, CursorInv
  <2>2. cursor \notin Shown
    BY <1>0, <2>1 DEF CardInv
  <2>3. ~Checked /\ ~Checked'
    BY <1>0, <2>1 DEF CheckedInv
  <2>4. Phase = "listed" /\ Phase' = Phase /\ Ending' = Ending
    BY <2>1, <2>3, PhaseOf
  <2> QED
    BY <2>1, <2>2, <2>4 DEF Client!Next, Client!Show
<1>6. CASE ReceiveResult \/ ReceiveUpdate
  <2>1. CASE gone
    <3>1. /\ pc \in {"results", "updates"} /\ pc' = "returned" /\ outcome' = "canceled"
          /\ UNCHANGED <<n, wire>>
      BY <1>6, <2>1 DEF ReceiveResult, ReceiveUpdate
    <3>2. Phase \in {"listed", "checked"} /\ Phase' = "closed" /\ Ending' = "cut"
      BY <3>1, PhaseOf
    <3> QED
      BY <3>1, <3>2, NothingSent DEF Client!Next, Client!Cut
  <2>2. CASE ReceiveResult /\ ~gone
    <3> DEFINE b == Head(resultCh)
    <3>1. /\ resultCh # <<>> /\ resultCh \in Seq(Books) /\ pc = "results" /\ pc' = pc /\ UNCHANGED n
          /\ Send(Card(b))
      BY <1>0, <2>2 DEF ReceiveResult, TypeOK
    <3>2. b \in Holds(resultCh) /\ b \in Books
      BY <1>0, <3>1, ChannelReceives DEF ResultInv, Holds
    <3> HIDE DEF b
    <3>3. Shown' = Shown \union {b} /\ Patched' = Patched /\ Len(wire') = Len(wire) + 1
      BY <1>0, <3>1, <3>2, CardSent
    <3>4. b \in (1..n) \ Shown
      <4>1. g[b].pc # "none" /\ b <= n
        BY <1>0, <3>2 DEF ResultInv, CardInv, Senders, Delivered
      <4>2. b \in 1..n
        BY <1>0, <3>2, <4>1 DEF Books
      <4> QED
        BY <1>0, <3>1, <3>2, <4>1, <4>2 DEF CardInv
    <3>5. ~Checked /\ ~Checked'
      BY <1>0, <3>1 DEF CheckedInv
    <3>6. Phase = "listed" /\ Phase' = Phase /\ Ending' = Ending
      BY <3>1, <3>5, PhaseOf
    <3> QED
      BY <3>1, <3>3, <3>4, <3>6 DEF Client!Next, Client!Show
  <2>3. CASE ReceiveUpdate /\ ~gone
    <3> DEFINE b == Head(updateCh)
    <3>1. /\ updateCh # <<>> /\ updateCh \in Seq(Books) /\ pc = "updates" /\ pc' = pc /\ UNCHANGED n
          /\ Send(Update(b))
      BY <1>0, <2>3 DEF ReceiveUpdate, TypeOK
    <3>2. b \in Holds(updateCh) /\ b \in Books
      BY <1>0, <3>1, ChannelReceives DEF UpdateInv, Holds
    <3> HIDE DEF b
    <3>3. /\ Shown' = Shown /\ Patched' = Patched \union {b} /\ (Checked' <=> Checked)
          /\ Len(wire') = Len(wire) + 1
      BY <1>0, <3>1, <3>2, UpdateSent
    <3>4. b \in ToFetch /\ b \notin Patched
      BY <1>0, <3>2 DEF UpdateInv, Enders, ToFetch
    <3>5. b \in Shown
      <4>1. g[b].pc # "none" /\ b <= n
        BY <1>0, <3>4 DEF ToFetch, CardInv
      <4> QED
        BY <1>0, <3>1, <3>2, <4>1 DEF CardInv, Books
    <3>6. Checked
      BY <1>0, <2>3, <3>1, <3>4 DEF CheckedInv
    <3>7. Phase = "checked" /\ Phase' = Phase /\ Ending' = Ending
      BY <3>1, <3>3, <3>6, PhaseOf
    <3> QED
      BY <3>1, <3>3, <3>4, <3>5, <3>7 DEF Client!Next, Client!Fill
  <2> QED
    BY <1>6, <2>1, <2>2, <2>3
<1>7. CASE ResultsEnd
  <2>1. /\ pc = "results" /\ pc' = "updates" /\ UNCHANGED <<n, outcome, g>>
    BY <1>7 DEF ResultsEnd, bookVars
  <2>2. ~Checked /\ Shown' = 1..n'
    BY <1>0, <2>1 DEF CheckedInv, CardInv, ClientInv
  <2>3. CASE ToFetch # {} /\ ~gone
    <3>1. /\ Shown' = Shown /\ Patched' = Patched /\ Checked' /\ Len(wire') = Len(wire) + 1
      BY <1>0, <1>7, <2>3, SaySent DEF ResultsEnd, EventTypes
    <3>2. 1..n # {} /\ Shown = 1..n
      <4>1. PICK b \in Books : g[b].pc # "none"
        BY <2>3 DEF ToFetch
      <4>2. b \in 1..n
        BY <1>0, <4>1 DEF CardInv, Books
      <4> QED
        BY <2>1, <2>2, <3>1, <4>2
    <3>3. Phase = "listed" /\ Phase' = "checked" /\ Ending' = Ending
      BY <2>1, <2>2, <3>1, PhaseOf
    <3> QED
      BY <2>1, <3>1, <3>2, <3>3 DEF Client!Next, Client!AllChecked
  <2>4. CASE ~(ToFetch # {} /\ ~gone)
    <3>1. UNCHANGED wire
      BY <1>7, <2>4 DEF ResultsEnd
    <3>2. ~Checked'
      BY <2>2, <3>1, NothingSent
    <3>3. Phase' = Phase
      BY <2>1, <2>2, <3>2, PhaseOf
    <3> QED
      BY <2>1, <3>1, <3>3, UnseenStep
  <2> QED
    BY <2>3, <2>4
<1>8. CASE UpdatesEnd
  <2>1. /\ pc = "updates" /\ pc' = "returned" /\ outcome' = "ok" /\ UNCHANGED n
        /\ Shown' = Shown /\ Patched' = Patched /\ Len(wire') = Len(wire) + 1
    BY <1>0, <1>8, SaySent DEF UpdatesEnd, EventTypes
  <2>2. Phase # "closed" /\ Phase' = "closed" /\ Ending' = "done"
    BY <2>1, PhaseOf
  <2>3. Shown = 1..n
    BY <1>0, <2>1 DEF CardInv
  <2> QED
    BY <2>1, <2>2, <2>3 DEF Client!Next, Client!Done
<1> QED
  BY <1>1, <1>2, <1>3, <1>4, <1>5, <1>6, <1>7, <1>8 DEF Handler

\* The steps of the goroutines, the heartbeat and the client are not seen.
LEMMA OthersUnseen ==
  ASSUME UNCHANGED handlerVars
  PROVE  UNCHANGED Client!protocolVars
<1>1. UNCHANGED <<pc, outcome, n, wire>>
  BY DEF handlerVars
<1>2. Checked' <=> Checked
  BY <1>1, NothingSent
<1>3. Phase' = Phase
  BY <1>1, <1>2, PhaseOf
<1> QED
  BY <1>1, <1>3, UnseenStep

\* The handler of search.go implements the protocol that results.js relies on, for every
\* shelf, every mix of hits and misses and every moment at which the client may leave:
\* the list, then one card per book, "availability_done" and "done" only when every card
\* is out, patches only for cards that are there, and nothing after the end.
THEOREM ProtocolKept == Spec => ImplementsProtocol
<1>1. Init => Client!Init
  <2> SUFFICES ASSUME Init PROVE Client!Init
    OBVIOUS
  <2>1. n = 0 /\ 1..n = {} /\ Len(wire) = 0 /\ pc = "params"
    BY DEF Init
  <2>2. Shown = {} /\ Patched = {} /\ ~Checked
    BY DEF Init, Shown, Patched, Checked, Sent
  <2>3. Phase = "open" /\ Ending = "none"
    BY <2>1, <2>2, PhaseOf
  <2> QED
    BY <2>1, <2>2, <2>3 DEF Client!Init
<1>2. StreamInv /\ ClientInv /\ OutcomeInv /\ [Next]_vars /\ ClientInv'
        => [Client!Next]_(Client!protocolVars)
  <2> SUFFICES ASSUME StreamInv, ClientInv, OutcomeInv, [Next]_vars, ClientInv'
               PROVE  Client!Next \/ UNCHANGED Client!protocolVars
    OBVIOUS
  <2>1. CASE Handler
    BY <2>1, HandlerFollows
  <2>2. CASE UNCHANGED handlerVars
    BY <2>2, OthersUnseen
  <2>3. Handler \/ UNCHANGED handlerVars
    BY DEF Next, vars, BookStep, Checks, Enrichment, Check, Deliver, EnrichBook, AcquireAz,
       AbandonAz, GetPrices, Store, Patch, HeartbeatStop, ClientLeaves, Ended
  <2> QED
    BY <2>1, <2>2, <2>3
<1> QED
  BY <1>1, <1>2, StreamInvariant, ClientInvariant, OutcomeInvariant, PTL
     DEF Spec, ImplementsProtocol, Client!Spec

=============================================================================
