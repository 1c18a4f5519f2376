------------------------- MODULE ResultsPageProofs -------------------------
(***************************************************************************)
(* What the page shows, saves and links to, for every length of the list,  *)
(* every set of books without an id and every number of readers.           *)
(*                                                                         *)
(* While a stream is open, what the server has shown is what the page has  *)
(* in allBooks and what the cards on the wire will add, each book once;    *)
(* the list is the first thing on the wire and finds the grid empty; after *)
(* the end nothing follows but the loss of the connection.                 *)
(***************************************************************************)
EXTENDS ResultsPage, FiniteSetTheorems, SequenceTheorems, TLAPS

Is(i, type) == i \in 1..Len(wire) /\ wire[i].type = type

EventTypes == {"book_stubs", "book", "availability_done", "book_update", "done", "error", "lost"}

TypeInv ==
  /\ phase \in {"open", "listed", "checked", "closed"}
  /\ listed \subseteq Books /\ shown \subseteq listed
  /\ wire \in Seq([type : EventTypes, books : SUBSET Books])
  /\ es \in {"none", "open", "closed"}
  /\ elements \in [Books -> Nat]
  /\ byId \in [Books -> {"none", "stub", "card", "filled"}]
  /\ allBooks \in Seq(Books)
  /\ status = "away" => es = "none"

GridClear ==
  /\ elements = [b \in Books |-> 0]
  /\ byId = [b \in Books |-> "none"]
  /\ allBooks = <<>>

\* The list is the first event, and finds the grid empty.
ListFirst ==
  /\ phase = "open" => wire = <<>> /\ listed = {} /\ shown = {} /\ GridClear
  /\ \A i \in 1..Len(wire) : Is(i, "book_stubs") => i = 1 /\ GridClear

\* Every card the server sent is in allBooks or on the wire, once.
CardsComing ==
  /\ ToSet(allBooks) \subseteq shown
  /\ \A i \in 1..Len(wire) : Is(i, "book") =>
       \E b \in shown \ ToSet(allBooks) : wire[i].books = {b}
  /\ \A i, j \in 1..Len(wire) :
       Is(i, "book") /\ Is(j, "book") /\ wire[i].books = wire[j].books => i = j
  /\ \A b \in shown \ ToSet(allBooks) :
       \E i \in 1..Len(wire) : Is(i, "book") /\ wire[i].books = {b}

\* Nothing follows the end but the loss of the connection.
EndIsLast ==
  /\ \A i \in 1..Len(wire) :
       wire[i].type \in {"done", "error", "lost"} => phase = "closed"
  /\ \A i, j \in 1..Len(wire) :
       wire[i].type \in {"done", "error", "lost"} /\ i < j => wire[j].type = "lost"
  /\ \A i \in 1..Len(wire) : Is(i, "done") => shown = listed

StreamInv == es = "open" => ListFirst /\ CardsComing /\ EndIsLast

GridInv == TypeInv /\ StreamInv /\ OneCardEach

\* What is saved are books.
SavedInv == SavedIsWhole /\ (saved # None => saved.books \subseteq Books)

Asked == [at : {"none", "lookup", "insert", "answer"},
          for : Searches \union {None}, token : Tokens \union {None}]

\* A request has its search, the page's own that of the page, and an answer the token that
\* leads to it.
Sound(r, q, rows) ==
  /\ q \in Asked
  /\ q.at # "none" => q.for \in Searches /\ (r \in Own => q.for = Mine)
  /\ q.at = "answer" => q.token \in Tokens /\ rows[q.token] = q.for

LinkInv ==
  /\ shortlinks \in [Tokens -> Searches \union {None}]
  /\ request \in [Requests -> Asked]
  /\ \A r \in Requests : Sound(r, request[r], shortlinks)
  /\ given \subseteq Tokens \X Searches
  /\ link \in Tokens \union {None}
  /\ LinksLast

-----------------------------------------------------------------------------
(* The wire *)

Events == [type : EventTypes, books : SUBSET Books]

\* What the server sends comes last.
LEMMA Sending ==
  ASSUME TypeInv, NEW e \in Events, Sends(e)
  PROVE  /\ wire' \in Seq(Events)
         /\ Len(wire) \in Nat /\ Len(wire') = Len(wire) + 1
         /\ wire'[Len(wire) + 1] = e
         /\ \A i \in 1..Len(wire) : wire'[i] = wire[i] /\ wire[i] \in Events
         /\ \A i \in 1..Len(wire') : i \in 1..Len(wire) \/ i = Len(wire) + 1
<1>1. wire \in Seq(Events)
  BY DEF TypeInv, Events
<1>2. wire' = Append(wire, e)
  BY DEF Sends
<1> HIDE DEF Events
<1> QED
  BY <1>1, <1>2

\* What the page dispatches is the first.
LEMMA Dispatching ==
  ASSUME TypeInv, NEW type, Dispatch(type)
  PROVE  /\ wire' \in Seq(Events)
         /\ es = "open" /\ Is(1, type) /\ Head(wire) = wire[1] /\ wire[1] \in Events
         /\ Len(wire) \in Nat /\ Len(wire') = Len(wire) - 1
         /\ \A i \in 1..Len(wire') : i + 1 \in 1..Len(wire) /\ wire'[i] = wire[i + 1]
         /\ \A i \in 1..Len(wire) : i = 1 \/ (i - 1 \in 1..Len(wire') /\ wire'[i - 1] = wire[i])
<1>1. wire \in Seq(Events) /\ wire # <<>>
  BY DEF TypeInv, Events, Dispatch
<1>2. wire' = Tail(wire) /\ Head(wire).type = type /\ es = "open"
  BY DEF Dispatch
<1> HIDE DEF Events
<1>3. Len(wire) \in Nat /\ Len(wire) >= 1 /\ Head(wire) = wire[1] /\ wire[1] \in Events
  BY <1>1
<1>4. Tail(wire) \in Seq(Events) /\ Len(Tail(wire)) = Len(wire) - 1
  BY <1>1, HeadTailProperties
<1>5. \A i \in 1..Len(Tail(wire)) : Tail(wire)[i] = wire[i + 1]
  BY <1>1, HeadTailProperties
<1> QED
  BY <1>2, <1>3, <1>4, <1>5 DEF Is

\* The first event is taken off an open stream.
LEMMA Shifted ==
  ASSUME TypeInv, ListFirst, EndIsLast, NEW type, Dispatch(type), UNCHANGED <<phase, listed, shown>>
  PROVE  ListFirst' /\ EndIsLast'
<1>1. phase # "open"
  BY DEF ListFirst, Dispatch
<1>2. ListFirst'
  BY <1>1, Dispatching DEF ListFirst, Is
<1>3. EndIsLast'
  <2>1. \A i \in 1..Len(wire') : wire'[i].type \in {"done", "error", "lost"} => phase' = "closed"
    BY Dispatching DEF EndIsLast
  <2>2. ASSUME NEW i \in 1..Len(wire'), NEW j \in 1..Len(wire'),
               wire'[i].type \in {"done", "error", "lost"}, i < j
        PROVE  wire'[j].type = "lost"
    <3>1. i + 1 \in 1..Len(wire) /\ wire'[i] = wire[i + 1]
      BY Dispatching
    <3>2. j + 1 \in 1..Len(wire) /\ wire'[j] = wire[j + 1]
      BY Dispatching
    <3> QED
      BY <2>2, <3>1, <3>2 DEF EndIsLast
  <2>3. \A i \in 1..Len(wire') : wire'[i].type = "done" => shown' = listed'
    BY Dispatching DEF EndIsLast, Is
  <2> QED
    BY <2>1, <2>2, <2>3 DEF EndIsLast, Is
<1> QED
  BY <1>2, <1>3

\* When it is no card, the cards are still coming.
LEMMA CardsStillComing ==
  ASSUME TypeInv, CardsComing, NEW type, Dispatch(type), type # "book",
         UNCHANGED <<shown, allBooks>>
  PROVE  CardsComing'
<1>1. ASSUME NEW i \in 1..Len(wire'), wire'[i].type = "book"
      PROVE  \E b \in shown \ ToSet(allBooks) : wire'[i].books = {b}
  <2>1. i + 1 \in 1..Len(wire) /\ wire'[i] = wire[i + 1]
    BY Dispatching
  <2> QED
    BY <1>1, <2>1 DEF CardsComing, Is
<1>2. ASSUME NEW i \in 1..Len(wire'), NEW j \in 1..Len(wire'),
             wire'[i].type = "book", wire'[j].type = "book", wire'[i].books = wire'[j].books
      PROVE  i = j
  <2>1. i + 1 \in 1..Len(wire) /\ wire'[i] = wire[i + 1]
    BY Dispatching
  <2>2. j + 1 \in 1..Len(wire) /\ wire'[j] = wire[j + 1]
    BY Dispatching
  <2>3. i + 1 = j + 1
    BY <1>2, <2>1, <2>2 DEF CardsComing, Is
  <2> QED
    BY <2>3
<1>3. ASSUME NEW b \in shown \ ToSet(allBooks)
      PROVE  \E i \in 1..Len(wire') : wire'[i].type = "book" /\ wire'[i].books = {b}
  <2>1. PICK i \in 1..Len(wire) : Is(i, "book") /\ wire[i].books = {b}
    BY DEF CardsComing
  <2>2. i # 1
    BY <2>1, Dispatching DEF Is
  <2>3. i - 1 \in 1..Len(wire') /\ wire'[i - 1] = wire[i]
    BY <2>2, Dispatching
  <2> QED
    BY <2>1, <2>3 DEF Is
<1>4. ToSet(allBooks)' = ToSet(allBooks) /\ shown' = shown
  BY DEF ToSet
<1> QED
  BY <1>1, <1>2, <1>3, <1>4 DEF CardsComing, Is

-----------------------------------------------------------------------------
(* The grid *)

LEMMA InitPage == Init => GridInv /\ SavedInv
<1> SUFFICES ASSUME Init PROVE GridInv /\ SavedInv
  OBVIOUS
<1>1. TypeInv
  BY DEF Init, Server!Init, TypeInv
<1>2. OneCardEach
  BY DEF Init, OneCardEach, ToSet, IsInjective
<1>3. StreamInv
  BY DEF Init, StreamInv
<1> QED
  BY <1>1, <1>2, <1>3 DEF Init, GridInv, SavedInv, SavedIsWhole

\* A stream starts with nothing listed and an empty grid.
LEMMA Cleared ==
  ASSUME NewStream, ClearGrid,
         es' \in {"none", "open"}, status' = "away" => es' = "none"
  PROVE  GridInv'
<1>1. TypeInv'
  BY DEF NewStream, ClearGrid, TypeInv
<1>2. OneCardEach'
  BY DEF ClearGrid, OneCardEach, ToSet, IsInjective
<1>3. ListFirst' /\ EndIsLast'
  BY DEF NewStream, ClearGrid, ListFirst, EndIsLast, GridClear, Is
<1>4. CardsComing'
  BY DEF NewStream, ClearGrid, CardsComing, Is, ToSet
<1> QED
  BY <1>1, <1>2, <1>3, <1>4 DEF GridInv, StreamInv

\* The server sends while the stream is open, and the page has not seen it yet.
LEMMA ServerStep ==
  ASSUME GridInv, es = "open", UNCHANGED <<es, status, gridVars>>,
         phase # "closed", phase' \in {"listed", "checked", "closed"},
         listed' \subseteq Books, shown' \subseteq listed',
         NEW e \in Events, Sends(e),
         \/ /\ e.type = "book_stubs" /\ phase = "open" /\ shown' = shown
         \/ /\ e.type = "book" /\ listed' = listed
            /\ \E b \in listed \ shown : e.books = {b} /\ shown' = shown \union {b}
         \/ /\ e.type \in {"availability_done", "book_update"}
            /\ listed' = listed /\ shown' = shown
         \/ /\ e.type \in {"done", "error", "lost"} /\ phase' = "closed"
            /\ listed' = listed /\ shown' = shown
            /\ e.type = "done" => shown = listed
  PROVE  GridInv'
<1>1. TypeInv'
  <2>1. wire' \in Seq(Events)
    BY Sending DEF GridInv
  <2> QED
    BY <2>1 DEF GridInv, TypeInv, gridVars, Events
<1>2. OneCardEach' /\ ToSet(allBooks)' = ToSet(allBooks) /\ GridClear' = GridClear
  BY DEF GridInv, OneCardEach, gridVars, ToSet, IsInjective, GridClear
<1>3. /\ Len(wire) \in Nat /\ Len(wire') = Len(wire) + 1
      /\ wire'[Len(wire) + 1] = e
      /\ \A i \in 1..Len(wire) : wire'[i] = wire[i]
      /\ \A i \in 1..Len(wire') : i \in 1..Len(wire) \/ i = Len(wire) + 1
  BY Sending DEF GridInv
<1>4. ListFirst /\ CardsComing /\ EndIsLast
  BY DEF GridInv, StreamInv
<1>5. \A i \in 1..Len(wire) : wire[i].type \notin {"done", "error", "lost"}
  BY <1>4 DEF EndIsLast
<1>6. ListFirst'
  <2>1. ASSUME NEW i \in 1..Len(wire'), wire'[i].type = "book_stubs"
        PROVE  i = 1 /\ GridClear'
    <3>1. CASE i \in 1..Len(wire)
      BY <1>2, <1>3, <1>4, <2>1, <3>1 DEF ListFirst, Is
    <3>2. CASE i = Len(wire) + 1
      <4>1. phase = "open"
        BY <1>3, <2>1, <3>2
      <4>2. wire = <<>> /\ GridClear
        BY <1>4, <4>1 DEF ListFirst
      <4> QED
        BY <1>2, <3>2, <4>2
    <3> QED
      BY <1>3, <3>1, <3>2
  <2> QED
    BY <2>1 DEF ListFirst, Is
<1>7. EndIsLast'
  BY <1>3, <1>5 DEF EndIsLast, Is
<1>8. CardsComing'
  <2>1. CASE e.type # "book"
    <3>1. shown' = shown
      BY <2>1
    <3>2. ToSet(allBooks) \subseteq shown'
      BY <1>4, <3>1 DEF CardsComing
    <3>3. \A i \in 1..Len(wire') : wire'[i].type = "book" => i \in 1..Len(wire) /\ wire'[i] = wire[i]
      BY <1>3, <2>1
    <3>4. \A i \in 1..Len(wire') : wire'[i].type = "book" =>
            \E x \in shown' \ ToSet(allBooks) : wire'[i].books = {x}
      BY <1>4, <3>1, <3>3 DEF CardsComing, Is
    <3>5. \A i, j \in 1..Len(wire') :
            wire'[i].type = "book" /\ wire'[j].type = "book" /\ wire'[i].books = wire'[j].books
              => i = j
      BY <1>4, <3>3 DEF CardsComing, Is
    <3>6. ASSUME NEW x \in shown' \ ToSet(allBooks)
          PROVE  \E i \in 1..Len(wire') : wire'[i].type = "book" /\ wire'[i].books = {x}
      <4>1. PICK i \in 1..Len(wire) : wire[i].type = "book" /\ wire[i].books = {x}
        BY <1>4, <3>1 DEF CardsComing, Is
      <4> QED
        BY <1>3, <4>1
    <3> QED
      BY <1>2, <3>2, <3>4, <3>5, <3>6 DEF CardsComing, Is
  <2>2. CASE e.type = "book"
    <3>1. PICK b \in listed \ shown : e.books = {b} /\ shown' = shown \union {b}
      BY <2>2
    <3>2. b \notin ToSet(allBooks)
      BY <1>4, <3>1 DEF CardsComing
    <3>3. \A i \in 1..Len(wire) : wire[i].type = "book" => wire[i].books # {b}
      BY <1>4, <3>1 DEF CardsComing, Is
    <3>4. ToSet(allBooks)' \subseteq shown'
      BY <1>2, <1>4, <3>1 DEF CardsComing
    <3>5. \A i \in 1..Len(wire') : wire'[i].type = "book" =>
            \E x \in shown' \ ToSet(allBooks) : wire'[i].books = {x}
      BY <1>3, <1>4, <3>1, <3>2 DEF CardsComing, Is
    <3>6. \A i, j \in 1..Len(wire') :
            wire'[i].type = "book" /\ wire'[j].type = "book" /\ wire'[i].books = wire'[j].books
              => i = j
      BY <1>3, <1>4, <3>1, <3>3 DEF CardsComing, Is
    <3>7. ASSUME NEW x \in shown' \ ToSet(allBooks)
          PROVE  \E i \in 1..Len(wire') : wire'[i].type = "book" /\ wire'[i].books = {x}
      <4>1. CASE x = b
        <5>1. Len(wire) + 1 \in 1..Len(wire')
          BY <1>3
        <5> QED
          BY <1>3, <2>2, <3>1, <4>1, <5>1
      <4>2. CASE x # b
        <5>1. PICK i \in 1..Len(wire) : wire[i].type = "book" /\ wire[i].books = {x}
          BY <1>4, <3>1, <4>2 DEF CardsComing, Is
        <5> QED
          BY <1>3, <5>1
      <4> QED
        BY <4>1, <4>2
    <3> QED
      BY <1>2, <3>4, <3>5, <3>6, <3>7 DEF CardsComing, Is
  <2> QED
    BY <2>1, <2>2
<1> QED
  BY <1>1, <1>2, <1>6, <1>7, <1>8 DEF GridInv, StreamInv

\* The card of a book: its place is made or replaced, and the book was not in allBooks.
LEMMA CardStep ==
  ASSUME GridInv, OnBook
  PROVE  GridInv'
<1>1. Dispatch("book") /\ UNCHANGED <<phase, listed, shown, es, status>>
  BY DEF OnBook, serverVars
<1>2. TypeInv /\ ListFirst /\ CardsComing /\ EndIsLast /\ OneCardEach
  BY <1>1 DEF GridInv, StreamInv, Dispatch
<1>3. Is(1, "book") /\ Head(wire) = wire[1]
  BY <1>1, <1>2, Dispatching
<1>4. PICK b \in shown \ ToSet(allBooks) : wire[1].books = {b}
  BY <1>2, <1>3 DEF CardsComing, Is
<1>5. /\ b \in Books
      /\ allBooks' = Append(allBooks, b)
      /\ elements' = [elements EXCEPT ![b] = IF byId[b] = "none" THEN @ + 1 ELSE @]
      /\ byId' = [byId EXCEPT ![b] = IF b \in Anonymous THEN "none" ELSE "card"]
  BY <1>2, <1>3, <1>4 DEF OnBook, TypeInv
<1>6. allBooks \in Seq(Books)
  BY <1>2 DEF TypeInv
<1>7. /\ allBooks' \in Seq(Books)
      /\ Len(allBooks) \in Nat /\ Len(allBooks') = Len(allBooks) + 1
      /\ allBooks'[Len(allBooks) + 1] = b
      /\ \A i \in 1..Len(allBooks) : allBooks'[i] = allBooks[i]
      /\ DOMAIN allBooks = 1..Len(allBooks) /\ DOMAIN allBooks' = 1..Len(allBooks')
  BY <1>5, <1>6
<1>8. \A i \in 1..Len(allBooks') : i \in 1..Len(allBooks) \/ i = Len(allBooks) + 1
  BY <1>7
<1>9. ToSet(allBooks)' = ToSet(allBooks) \union {b}
  <2>1. ToSet(allBooks)' \subseteq ToSet(allBooks) \union {b}
    BY <1>7, <1>8 DEF ToSet
  <2>2. b \in ToSet(allBooks)'
    <3>1. Len(allBooks) + 1 \in 1..Len(allBooks')
      BY <1>7
    <3> QED
      BY <1>7, <3>1 DEF ToSet
  <2>3. ToSet(allBooks) \subseteq ToSet(allBooks)'
    <3>1. \A i \in 1..Len(allBooks) : i \in 1..Len(allBooks')
      BY <1>7
    <3> QED
      BY <1>7, <3>1 DEF ToSet
  <2> QED
    BY <2>1, <2>2, <2>3
<1>10. TypeInv'
  <2>1. elements' \in [Books -> Nat] /\ byId' \in [Books -> {"none", "stub", "card", "filled"}]
    BY <1>2, <1>5 DEF TypeInv
  <2>2. wire' \in Seq([type : EventTypes, books : SUBSET Books])
    BY <1>1, <1>2, Dispatching DEF Events
  <2> QED
    BY <1>1, <1>2, <1>7, <2>1, <2>2 DEF TypeInv
<1>11. OneCardEach'
  <2>1. IsInjective(allBooks)'
    <3>1. \A i \in 1..Len(allBooks) : allBooks[i] # b
      BY <1>4, <1>7 DEF ToSet
    <3> QED
      BY <1>2, <1>7, <1>8, <3>1 DEF OneCardEach, IsInjective
  <2>2. ASSUME NEW x \in Books \ Anonymous
        PROVE  /\ elements'[x] = IF byId'[x] = "none" THEN 0 ELSE 1
               /\ (x \in ToSet(allBooks)') <=> (byId'[x] \in {"card", "filled"})
    <3>1. CASE x = b
      BY <1>2, <1>5, <1>9, <3>1 DEF OneCardEach, TypeInv
    <3>2. CASE x # b
      BY <1>2, <1>5, <1>9, <3>2 DEF OneCardEach, TypeInv
    <3> QED
      BY <3>1, <3>2
  <2> QED
    BY <2>1, <2>2 DEF OneCardEach
<1>12. ListFirst' /\ EndIsLast'
  BY <1>1, <1>2, Shifted
<1>13. CardsComing'
  <2>1. ToSet(allBooks)' \subseteq shown'
    BY <1>1, <1>2, <1>4, <1>9 DEF CardsComing
  <2>2. \A i \in 1..Len(wire') : i + 1 \in 1..Len(wire) /\ wire'[i] = wire[i + 1] /\ i + 1 # 1
    BY <1>1, <1>2, Dispatching
  <2>3. ASSUME NEW i \in 1..Len(wire'), wire'[i].type = "book"
        PROVE  \E x \in shown' \ ToSet(allBooks)' : wire'[i].books = {x}
    <3>1. Is(i + 1, "book") /\ wire'[i] = wire[i + 1]
      BY <2>2, <2>3 DEF Is
    <3>2. PICK x \in shown \ ToSet(allBooks) : wire[i + 1].books = {x}
      BY <1>2, <3>1 DEF CardsComing, Is
    <3>3. 1 \in 1..Len(wire) /\ i + 1 # 1
      BY <1>3, <2>2 DEF Is
    <3>4. wire[i + 1].books # wire[1].books
      BY <1>2, <1>3, <3>1, <3>3 DEF CardsComing, Is
    <3> QED
      BY <1>1, <1>4, <1>9, <3>1, <3>2, <3>4
  <2>4. ASSUME NEW i \in 1..Len(wire'), NEW j \in 1..Len(wire'),
               wire'[i].type = "book", wire'[j].type = "book", wire'[i].books = wire'[j].books
        PROVE  i = j
    <3>1. i + 1 = j + 1
      BY <1>2, <2>2, <2>4 DEF CardsComing, Is
    <3> QED
      BY <3>1
  <2>5. ASSUME NEW x \in shown' \ ToSet(allBooks)'
        PROVE  \E i \in 1..Len(wire') : wire'[i].type = "book" /\ wire'[i].books = {x}
    <3>1. x \in shown \ ToSet(allBooks) /\ x # b
      BY <1>1, <1>9
    <3>2. PICK i \in 1..Len(wire) : Is(i, "book") /\ wire[i].books = {x}
      BY <1>2, <3>1 DEF CardsComing
    <3>3. i # 1
      BY <1>4, <3>1, <3>2
    <3>4. i - 1 \in 1..Len(wire') /\ wire'[i - 1] = wire[i]
      BY <1>1, <1>2, <3>3, Dispatching
    <3> QED
      BY <3>2, <3>4 DEF Is
  <2> QED
    BY <2>1, <2>3, <2>4, <2>5 DEF CardsComing, Is
<1> QED
  BY <1>10, <1>11, <1>12, <1>13 DEF GridInv, StreamInv

\* The other events of an open stream; the last one closes it.
LEMMA EventStep ==
  ASSUME GridInv, OnStubs \/ OnAvailabilityDone \/ OnUpdate \/ OnDone \/ OnError \/ OnLost
  PROVE  GridInv'
<1>1. TypeInv /\ OneCardEach
  BY DEF GridInv
<1>2. ASSUME NEW type, type \in EventTypes \ {"book"}, Dispatch(type),
             UNCHANGED <<phase, listed, shown, allBooks>>,
             status' = status \/ status' # "away",
             es' \in {"open", "closed"},
             elements' \in [Books -> Nat],
             byId' \in [Books -> {"none", "stub", "card", "filled"}],
             OneCardEach'
      PROVE  GridInv'
  <2>1. es = "open" /\ wire' \in Seq([type : EventTypes, books : SUBSET Books])
    BY <1>1, <1>2, Dispatching DEF Events
  <2>2. TypeInv'
    BY <1>1, <1>2, <2>1 DEF TypeInv
  <2>3. ListFirst /\ CardsComing /\ EndIsLast
    BY <2>1 DEF GridInv, StreamInv
  <2>4. ListFirst' /\ EndIsLast'
    BY <1>1, <1>2, <2>3, Shifted
  <2>5. CardsComing'
    BY <1>1, <1>2, <2>3, CardsStillComing
  <2> QED
    BY <1>2, <2>2, <2>4, <2>5 DEF GridInv, StreamInv
<1>3. ASSUME UNCHANGED gridVars
      PROVE  /\ OneCardEach' /\ elements' \in [Books -> Nat]
             /\ byId' \in [Books -> {"none", "stub", "card", "filled"}] /\ allBooks' = allBooks
  BY <1>1, <1>3 DEF gridVars, OneCardEach, ToSet, IsInjective, TypeInv
<1>4. CASE OnAvailabilityDone
  BY <1>2, <1>3, <1>4 DEF OnAvailabilityDone, serverVars, EventTypes, Dispatch
<1>5. CASE OnDone
  BY <1>2, <1>3, <1>5 DEF OnDone, serverVars, EventTypes, TypeInv
<1>6. CASE OnError
  BY <1>2, <1>3, <1>6 DEF OnError, serverVars, EventTypes, TypeInv
<1>7. CASE OnLost
  BY <1>2, <1>3, <1>7 DEF OnLost, serverVars, EventTypes, TypeInv
<1>8. CASE OnStubs
  <2>1. Is(1, "book_stubs") /\ es = "open"
    BY <1>1, <1>8, Dispatching DEF OnStubs
  <2>2. GridClear
    BY <2>1 DEF GridInv, StreamInv, ListFirst, Is
  <2>3. PICK stubs : stubs = Head(wire).books
    OBVIOUS
  <2>4. /\ elements' = [b \in Books |-> IF b \in stubs THEN 1 ELSE 0]
        /\ byId' = [b \in Books |-> IF b \in stubs \ Anonymous THEN "stub" ELSE "none"]
        /\ allBooks' = <<>>
    BY <1>8, <2>2, <2>3 DEF OnStubs, GridClear
  <2>5. OneCardEach'
    BY <2>4 DEF OneCardEach, ToSet, IsInjective
  <2> QED
    BY <1>2, <1>8, <2>1, <2>4, <2>5 DEF OnStubs, serverVars, EventTypes
<1>9. CASE OnUpdate
  <2>1. byId' \in [Books -> {"none", "stub", "card", "filled"}]
    BY <1>1, <1>9 DEF OnUpdate, TypeInv
  <2>2. OneCardEach'
    <3>1. PICK b : byId' = IF b \notin Anonymous /\ b \in ToSet(allBooks)
                             THEN [byId EXCEPT ![b] = "filled"] ELSE byId
      BY <1>9 DEF OnUpdate
    <3>2. UNCHANGED <<elements, allBooks>>
      BY <1>9 DEF OnUpdate
    <3> QED
      BY <1>1, <3>1, <3>2 DEF OneCardEach, TypeInv, ToSet, IsInjective
  <2> QED
    BY <1>1, <1>2, <1>9, <2>1, <2>2 DEF OnUpdate, serverVars, EventTypes, TypeInv, Dispatch
<1> QED
  BY <1>4, <1>5, <1>6, <1>7, <1>8, <1>9

\* A list as long as its set, with all of it, has nothing twice.
LEMMA OntoIsInjective ==
  ASSUME NEW S, IsFiniteSet(S), NEW n \in Nat, n = Cardinality(S), NEW f \in [1..n -> S],
         \A x \in S : \E i \in 1..n : f[i] = x
  PROVE  IsInjective(f)
<1> SUFFICES ASSUME NEW a \in 1..n, NEW b \in 1..n, f[a] = f[b], a # b
             PROVE  FALSE
  BY DEF IsInjective
<1> DEFINE g == [i \in 1..n - 1 |-> f[IF i < a THEN i ELSE i + 1]]
<1>1. g \in [1..n - 1 -> S]
  OBVIOUS
<1>2. ASSUME NEW x \in S PROVE \E i \in 1..n - 1 : g[i] = x
  <2>1. PICK i \in 1..n : f[i] = x /\ i # a
    <3>1. PICK j \in 1..n : f[j] = x
      OBVIOUS
    <3> QED
      BY <3>1
  <2>2. CASE i < a
    BY <2>1, <2>2
  <2>3. CASE i > a
    <3>1. i - 1 \in 1..n - 1 /\ ~(i - 1 < a) /\ i - 1 + 1 = i
      BY <2>3
    <3> QED
      BY <2>1, <3>1
  <2> QED
    BY <2>1, <2>2, <2>3
<1>3. ExistsSurjection(1..n - 1, S)
  <2>1. g \in Surjection(1..n - 1, S)
    BY <1>1, <1>2 DEF Surjection
  <2> QED
    BY <2>1 DEF ExistsSurjection
<1>4. Cardinality(S) <= n - 1
  BY <1>3, FS_SurjCardinalityBound
<1> QED
  BY <1>4

\* Saved results come back with one card each.
LEMMA VisitStep ==
  ASSUME GridInv, SavedInv, Visit
  PROVE  GridInv'
<1>1. CASE StartStream
  BY <1>1, Cleared DEF StartStream
<1>2. CASE ~StartStream
  <2>1. /\ saved # None /\ status = "away" /\ status' = "done"
        /\ elements' = [b \in Books |-> IF b \in saved.books THEN 1 ELSE 0]
        /\ byId' = [b \in Books |-> IF b \in saved.books \ Anonymous THEN "card" ELSE "none"]
        /\ allBooks' \in [1..Cardinality(saved.books) -> saved.books]
        /\ \A b \in saved.books : \E i \in DOMAIN allBooks' : allBooks'[i] = b
        /\ UNCHANGED <<serverVars, wire, es>>
    BY <1>2 DEF Visit
  <2>2. PICK S : S = saved.books /\ S \subseteq Books
    BY <2>1 DEF SavedInv
  <2>3. PICK n : n = Cardinality(S)
    OBVIOUS
  <2>4. IsFiniteSet(S) /\ n \in Nat
    <3>1. IsFiniteSet(Books)
      BY PageAssumption, FS_Interval DEF Books
    <3> QED
      BY <2>2, <2>3, <3>1, FS_Subset, FS_CardinalityType
  <2>5. allBooks' \in [1..n -> S] /\ \A b \in S : \E i \in 1..n : allBooks'[i] = b
    BY <2>1, <2>2, <2>3
  <2>6. IsInjective(allBooks)'
    <3>1. PICK f : f = allBooks'
      OBVIOUS
    <3>2. IsInjective(f)
      BY <2>3, <2>4, <2>5, <3>1, OntoIsInjective
    <3> QED
      BY <3>1, <3>2 DEF IsInjective
  <2>7. ToSet(allBooks)' = S /\ allBooks' \in Seq(Books)
    BY <2>2, <2>4, <2>5 DEF ToSet
  <2>8. OneCardEach'
    BY <2>1, <2>2, <2>6, <2>7 DEF OneCardEach
  <2>9. TypeInv'
    BY <2>1, <2>7 DEF GridInv, TypeInv, serverVars
  <2>10. es' # "open"
    BY <2>1 DEF GridInv, TypeInv
  <2> QED
    BY <2>8, <2>9, <2>10 DEF GridInv, StreamInv
<1> QED
  BY <1>1, <1>2

\* The connection breaks, before the end of the stream or after it.
LEMMA BreakStep ==
  ASSUME GridInv, Break
  PROVE  GridInv'
<1>1. PICK e \in Events : Sends(e) /\ e.type = "lost"
  <2>1. Event("lost", {}) \in Events /\ Event("lost", {}).type = "lost"
    BY DEF Event, Events, EventTypes
  <2> QED
    BY <2>1 DEF Break
<1>2. /\ es = "open" /\ phase' = "closed"
      /\ UNCHANGED <<listed, shown, es, status, gridVars>>
  BY DEF Break
<1>3. TypeInv /\ OneCardEach /\ ListFirst /\ CardsComing /\ EndIsLast
  BY <1>2 DEF GridInv, StreamInv
<1>4. /\ wire' \in Seq(Events)
      /\ Len(wire) \in Nat /\ Len(wire') = Len(wire) + 1
      /\ wire'[Len(wire) + 1] = e
      /\ \A i \in 1..Len(wire) : wire'[i] = wire[i]
      /\ \A i \in 1..Len(wire') : i \in 1..Len(wire) \/ i = Len(wire) + 1
  BY <1>1, <1>3, Sending
<1>5. TypeInv'
  BY <1>2, <1>3, <1>4 DEF TypeInv, gridVars, Events
<1>6. OneCardEach' /\ ToSet(allBooks)' = ToSet(allBooks) /\ GridClear' = GridClear
  BY <1>2, <1>3 DEF OneCardEach, gridVars, ToSet, IsInjective, GridClear
<1>7. ListFirst' /\ EndIsLast'
  BY <1>1, <1>2, <1>3, <1>4, <1>6 DEF ListFirst, EndIsLast, Is
<1>8. \A i \in 1..Len(wire') : wire'[i].type = "book" => i \in 1..Len(wire) /\ wire'[i] = wire[i]
  BY <1>1, <1>4
<1>9. CardsComing'
  <2>1. \A i \in 1..Len(wire') : wire'[i].type = "book" =>
          \E b \in shown \ ToSet(allBooks) : wire'[i].books = {b}
    BY <1>3, <1>8 DEF CardsComing, Is
  <2>2. \A i, j \in 1..Len(wire') :
          wire'[i].type = "book" /\ wire'[j].type = "book" /\ wire'[i].books = wire'[j].books
            => i = j
    BY <1>3, <1>8 DEF CardsComing, Is
  <2>3. ASSUME NEW b \in shown \ ToSet(allBooks)
        PROVE  \E i \in 1..Len(wire') : wire'[i].type = "book" /\ wire'[i].books = {b}
    <3>1. PICK i \in 1..Len(wire) : wire[i].type = "book" /\ wire[i].books = {b}
      BY <1>3 DEF CardsComing, Is
    <3> QED
      BY <1>4, <3>1
  <2> QED
    BY <1>2, <1>3, <1>6, <2>1, <2>2, <2>3 DEF CardsComing, Is
<1> QED
  BY <1>5, <1>6, <1>7, <1>9 DEF GridInv, StreamInv

\* The first results of a search, and what is saved of them, through every step.
LEMMA NextPage == GridInv /\ SavedInv /\ [Next]_vars => GridInv' /\ SavedInv'
<1> SUFFICES ASSUME GridInv, SavedInv, [Next]_vars PROVE GridInv' /\ SavedInv'
  OBVIOUS
<1>1. ASSUME UNCHANGED <<serverVars, wire, es, status, gridVars>> PROVE GridInv'
  <2> USE <1>1 DEF serverVars, gridVars
  <2>1. TypeInv'
    BY DEF GridInv, TypeInv
  <2>2. OneCardEach'
    BY DEF GridInv, OneCardEach, ToSet, IsInjective
  <2>3. ListFirst => ListFirst'
    BY DEF ListFirst, GridClear, Is
  <2>4. CardsComing => CardsComing'
    BY DEF CardsComing, Is, ToSet
  <2>5. EndIsLast => EndIsLast'
    BY DEF EndIsLast, Is
  <2> QED
    BY <2>1, <2>2, <2>3, <2>4, <2>5 DEF GridInv, StreamInv
<1>2. ASSUME saved' \in {saved, None} PROVE SavedInv'
  BY <1>2 DEF SavedInv, SavedIsWhole
<1>3. CASE ServerSends
  <2>1. es = "open" /\ UNCHANGED <<es, status, gridVars>> /\ saved' = saved
    BY <1>3 DEF ServerSends
  <2>2. TypeInv
    BY DEF GridInv
  <2>3. CASE Server!List /\ Sends(Event("book_stubs", listed'))
    <3>1. /\ phase = "open" /\ phase' = "listed" /\ shown' = shown /\ listed' \subseteq Books
          /\ shown' \subseteq listed'
      <4>1. phase = "open" /\ phase' = "listed" /\ shown' = shown
        BY <2>3 DEF Server!List
      <4>2. shown = {}
        BY <2>1, <4>1 DEF GridInv, StreamInv, ListFirst
      <4>3. listed' \subseteq Books
        BY <2>3, PageAssumption DEF Server!List, Books
      <4> QED
        BY <4>1, <4>2, <4>3
    <3>2. Event("book_stubs", listed') \in Events
      BY <3>1 DEF Event, Events, EventTypes
    <3> QED
      BY <1>2, <2>1, <2>3, <3>1, <3>2, ServerStep DEF Event
  <2>4. CASE Server!Show /\ Sends(Event("book", shown' \ shown))
    <3>1. PICK b \in listed \ shown : shown' = shown \union {b}
      BY <2>4 DEF Server!Show
    <3>2. phase = "listed" /\ phase' = "listed" /\ listed' = listed
      BY <2>4 DEF Server!Show
    <3>3. shown' \ shown = {b} /\ b \in Books
      BY <2>2, <3>1 DEF TypeInv
    <3>4. Event("book", shown' \ shown) \in Events
      BY <3>3 DEF Event, Events, EventTypes
    <3> QED
      BY <1>2, <2>1, <2>2, <2>4, <3>1, <3>2, <3>3, <3>4, ServerStep DEF Event, TypeInv
  <2>5. CASE Server!AllChecked /\ Sends(Event("availability_done", {}))
    <3>1. Event("availability_done", {}) \in Events
      BY DEF Event, Events, EventTypes
    <3> QED
      BY <1>2, <2>1, <2>2, <2>5, <3>1, ServerStep DEF Event, TypeInv, Server!AllChecked
  <2>6. CASE Server!Fill /\ Sends(Event("book_update", patched' \ patched))
    <3>1. PICK e : e = Event("book_update", patched' \ patched)
      OBVIOUS
    <3>2. e \in Events
      <4>1. patched' \ patched \subseteq shown
        BY <2>6 DEF Server!Fill
      <4> QED
        BY <2>2, <3>1, <4>1 DEF Event, Events, EventTypes, TypeInv
    <3>3. e.type = "book_update"
      BY <3>1 DEF Event
    <3>4. phase = "checked" /\ phase' = "checked" /\ listed' = listed /\ shown' = shown /\ Sends(e)
      BY <2>6, <3>1 DEF Server!Fill
    <3> QED
      BY <1>2, <2>1, <2>2, <3>2, <3>3, <3>4, ServerStep DEF TypeInv
  <2>7. CASE Server!Done /\ Sends(Event("done", {}))
    <3>1. Event("done", {}) \in Events
      BY DEF Event, Events, EventTypes
    <3> QED
      BY <1>2, <2>1, <2>2, <2>7, <3>1, ServerStep DEF Event, TypeInv, Server!Done
  <2>8. CASE Server!Error /\ Sends(Event("error", {}))
    <3>1. Event("error", {}) \in Events
      BY DEF Event, Events, EventTypes
    <3> QED
      BY <1>2, <2>1, <2>2, <2>8, <3>1, ServerStep DEF Event, TypeInv, Server!Error
  <2> QED
    BY <1>3, <2>3, <2>4, <2>5, <2>6, <2>7, <2>8 DEF ServerSends
<1>4. CASE Break
  BY <1>2, <1>4, BreakStep DEF Break
<1>5. CASE OnBook
  BY <1>2, <1>5, CardStep DEF OnBook
<1>6. CASE OnStubs \/ OnAvailabilityDone \/ OnUpdate \/ OnError \/ OnLost
  <2>1. saved' = saved
    BY <1>6 DEF OnStubs, OnAvailabilityDone, OnUpdate, OnError, OnLost
  <2> QED
    BY <1>2, <1>6, <2>1, EventStep
<1>7. CASE OnDone
  <2>1. Dispatch("done") /\ saved' = [books |-> ToSet(allBooks), of |-> listed]
    BY <1>7 DEF OnDone, Saves
  <2>2. Is(1, "done") /\ ListFirst /\ CardsComing /\ EndIsLast /\ TypeInv
    BY <2>1, Dispatching DEF GridInv, StreamInv
  <2>3. shown = listed
    BY <2>2 DEF EndIsLast, Is
  <2>4. \A i \in 1..Len(wire) : ~Is(i, "book")
    <3>1. \A i \in 1..Len(wire) : i = 1 \/ wire[i].type = "lost"
      BY <2>2 DEF EndIsLast, Is
    <3> QED
      BY <2>2, <3>1 DEF Is
  <2>5. ToSet(allBooks) = listed
    BY <2>2, <2>3, <2>4 DEF CardsComing
  <2>6. SavedInv'
    BY <2>1, <2>2, <2>5 DEF SavedInv, SavedIsWhole, TypeInv
  <2> QED
    BY <1>7, <2>6, EventStep
<1>8. CASE Visit
  BY <1>2, <1>8, VisitStep DEF Visit
<1>9. CASE Refresh
  BY <1>2, <1>9, Cleared DEF Refresh, StartStream
<1>10. CASE Leave
  BY <1>2, <1>10, Cleared DEF Leave
<1>11. CASE SavedExpires
  BY <1>1, <1>2, <1>11 DEF SavedExpires
<1>12. CASE \E r \in Requests : OtherAsks(r) \/ Create(r)
  BY <1>1, <1>2, <1>12
     DEF OtherAsks, Create, Lookup, Insert, InsertFails, Answer, AnswerLost, pageVars
<1>13. CASE UNCHANGED vars
  BY <1>1, <1>2, <1>13 DEF vars
<1> QED
  BY <1>3, <1>4, <1>5, <1>6, <1>7, <1>8, <1>9, <1>10, <1>11, <1>12, <1>13
     DEF Next, PageEvent

\* The inductive invariant of the grid, the wire and the cache.
THEOREM PageInvariant == Spec => [](GridInv /\ SavedInv)
  BY InitPage, NextPage, PTL DEF Spec

\* One place in the grid and one entry in allBooks for every book with an id, over refreshes,
\* broken streams and visits (results.js:621-622, 706-712, 741-747).
THEOREM OneCardForEachBook == Spec => []OneCardEach
<1>1. GridInv => OneCardEach
  BY DEF GridInv
<1> QED
  BY PageInvariant, <1>1, PTL

\* No results are saved but those of a whole list (results.js:755, 784).
THEOREM WholeListsSaved == Spec => []SavedIsWhole
<1>1. SavedInv => SavedIsWhole
  BY DEF SavedInv
<1> QED
  BY PageInvariant, <1>1, PTL

-----------------------------------------------------------------------------
(* Links *)

LEMMA NothingAsked ==
  /\ NoRequest \in Asked /\ NoRequest.at = "none"
  /\ \A r, rows : Sound(r, NoRequest, rows)
  BY DEF NoRequest, Asked, Sound

LEMMA InitLink == Init => LinkInv
<1> SUFFICES ASSUME Init PROVE LinkInv
  OBVIOUS
<1>1. request \in [Requests -> Asked] /\ \A r \in Requests : Sound(r, request[r], shortlinks)
  BY NothingAsked DEF Init
<1> QED
  BY <1>1 DEF Init, LinkInv, LinksLast

\* Rows stay as they are and only free tokens are taken.
LEMMA RowsStay ==
  ASSUME LinkInv, [Next]_vars
  PROVE  /\ shortlinks' \in [Tokens -> Searches \union {None}]
         /\ \A t \in Tokens : shortlinks[t] # None => shortlinks'[t] = shortlinks[t]
<1>1. CASE shortlinks' = shortlinks
  BY <1>1 DEF LinkInv
<1>2. ASSUME NEW r \in Requests, Insert(r)
      PROVE  /\ shortlinks' \in [Tokens -> Searches \union {None}]
             /\ \A t \in Tokens : shortlinks[t] # None => shortlinks'[t] = shortlinks[t]
  <2>1. PICK t \in Tokens : /\ shortlinks[t] = None
                            /\ shortlinks' = [shortlinks EXCEPT ![t] = request[r].for]
    BY <1>2 DEF Insert
  <2>2. request[r].for \in Searches
    BY <1>2 DEF Insert, LinkInv, Sound
  <2> QED
    BY <2>1, <2>2 DEF LinkInv
<1> QED
  BY <1>1, <1>2
     DEF Next, vars, linkVars, PageEvent, ServerSends, Break, OnStubs, OnBook, OnAvailabilityDone,
         OnUpdate, OnDone, OnError, OnLost, Visit, Refresh, Leave, SavedExpires, OtherAsks,
         Create, Lookup, InsertFails, Answer, AnswerLost, pageVars

\* One request moves on.
LEMMA RequestMoves ==
  ASSUME LinkInv, [Next]_vars, NEW r \in Requests, NEW q,
         request' = [request EXCEPT ![r] = q],
         Sound(r, q, shortlinks')
  PROVE  /\ request' \in [Requests -> Asked]
         /\ \A x \in Requests : Sound(x, request'[x], shortlinks')
<1>1. request' \in [Requests -> Asked]
  BY DEF LinkInv, Sound
<1>2. ASSUME NEW x \in Requests, x # r PROVE Sound(x, request'[x], shortlinks')
  <2>1. request'[x] = request[x] /\ Sound(x, request[x], shortlinks)
    BY <1>2 DEF LinkInv
  <2> QED
    BY <2>1, RowsStay, PageAssumption DEF Sound
<1>3. request'[r] = q
  BY DEF LinkInv
<1> QED
  BY <1>1, <1>2, <1>3

\* Without an answer, links and what was given out stay.
LEMMA LinksStay ==
  ASSUME LinkInv, [Next]_vars, given' = given, link' \in {link, None},
         request' \in [Requests -> Asked],
         \A x \in Requests : Sound(x, request'[x], shortlinks')
  PROVE  LinkInv'
<1>1. \A pair \in given : shortlinks'[pair[1]] = pair[2]
  BY RowsStay, PageAssumption DEF LinkInv, LinksLast, Redirect
<1>2. link' # None => shortlinks'[link'] = Mine
  BY RowsStay, PageAssumption DEF LinkInv, LinksLast, Redirect
<1> QED
  BY <1>1, <1>2, RowsStay DEF LinkInv, LinksLast, Redirect

\* The step of one request for a link.
LEMMA CreateStep ==
  ASSUME LinkInv, [Next]_vars, NEW r \in Requests, Create(r)
  PROVE  LinkInv'
<1>1. Sound(r, request[r], shortlinks) /\ request[r] \in Asked
  BY DEF LinkInv
<1>2. CASE Lookup(r)
  <2>1. PICK q : /\ request' = [request EXCEPT ![r] = q]
                 /\ \/ /\ q = [request[r] EXCEPT !.at = "insert"]
                    \/ \E t \in TokensOf(request[r].for) :
                         q = [request[r] EXCEPT !.at = "answer", !.token = t]
    <3>1. CASE request' = [request EXCEPT ![r].at = "insert"]
      BY <3>1
    <3>2. ASSUME NEW t \in TokensOf(request[r].for),
                 request' = [request EXCEPT ![r].at = "answer", ![r].token = t]
          PROVE  request' = [request EXCEPT ![r] = [request[r] EXCEPT !.at = "answer", !.token = t]]
      BY <3>2 DEF LinkInv
    <3> QED
      BY <1>2, <3>1, <3>2 DEF Lookup
  <2>2. Sound(r, q, shortlinks')
    BY <1>1, <1>2, <2>1 DEF Sound, Lookup, Asked, TokensOf
  <2> QED
    BY <1>2, <2>1, <2>2, RequestMoves, LinksStay DEF Lookup
<1>3. CASE Insert(r)
  <2>1. PICK t \in Tokens :
          /\ shortlinks[t] = None
          /\ shortlinks' = [shortlinks EXCEPT ![t] = request[r].for]
          /\ request' = [request EXCEPT ![r].at = "answer", ![r].token = t]
    BY <1>3 DEF Insert
  <2>2. PICK q : q = [request[r] EXCEPT !.at = "answer", !.token = t]
    OBVIOUS
  <2>3. request' = [request EXCEPT ![r] = q]
    BY <2>1, <2>2 DEF LinkInv
  <2>4. shortlinks'[t] = request[r].for
    BY <2>1 DEF LinkInv
  <2>5. Sound(r, q, shortlinks')
    BY <1>1, <1>3, <2>2, <2>4 DEF Sound, Insert, Asked
  <2> QED
    BY <1>3, <2>3, <2>5, RequestMoves, LinksStay DEF Insert
<1>4. CASE InsertFails(r) \/ AnswerLost(r)
  <2>1. request' = [request EXCEPT ![r] = NoRequest] /\ UNCHANGED <<given, link>>
    BY <1>4 DEF InsertFails, AnswerLost
  <2> QED
    BY <2>1, NothingAsked, RequestMoves, LinksStay
<1>5. CASE Answer(r)
  <2>1. PICK t \in Tokens : t = request[r].token /\ shortlinks[t] = request[r].for
    BY <1>1, <1>5 DEF Answer, Sound
  <2>2. /\ request[r].for \in Searches
        /\ r \in Own => request[r].for = Mine
    BY <1>1, <1>5 DEF Answer, Sound
  <2>3. /\ given' = given \union {<<t, request[r].for>>}
        /\ link' = IF r \in Own THEN t ELSE link
        /\ request' = [request EXCEPT ![r] = NoRequest]
        /\ shortlinks' = shortlinks
    BY <1>5, <2>1 DEF Answer
  <2>4. /\ request' \in [Requests -> Asked]
        /\ \A x \in Requests : Sound(x, request'[x], shortlinks')
    BY <2>3, NothingAsked, RequestMoves
  <2>5. \A pair \in given' : shortlinks'[pair[1]] = pair[2]
    BY <2>1, <2>3 DEF LinkInv, LinksLast, Redirect
  <2>6. link' # None => shortlinks'[link'] = Mine
    BY <2>1, <2>2, <2>3 DEF LinkInv, LinksLast, Redirect
  <2>7. given' \subseteq Tokens \X Searches /\ link' \in Tokens \union {None}
    BY <2>1, <2>2, <2>3 DEF LinkInv
  <2> QED
    BY <2>3, <2>4, <2>5, <2>6, <2>7 DEF LinkInv, LinksLast, Redirect
<1> QED
  BY <1>2, <1>3, <1>4, <1>5 DEF Create

LEMMA NextLink == LinkInv /\ [Next]_vars => LinkInv'
<1> SUFFICES ASSUME LinkInv, [Next]_vars PROVE LinkInv'
  OBVIOUS
<1>1. ASSUME UNCHANGED linkVars, link' \in {link, None} PROVE LinkInv'
  BY <1>1 DEF linkVars, LinkInv, LinksLast, Redirect
<1>2. ASSUME Asks, UNCHANGED <<link, shortlinks, given>> PROVE LinkInv'
  <2>1. PICK r \in Own : request[r] = NoRequest
                         /\ request' = [request EXCEPT ![r].at = "lookup", ![r].for = Mine]
    BY <1>2 DEF Asks
  <2>2. PICK q : q = [NoRequest EXCEPT !.at = "lookup", !.for = Mine]
    OBVIOUS
  <2>3. r \in Requests /\ request' = [request EXCEPT ![r] = q]
    BY <2>1, <2>2 DEF LinkInv, Requests
  <2>4. Sound(r, q, shortlinks')
    BY <2>2, PageAssumption DEF Sound, Asked, NoRequest
  <2> QED
    BY <1>2, <2>3, <2>4, RequestMoves, LinksStay
<1>3. ASSUME NEW r \in Requests, OtherAsks(r) PROVE LinkInv'
  <2>1. PICK search \in Searches :
          request' = [request EXCEPT ![r].at = "lookup", ![r].for = search]
    BY <1>3 DEF OtherAsks
  <2>2. PICK q : q = [NoRequest EXCEPT !.at = "lookup", !.for = search]
    OBVIOUS
  <2>3. request' = [request EXCEPT ![r] = q]
    BY <1>3, <2>1, <2>2 DEF LinkInv, OtherAsks
  <2>4. Sound(r, q, shortlinks')
    BY <1>3, <2>2, PageAssumption DEF Sound, Asked, NoRequest, OtherAsks
  <2> QED
    BY <1>3, <2>3, <2>4, RequestMoves, LinksStay DEF OtherAsks
<1>4. ASSUME NEW r \in Requests, Create(r) PROVE LinkInv'
  BY <1>4, CreateStep
<1>5. CASE Leave
  <2>1. /\ request' = [r \in Requests |-> IF r \in Own THEN NoRequest ELSE request[r]]
        /\ link' = None /\ UNCHANGED <<shortlinks, given>>
    BY <1>5 DEF Leave
  <2>2. /\ request' \in [Requests -> Asked]
        /\ \A x \in Requests : Sound(x, request'[x], shortlinks')
    BY <2>1, NothingAsked DEF LinkInv
  <2> QED
    BY <2>1, <2>2, LinksStay
<1>6. CASE OnAvailabilityDone
  BY <1>2, <1>6 DEF OnAvailabilityDone
<1>7. CASE OnDone
  <2>1. CASE checked
    BY <1>1, <1>7, <2>1 DEF OnDone, linkVars
  <2>2. CASE ~checked
    BY <1>2, <1>7, <2>2 DEF OnDone
  <2> QED
    BY <2>1, <2>2
<1>8. CASE Visit \/ Refresh
  BY <1>1, <1>8 DEF Visit, Refresh, StartStream, linkVars
<1>9. CASE ServerSends \/ Break \/ OnStubs \/ OnBook \/ OnUpdate \/ OnError \/ OnLost
           \/ SavedExpires \/ UNCHANGED vars
  BY <1>1, <1>9
     DEF ServerSends, Break, OnStubs, OnBook, OnUpdate, OnError, OnLost, SavedExpires, vars
<1> QED
  BY <1>3, <1>4, <1>5, <1>6, <1>7, <1>8, <1>9 DEF Next, PageEvent

\* Every link that was given out opens its search for ever, whoever asks at the same time,
\* draws the same token or loses the answer (shorten.go:46-72).
THEOREM GivenLinksLast == Spec => []LinksLast
<1>1. LinkInv => LinksLast
  BY DEF LinkInv
<1> QED
  BY InitLink, NextLink, <1>1, PTL DEF Spec

=============================================================================
