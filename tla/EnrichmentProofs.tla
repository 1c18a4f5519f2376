-------------------------- MODULE EnrichmentProofs --------------------------
(***************************************************************************)
(* Proofs about Enrichment for every set of goroutines, every shelf, every *)
(* answer of Open Library and every number of slots.                       *)
(***************************************************************************)
EXTENDS Enrichment, FiniteSetTheorems, TLAPS

OlPc == Lookup \union {"rating"}
AzPc == {"cache", "asking", "pricing"}

OlConserved == ol = Cardinality(OlHolders) /\ ol <= OlSlots
AzConserved ==
  \A p \in Pools : az[p] = Cardinality(AzHolders(p)) /\ az[p] <= AzSlots[p]

\* A goroutine that is under way has its kind, a rating is asked for when there is none,
\* and prices are the last a book is given.
Stages ==
  \A t \in Tasks :
    /\ pc[t] # "idle" => kind[t] \in Kinds
    /\ pc[t] = "rating" => Missing(book[t], "rating")
    /\ prices[t] # None => pc[t] = "end"

\* A row holds what was found by the ISBN it is stored under.
RowsOwn == \A k \in Isbns : rows[k] \in {None, k}

EnrichmentInv ==
  /\ TypeOK /\ Stages /\ KnownKept /\ RowsOwn /\ PricesOfTheBook
  /\ OlConserved /\ AzConserved

-----------------------------------------------------------------------------
(* Where a goroutine goes *)

LEMMA Successors ==
  ASSUME NEW t \in Tasks
  PROVE  /\ Enriched(t) \in {"rate", "azwait"}
         /\ Enriched(t) = "azwait" => kind[t] # "rec"
         /\ Enriched(t) = "rate" => kind[t] = "rec"
         /\ Third(t) \in {"search", Enriched(t)}
         /\ Second(t) \in {"by10", Third(t)}
         /\ First(t) \in {"by13", Second(t)}
         /\ Rated \in {"cache", "end"}
  BY DEF Enriched, AfterOl, Third, Second, First, Rated

\* NotFound goes on to the next lookup or out.
LEMMA Onward ==
  ASSUME TypeOK, NEW t \in Tasks, NotFound(t)
  PROVE  \E next \in {"by10", "search", Enriched(t)} : Proceed(t, next)
<1>1. CASE pc[t] = "by13"
  BY <1>1, Successors DEF NotFound
<1>2. CASE pc[t] = "by10"
  BY <1>2, Successors DEF NotFound
<1>3. CASE pc[t] = "search"
  BY <1>3, Successors DEF NotFound
<1> QED
  BY <1>1, <1>2, <1>3 DEF NotFound, Lookup

\* The books stay books, and what the shelf knew stays.
LEMMA TakeKeeps ==
  ASSUME NEW b \in [Fields -> Source], NEW answer \in Answers
  PROVE  /\ ByIsbn(b, answer) \in [Fields -> Source]
         /\ BySearch(b, answer) \in [Fields -> Source]
         /\ \A f \in Fields : b[f] = "shelf" => ByIsbn(b, answer)[f] = "shelf"
         /\ \A f \in Fields : b[f] = "shelf" => BySearch(b, answer)[f] = "shelf"
<1>1. \A fields : Take(b, answer, fields) \in [Fields -> Source]
  BY DEF Take, Source
<1>2. \A fields : \A f \in Fields : b[f] = "shelf" => Take(b, answer, fields)[f] = "shelf"
  BY DEF Take, Missing
<1>3. "cover" \in Fields /\ "ol" \in Source
  BY DEF Fields, Source
<1>4. /\ ByIsbn(b, answer) \in [Fields -> Source]
      /\ \A f \in Fields : b[f] = "shelf" => ByIsbn(b, answer)[f] = "shelf"
  <2> DEFINE found == Take(b, answer, {"isbn13", "pages"})
  <2>1. /\ found \in [Fields -> Source]
        /\ \A f \in Fields : b[f] = "shelf" => found[f] = "shelf"
    BY <1>1, <1>2
  <2>2. ByIsbn(b, answer) = [found EXCEPT !["cover"] = IF CoverWanted(b) THEN "ol" ELSE @]
    BY DEF ByIsbn
  <2>3. b["cover"] = "shelf" => ~CoverWanted(b)
    BY DEF CoverWanted
  <2> HIDE DEF found
  <2> QED
    BY <2>1, <2>2, <2>3, <1>3
<1>5. /\ BySearch(b, answer) \in [Fields -> Source]
      /\ \A f \in Fields : b[f] = "shelf" => BySearch(b, answer)[f] = "shelf"
  <2> DEFINE found == Take(b, answer, {"isbn13", "isbn10", "pages"})
  <2>1. /\ found \in [Fields -> Source]
        /\ \A f \in Fields : b[f] = "shelf" => found[f] = "shelf"
    BY <1>1, <1>2
  <2>2. BySearch(b, answer) =
          [found EXCEPT !["cover"] = IF @ = "none" /\ ~Missing(found, "isbn13") THEN "ol" ELSE @]
    BY DEF BySearch
  <2> HIDE DEF found
  <2> QED
    BY <2>1, <2>2, <1>3
<1> QED
  BY <1>4, <1>5

\* What is looked up at Amazon is an ISBN or nothing.
LEMMA BestIsAnIsbn ==
  ASSUME NEW b \in [Fields -> Source]
  PROVE  BestISBN(b) \in Isbns \union {None}
  BY DEF BestISBN, Isbns, Fields

-----------------------------------------------------------------------------
(* The slots *)

LEMMA Holders ==
  /\ IsFiniteSet(OlHolders)
  /\ \A p \in Pools : IsFiniteSet(AzHolders(p))
<1>1. IsFiniteSet(Tasks)
  BY EnrichmentAssumption
<1>2. OlHolders \subseteq Tasks /\ \A p \in Pools : AzHolders(p) \subseteq Tasks
  BY DEF OlHolders, AzHolders
<1> QED
  BY <1>1, <1>2, FS_Subset

\* A goroutine that moves to x takes a slot, gives one back, or neither.
LEMMA OlMove ==
  ASSUME TypeOK, OlConserved, NEW t \in Tasks, NEW x,
         pc' = [pc EXCEPT ![t] = x],
         \/ ol' = ol /\ (pc[t] \in OlPc <=> x \in OlPc)
         \/ ol' = ol + 1 /\ ol < OlSlots /\ pc[t] \notin OlPc /\ x \in OlPc
         \/ ol' = ol - 1 /\ pc[t] \in OlPc /\ x \notin OlPc
  PROVE  OlConserved' /\ ol' \in Int
<1>1. pc \in [Tasks -> Pc] /\ ol \in Int /\ OlSlots \in Nat
  BY EnrichmentAssumption DEF TypeOK
<1>2. OlHolders' = IF x \in OlPc THEN OlHolders \union {t} ELSE OlHolders \ {t}
  BY <1>1 DEF OlHolders, OlPc
<1>3. t \in OlHolders <=> pc[t] \in OlPc
  BY DEF OlHolders, OlPc
<1>4. /\ Cardinality(OlHolders) \in Nat
      /\ t \notin OlHolders => Cardinality(OlHolders \union {t}) = Cardinality(OlHolders) + 1
      /\ t \in OlHolders => Cardinality(OlHolders \ {t}) = Cardinality(OlHolders) - 1
  BY Holders, FS_AddElement, FS_RemoveElement, FS_CardinalityType
<1>5. /\ t \in OlHolders => OlHolders \union {t} = OlHolders
      /\ t \notin OlHolders => OlHolders \ {t} = OlHolders
  OBVIOUS
<1>6. ol = Cardinality(OlHolders) /\ ol <= OlSlots
  BY DEF OlConserved
<1>7. CASE ol' = ol /\ (pc[t] \in OlPc <=> x \in OlPc)
  <2>1. OlHolders' = OlHolders
    BY <1>2, <1>3, <1>5, <1>7
  <2> QED
    BY <2>1, <1>6, <1>7, <1>1 DEF OlConserved
<1>8. CASE ol' = ol + 1 /\ ol < OlSlots /\ pc[t] \notin OlPc /\ x \in OlPc
  <2>1. Cardinality(OlHolders') = ol + 1
    BY <1>2, <1>3, <1>4, <1>6, <1>8
  <2> QED
    BY <2>1, <1>8, <1>1 DEF OlConserved
<1>9. CASE ol' = ol - 1 /\ pc[t] \in OlPc /\ x \notin OlPc
  <2>1. Cardinality(OlHolders') = ol - 1
    BY <1>2, <1>3, <1>4, <1>6, <1>9
  <2> QED
    BY <2>1, <1>6, <1>9, <1>1 DEF OlConserved
<1> QED
  BY <1>7, <1>8, <1>9

LEMMA AzMove ==
  ASSUME TypeOK, AzConserved, NEW t \in Tasks, NEW x,
         pc' = [pc EXCEPT ![t] = x],
         kind' = kind \/ (pc[t] \notin AzPc /\ x \notin AzPc /\ \E k : kind' = [kind EXCEPT ![t] = k]),
         \/ az' = az /\ (kind[t] \notin Pools \/ (pc[t] \in AzPc <=> x \in AzPc))
         \/ /\ kind[t] \in Pools /\ az' = [az EXCEPT ![kind[t]] = @ + 1]
            /\ az[kind[t]] < AzSlots[kind[t]] /\ pc[t] \notin AzPc /\ x \in AzPc /\ kind' = kind
         \/ /\ kind[t] \in Pools /\ az' = [az EXCEPT ![kind[t]] = @ - 1]
            /\ pc[t] \in AzPc /\ x \notin AzPc /\ kind' = kind
  PROVE  AzConserved' /\ az' \in [Pools -> Int]
<1>1. /\ pc \in [Tasks -> Pc] /\ az \in [Pools -> Int] /\ AzSlots \in [Pools -> Nat]
      /\ kind \in [Tasks -> Kinds \union {None}]
  BY EnrichmentAssumption DEF TypeOK
<1>2. az' \in [Pools -> Int]
  BY <1>1
<1>3. ASSUME NEW p \in Pools
      PROVE  az'[p] = Cardinality(AzHolders(p)') /\ az'[p] <= AzSlots[p]
  <2>1. AzHolders(p)' = IF x \in AzPc /\ kind[t] = p THEN AzHolders(p) \union {t}
                                                     ELSE AzHolders(p) \ {t}
    BY <1>1 DEF AzHolders, AzPc
  <2>2. t \in AzHolders(p) <=> (kind[t] = p /\ pc[t] \in AzPc)
    BY DEF AzHolders, AzPc
  <2>3. /\ Cardinality(AzHolders(p)) \in Nat
        /\ t \notin AzHolders(p) =>
             Cardinality(AzHolders(p) \union {t}) = Cardinality(AzHolders(p)) + 1
        /\ t \in AzHolders(p) =>
             Cardinality(AzHolders(p) \ {t}) = Cardinality(AzHolders(p)) - 1
    BY Holders, FS_AddElement, FS_RemoveElement, FS_CardinalityType
  <2>4. /\ t \in AzHolders(p) => AzHolders(p) \union {t} = AzHolders(p)
        /\ t \notin AzHolders(p) => AzHolders(p) \ {t} = AzHolders(p)
    OBVIOUS
  <2>5. az[p] = Cardinality(AzHolders(p)) /\ az[p] <= AzSlots[p]
    BY DEF AzConserved
  <2>6. CASE kind[t] = p
    <3>1. CASE az' = az /\ (pc[t] \in AzPc <=> x \in AzPc)
      <4>1. AzHolders(p)' = AzHolders(p)
        BY <2>1, <2>2, <2>4, <2>6, <3>1
      <4> QED
        BY <4>1, <2>5, <3>1
    <3>2. CASE /\ az' = [az EXCEPT ![kind[t]] = @ + 1]
               /\ az[kind[t]] < AzSlots[kind[t]] /\ pc[t] \notin AzPc /\ x \in AzPc
      <4>1. Cardinality(AzHolders(p)') = az[p] + 1
        BY <2>1, <2>2, <2>3, <2>5, <2>6, <3>2
      <4>2. az'[p] = az[p] + 1 /\ az[p] < AzSlots[p] /\ az[p] \in Int /\ AzSlots[p] \in Nat
        BY <1>1, <2>6, <3>2
      <4> QED
        BY <4>1, <4>2
    <3>3. CASE /\ az' = [az EXCEPT ![kind[t]] = @ - 1]
               /\ pc[t] \in AzPc /\ x \notin AzPc
      <4>1. Cardinality(AzHolders(p)') = az[p] - 1
        BY <2>1, <2>2, <2>3, <2>5, <2>6, <3>3
      <4>2. az'[p] = az[p] - 1 /\ az[p] \in Int /\ AzSlots[p] \in Nat
        BY <1>1, <2>6, <3>3
      <4> QED
        BY <4>1, <4>2, <2>5
    <3> QED
      BY <2>6, <3>1, <3>2, <3>3
  <2>7. CASE kind[t] # p
    <3>1. AzHolders(p)' = AzHolders(p)
      BY <2>1, <2>2, <2>4, <2>7
    <3>2. az'[p] = az[p]
      BY <2>7, <1>1
    <3> QED
      BY <3>1, <3>2, <2>5
  <2> QED
    BY <2>6, <2>7
<1> QED
  BY <1>2, <1>3 DEF AzConserved

-----------------------------------------------------------------------------
(* One step of a goroutine: where it goes, with which slots *)

OlFree(t, x) ==
  \/ ol' = ol /\ (pc[t] \in OlPc <=> x \in OlPc)
  \/ ol' = ol + 1 /\ ol < OlSlots /\ pc[t] \notin OlPc /\ x \in OlPc
  \/ ol' = ol - 1 /\ pc[t] \in OlPc /\ x \notin OlPc

AzFree(t, x) ==
  \/ az' = az /\ (kind[t] \notin Pools \/ (pc[t] \in AzPc <=> x \in AzPc))
  \/ /\ kind[t] \in Pools /\ az' = [az EXCEPT ![kind[t]] = @ + 1]
     /\ az[kind[t]] < AzSlots[kind[t]] /\ pc[t] \notin AzPc /\ x \in AzPc /\ kind' = kind
  \/ /\ kind[t] \in Pools /\ az' = [az EXCEPT ![kind[t]] = @ - 1]
     /\ pc[t] \in AzPc /\ x \notin AzPc /\ kind' = kind

\* Only Begin and End change the kind, and they hold nothing.
KindKept(t, x) ==
  \/ kind' = kind
  \/ pc[t] \notin AzPc /\ x \notin AzPc /\ \E k : kind' = [kind EXCEPT ![t] = k]

Arrives(t, x) ==
  /\ x \in Pc
  /\ pc' = [pc EXCEPT ![t] = x]
  /\ OlFree(t, x) /\ AzFree(t, x) /\ KindKept(t, x)
  /\ x \in {"asking", "pricing"} => book' = book /\ Wanted(t) # None
  /\ x # "idle" => kind'[t] \in Kinds
  /\ x = "rating" => Missing(book'[t], "rating")
  /\ x = "azwait" => kind'[t] # "rec"
  /\ x \in {"rate", "rating"} => kind'[t] = "rec"

\* What changes hands on the way: nothing, the prices, or all that the goroutine had.
Carries(t, x) ==
  /\ kind' \in [Tasks -> Kinds \union {None}]
  /\ given' \in [Tasks -> [Fields -> Source]]
  /\ book' \in [Tasks -> [Fields -> Source]]
  /\ rows' \in [Isbns -> Isbns \union {None}] /\ RowsOwn'
  /\ \A u \in Tasks \ {t} : /\ kind'[u] = kind[u] /\ given'[u] = given[u]
                           /\ book'[u] = book[u]
  /\ \A f \in Fields : given'[t][f] = "shelf" => book'[t][f] = "shelf"
  /\ \/ prices' = prices /\ pc[t] # "end"
     \/ /\ prices' = [prices EXCEPT ![t] = Wanted(t)] /\ x = "end"
        /\ book' = book
     \/ prices' = [prices EXCEPT ![t] = None]

LEMMA ArrivesKeeps ==
  ASSUME EnrichmentInv, NEW t \in Tasks, NEW x, Arrives(t, x), Carries(t, x)
  PROVE  EnrichmentInv'
<1>1. OlConserved' /\ ol' \in Int
  <2> USE DEF Arrives, OlFree
  <2> QED
    BY OlMove DEF EnrichmentInv
<1>2. AzConserved' /\ az' \in [Pools -> Int]
  BY AzMove DEF EnrichmentInv, Arrives, AzFree, KindKept
<1>3. /\ pc \in [Tasks -> Pc] /\ pc' \in [Tasks -> Pc]
      /\ pc'[t] = x /\ \A u \in Tasks \ {t} : pc'[u] = pc[u]
  BY DEF EnrichmentInv, TypeOK, Arrives
<1>4. \A u \in Tasks : BestISBN(book[u]) \in Isbns \union {None}
  BY BestIsAnIsbn DEF EnrichmentInv, TypeOK
<1>5. /\ prices' \in [Tasks -> Isbns \union {None}]
      /\ \A u \in Tasks \ {t} : prices'[u] = prices[u]
      /\ prices'[t] # None => x = "end" /\ prices'[t] = BestISBN(book'[t])
  BY <1>4 DEF Carries, EnrichmentInv, TypeOK, Stages, PricesOfTheBook, Wanted
<1>6. \A u \in Tasks \ {t} : Wanted(u)' = Wanted(u)
  BY DEF Carries, Wanted
<1>7. x \in {"asking", "pricing"} => Wanted(t)' # None
  BY DEF Arrives, Wanted
<1>8. \A u \in Tasks :
        /\ pc'[u] \in {"asking", "pricing"} => Wanted(u)' # None
        /\ pc'[u] = "azwait" => kind'[u] # "rec"
        /\ pc'[u] \in {"rate", "rating"} => kind'[u] = "rec"
  BY <1>3, <1>6, <1>7 DEF Arrives, Carries, EnrichmentInv, TypeOK
<1>9. TypeOK'
  BY <1>1, <1>2, <1>3, <1>5, <1>8 DEF TypeOK, Carries
<1>10. Stages'
  BY <1>3, <1>5 DEF Stages, Arrives, Carries, EnrichmentInv
<1>11. KnownKept'
  BY DEF KnownKept, Carries, EnrichmentInv
<1>12. PricesOfTheBook'
  BY <1>5 DEF PricesOfTheBook, Carries, EnrichmentInv
<1> QED
  BY <1>1, <1>2, <1>9, <1>10, <1>11, <1>12 DEF EnrichmentInv, Carries

-----------------------------------------------------------------------------
(* Every action is such a step *)

\* An action that moves on without touching what the goroutine carries.
LEMMA SameLuggage ==
  ASSUME EnrichmentInv, NEW t \in Tasks, NEW x, pc[t] # "end",
         UNCHANGED <<kind, given, book, prices, rows>>
  PROVE  Carries(t, x)
  BY DEF Carries, EnrichmentInv, TypeOK, KnownKept, RowsOwn

\* GetPrices returns.
LEMMA ReturnCarries ==
  ASSUME EnrichmentInv, NEW t \in Tasks, NEW result, pc[t] \in AzPc, Return(t, result),
         result \in {None, Wanted(t)}, rows' \in [Isbns -> Isbns \union {None}], RowsOwn',
         UNCHANGED <<kind, given, book, ol>>
  PROVE  Arrives(t, "end") /\ Carries(t, "end")
<1>1. kind[t] \in Kinds /\ (kind[t] # "rec" => kind[t] \in Pools)
  BY EnrichmentAssumption DEF EnrichmentInv, Stages, AzPc
<1>2. Arrives(t, "end")
  BY <1>1 DEF Arrives, Return, OlFree, AzFree, KindKept, Pc, OlPc, AzPc, Lookup, Pools
<1>3. Carries(t, "end")
  BY DEF Carries, Return, EnrichmentInv, TypeOK, KnownKept, AzPc
<1> QED
  BY <1>2, <1>3

\* A goroutine begins with what a shelf knows.
LEMMA BeginKeeps ==
  ASSUME EnrichmentInv, NEW t \in Tasks, NEW k \in Kinds, NEW b \in ShelfBooks, Begin(t, k, b)
  PROVE  EnrichmentInv'
<1> DEFINE x == IF Skipped(b) THEN AfterOl(k) ELSE "olwait"
<1>1. /\ x \in {"olwait", "rate", "azwait"}
      /\ x = "azwait" => k # "rec"
      /\ x = "rate" => k = "rec"
  BY DEF AfterOl
<1>2. b \in [Fields -> Source]
  BY EnrichmentAssumption DEF Source
<1>3. pc' = [pc EXCEPT ![t] = x] /\ kind' = [kind EXCEPT ![t] = k] /\ ol' = ol /\ az' = az
  BY DEF Begin
<1>4. kind'[t] = k
  BY <1>3 DEF EnrichmentInv, TypeOK
<1>5. Carries(t, x)
  BY <1>2, <1>4 DEF Begin, Carries, EnrichmentInv, TypeOK, RowsOwn
<1> HIDE DEF x
<1>6. Arrives(t, x)
  BY <1>1, <1>3, <1>4 DEF Arrives, OlFree, AzFree, KindKept, Pc, OlPc, AzPc, Lookup, Begin
<1> QED
  BY <1>5, <1>6, ArrivesKeeps

LEMMA EndKeeps ==
  ASSUME EnrichmentInv, NEW t \in Tasks, End(t)
  PROVE  EnrichmentInv'
<1>1. Blank \in [Fields -> Source] /\ \A f \in Fields : Blank[f] # "shelf"
  BY DEF Blank, Source
<1>2. Arrives(t, "idle")
  BY DEF Arrives, OlFree, AzFree, KindKept, Pc, OlPc, AzPc, Lookup, End
<1>3. given'[t] = Blank
  BY DEF End, EnrichmentInv, TypeOK
<1>4. Carries(t, "idle")
  BY <1>1, <1>3 DEF Carries, End, EnrichmentInv, TypeOK, RowsOwn
<1> QED
  BY <1>2, <1>4, ArrivesKeeps

LEMMA OpenLibraryKeeps ==
  ASSUME EnrichmentInv, NEW t \in Tasks, OpenLibrary(t) \/ AbandonOl(t) \/ AbandonRating(t)
  PROVE  EnrichmentInv'
<1>1. /\ pc[t] \in OlPc \union {"olwait", "rate"} => kind[t] \in Kinds
      /\ pc[t] \in {"rate", "rating"} => kind[t] = "rec"
      /\ Kinds \subseteq Pools \union {"rec"}
  BY EnrichmentAssumption DEF EnrichmentInv, Stages, TypeOK, OlPc, Lookup
<1>2. book[t] \in [Fields -> Source]
  BY DEF EnrichmentInv, TypeOK
<1>3. "rec" \notin Pools
  BY DEF Pools
<1>4. CASE AcquireOl(t)
  <2>1. First(t) \in Lookup \union {"rate", "azwait"}
    BY Successors DEF Lookup
  <2>2. Arrives(t, First(t))
    BY <1>1, <1>4, <2>1, Successors DEF Arrives, OlFree, AzFree, KindKept, Pc, OlPc, AzPc, Lookup, AcquireOl
  <2> QED
    BY <1>4, <2>2, SameLuggage, ArrivesKeeps DEF AcquireOl
<1>5. CASE AbandonOl(t)
  <2>1. Arrives(t, Enriched(t))
    BY <1>1, <1>5, Successors DEF Arrives, OlFree, AzFree, KindKept, Pc, OlPc, AzPc, Lookup, AbandonOl
  <2> QED
    BY <1>5, <2>1, SameLuggage, ArrivesKeeps DEF AbandonOl
<1>6. ASSUME NEW answer \in Answers, FoundByIsbn(t, answer)
      PROVE  EnrichmentInv'
  <2>1. Arrives(t, Enriched(t))
    BY <1>1, <1>6, Successors DEF Arrives, OlFree, AzFree, KindKept, Pc, OlPc, AzPc, Lookup, FoundByIsbn, Proceed
  <2>2. Carries(t, Enriched(t))
    BY <1>2, <1>6, TakeKeeps DEF FoundByIsbn, Carries, EnrichmentInv, TypeOK, KnownKept, RowsOwn
  <2> QED
    BY <2>1, <2>2, ArrivesKeeps
<1>7. ASSUME NEW answer \in Answers, FoundBySearch(t, answer)
      PROVE  EnrichmentInv'
  <2>1. Arrives(t, Enriched(t))
    BY <1>1, <1>7, Successors DEF Arrives, OlFree, AzFree, KindKept, Pc, OlPc, AzPc, Lookup, FoundBySearch, Proceed
  <2>2. Carries(t, Enriched(t))
    BY <1>2, <1>7, TakeKeeps DEF FoundBySearch, Carries, EnrichmentInv, TypeOK, KnownKept, RowsOwn
  <2> QED
    BY <2>1, <2>2, ArrivesKeeps
<1>8. CASE NotFound(t)
  <2>1. PICK next \in {"by10", "search", Enriched(t)} : Proceed(t, next)
    BY <1>8, Onward DEF EnrichmentInv
  <2>2. Arrives(t, next)
    BY <1>1, <1>8, <2>1, Successors DEF Arrives, OlFree, AzFree, KindKept, Pc, OlPc, AzPc, Lookup, NotFound, Proceed
  <2> QED
    BY <1>8, <2>2, SameLuggage, ArrivesKeeps DEF NotFound, Lookup
<1>9. CASE SkipRating(t) \/ AbandonRating(t)
  <2>1. Arrives(t, Rated)
    BY <1>1, <1>3, <1>9, Successors DEF Arrives, OlFree, AzFree, KindKept, Pc, OlPc, AzPc, Lookup, SkipRating, AbandonRating
  <2> QED
    BY <1>9, <2>1, SameLuggage, ArrivesKeeps DEF SkipRating, AbandonRating
<1>10. CASE AskRating(t)
  <2>1. Arrives(t, "rating")
    BY <1>1, <1>3, <1>10 DEF Arrives, OlFree, AzFree, KindKept, Pc, OlPc, AzPc, Lookup, AskRating
  <2> QED
    BY <1>10, <2>1, SameLuggage, ArrivesKeeps DEF AskRating
<1>11. ASSUME NEW source \in {"none", "ol"}, AnswerRating(t, source)
       PROVE  EnrichmentInv'
  <2>1. Arrives(t, Rated)
    BY <1>1, <1>3, <1>11, Successors DEF Arrives, OlFree, AzFree, KindKept, Pc, OlPc, AzPc, Lookup, AnswerRating
  <2>2. given[t]["rating"] # "shelf"
    BY <1>11 DEF AnswerRating, EnrichmentInv, Stages, KnownKept, Missing, Fields
  <2>3. Carries(t, Rated)
    BY <1>2, <1>11, <2>2 DEF AnswerRating, Carries, EnrichmentInv, TypeOK, KnownKept, RowsOwn, Source, Fields
  <2> QED
    BY <2>1, <2>3, ArrivesKeeps
<1> QED
  BY <1>4, <1>5, <1>6, <1>7, <1>8, <1>9, <1>10, <1>11 DEF OpenLibrary

LEMMA AmazonKeeps ==
  ASSUME EnrichmentInv, NEW t \in Tasks, Amazon(t) \/ AbandonAz(t)
  PROVE  EnrichmentInv'
<1>1. /\ pc[t] \in AzPc \union {"azwait"} => kind[t] \in Kinds
      /\ pc[t] = "azwait" => kind[t] \in Pools
  BY EnrichmentAssumption DEF EnrichmentInv, Stages, TypeOK, AzPc
<1>2. /\ Wanted(t) \in Isbns \union {None}
      /\ rows \in [Isbns -> Isbns \union {None}] /\ RowsOwn
  BY BestIsAnIsbn DEF EnrichmentInv, TypeOK, Wanted
<1>3. CASE AcquireAz(t)
  <2>1. Arrives(t, "cache")
    BY <1>1, <1>3 DEF Arrives, OlFree, AzFree, KindKept, Pc, OlPc, AzPc, Lookup, AcquireAz
  <2> QED
    BY <1>3, <2>1, SameLuggage, ArrivesKeeps DEF AcquireAz
<1>4. CASE AbandonAz(t)
  <2>1. Arrives(t, "end")
    BY <1>1, <1>4 DEF Arrives, OlFree, AzFree, KindKept, Pc, OlPc, AzPc, Lookup, AbandonAz
  <2> QED
    BY <1>4, <2>1, SameLuggage, ArrivesKeeps DEF AbandonAz
<1>5. CASE NoLookup(t) \/ NoItem(t)
  BY <1>2, <1>5, ReturnCarries, ArrivesKeeps DEF NoLookup, NoItem, AzPc, RowsOwn
<1>6. CASE CacheHit(t)
  <2>1. rows[Wanted(t)] = Wanted(t)
    BY <1>2, <1>6 DEF CacheHit, RowsOwn
  <2> QED
    BY <1>2, <1>6, <2>1, ReturnCarries, ArrivesKeeps DEF CacheHit, AzPc, RowsOwn
<1>7. CASE CacheMiss(t)
  <2>1. Arrives(t, "asking")
    BY <1>1, <1>7 DEF Arrives, OlFree, AzFree, KindKept, Pc, OlPc, AzPc, Lookup, CacheMiss
  <2> QED
    BY <1>7, <2>1, SameLuggage, ArrivesKeeps DEF CacheMiss
<1>8. CASE Item(t)
  <2>1. Wanted(t) # None
    BY <1>8 DEF Item, EnrichmentInv, TypeOK
  <2>2. Arrives(t, "pricing")
    BY <1>1, <1>8, <2>1 DEF Arrives, OlFree, AzFree, KindKept, Pc, OlPc, AzPc, Lookup, Item
  <2> QED
    BY <1>8, <2>2, SameLuggage, ArrivesKeeps DEF Item
<1>9. CASE Priced(t)
  <2>1. Wanted(t) # None
    BY <1>9 DEF Priced, EnrichmentInv, TypeOK
  <2>2. rows' \in [Isbns -> Isbns \union {None}] /\ RowsOwn'
    BY <1>2, <1>9, <2>1 DEF Priced, Row, RowsOwn
  <2> QED
    BY <1>9, <2>2, ReturnCarries, ArrivesKeeps DEF Priced, AzPc
<1> QED
  BY <1>3, <1>4, <1>5, <1>6, <1>7, <1>8, <1>9 DEF Amazon

\* EnrichmentInv is inductive.
LEMMA InvStep == EnrichmentInv /\ [Next]_vars => EnrichmentInv'
<1> SUFFICES ASSUME EnrichmentInv, [Next]_vars PROVE EnrichmentInv'
  OBVIOUS
<1>1. ASSUME NEW t \in Tasks, Work(t) \/ Abandon(t)
      PROVE  EnrichmentInv'
  BY <1>1, OpenLibraryKeeps, AmazonKeeps, EndKeeps DEF Work, Abandon
<1>2. ASSUME NEW t \in Tasks, NEW k \in Kinds, NEW b \in ShelfBooks, Begin(t, k, b)
      PROVE  EnrichmentInv'
  BY <1>2, BeginKeeps
<1>3. ASSUME NEW k \in Isbns, RowEnds(k)
      PROVE  EnrichmentInv'
  <2>1. /\ UNCHANGED <<pc, kind, given, book, prices, ol, az>>
        /\ rows' \in [Isbns -> Isbns \union {None}] /\ RowsOwn'
    BY <1>3 DEF RowEnds, RowsOwn, EnrichmentInv, TypeOK
  <2>2. TypeOK'
    BY <2>1 DEF TypeOK, EnrichmentInv, Wanted
  <2>3. OlConserved' /\ AzConserved'
    BY <2>1 DEF EnrichmentInv, OlConserved, AzConserved, OlHolders, AzHolders
  <2> QED
    BY <2>1, <2>2, <2>3 DEF EnrichmentInv, Stages, KnownKept, PricesOfTheBook
<1>4. CASE UNCHANGED vars
  <2>1. TypeOK'
    BY <1>4 DEF TypeOK, EnrichmentInv, Wanted, vars
  <2>2. OlConserved' /\ AzConserved'
    BY <1>4 DEF EnrichmentInv, OlConserved, AzConserved, OlHolders, AzHolders, vars
  <2> QED
    BY <1>4, <2>1, <2>2 DEF EnrichmentInv, Stages, KnownKept, RowsOwn, PricesOfTheBook, vars
<1> QED
  BY <1>1, <1>2, <1>3, <1>4 DEF Next

LEMMA InvInit == Init => EnrichmentInv
<1> SUFFICES ASSUME Init PROVE EnrichmentInv
  OBVIOUS
<1>1. OlHolders = {} /\ \A p \in Pools : AzHolders(p) = {}
  BY DEF Init, OlHolders, AzHolders, Lookup
<1>2. /\ Cardinality({}) = 0 /\ OlSlots \in Nat
      /\ \A p \in Pools : AzSlots[p] \in Nat
  BY FS_EmptySet, EnrichmentAssumption
<1>3. OlConserved /\ AzConserved
  <2>1. ol = 0 /\ \A p \in Pools : az[p] = 0
    BY DEF Init
  <2> QED
    BY <1>1, <1>2, <2>1 DEF OlConserved, AzConserved
<1>4. TypeOK
  BY DEF Init, TypeOK, Pc, Blank, Source
<1> QED
  BY <1>3, <1>4 DEF Init, EnrichmentInv, Stages, KnownKept, RowsOwn, PricesOfTheBook, Blank

LEMMA Invariance == Spec => []EnrichmentInv
  BY InvInit, InvStep, PTL DEF Spec

-----------------------------------------------------------------------------

\* Every variable keeps its type, and only what has an ISBN is asked for at Amazon.
THEOREM TypeCorrect == Spec => []TypeOK
<1>1. EnrichmentInv => TypeOK
  BY DEF EnrichmentInv
<1> QED
  BY <1>1, Invariance, PTL

\* Whatever Open Library answers and whichever lookups fail, it replaces nothing the
\* shelf knew of a book (openlibrary.go:85).
THEOREM ShelfPrevails == Spec => []KnownKept
<1>1. EnrichmentInv => KnownKept
  BY DEF EnrichmentInv
<1> QED
  BY <1>1, Invariance, PTL

\* For every number of goroutines and slots: a slot that is taken has one holder, who
\* is in a lookup or in GetPrices, and no limit is passed.
THEOREM SlotsAreConserved == Spec => []SlotsConserved
<1>1. EnrichmentInv => SlotsConserved
  BY DEF EnrichmentInv, OlConserved, AzConserved, SlotsConserved
<1> QED
  BY <1>1, Invariance, PTL

\* The prices shown with a book were found by the ISBN it is shown with (search.go:371),
\* whichever search stored them: a row holds what its own ISBN found.
THEOREM PricesBelong == Spec => []PricesOfTheBook
<1>1. EnrichmentInv => PricesOfTheBook
  BY DEF EnrichmentInv
<1> QED
  BY <1>1, Invariance, PTL

=============================================================================
