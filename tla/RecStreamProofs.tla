-------------------------- MODULE RecStreamProofs --------------------------
(* Safety of the recommendations stream, that it implements RecPromise, and  *)
(* that it recommends only what the profile warrants, for every shelf, every *)
(* cap and every answer of the libraries.                                    *)
EXTENDS RecStream, FiniteSetTheorems, WellFoundedInduction, TLAPS

-----------------------------------------------------------------------------
(* Numbers and sums *)

\* A set of numbers has a least one.
LEMMA LeastNumber ==
  ASSUME NEW S \in SUBSET Nat, S # {}
  PROVE  \E m \in S : \A k \in S : m <= k
<1> DEFINE R == OpToRel(<,Nat)
<1>1. IsWellFoundedOn(R, Nat)
  BY NatLessThanWellFounded
<1>3. \A x, y \in Nat : y < x => <<y, x>> \in R
  BY DEF OpToRel
<1> HIDE DEF R
<1>2. PICK x \in S : \A y \in S : ~ (<<y, x>> \in R)
  BY <1>1, WFMin
<1>4. \A y \in S : ~(y < x)
  BY <1>2, <1>3
<1> QED
  BY <1>4

\* Induction over the numbers of a set.
LEMMA SetInduction ==
  ASSUME NEW S, 0 \in S, \A k \in Nat : k \in S => k + 1 \in S
  PROVE  Nat \subseteq S
<1> SUFFICES ASSUME Nat \ S # {} PROVE FALSE
  OBVIOUS
<1>1. PICK m \in Nat \ S : \A k \in Nat \ S : m <= k
  BY LeastNumber
<1> QED
  BY <1>1

\* A finite set of numbers has a greatest one.
LEMMA HasMax ==
  ASSUME NEW S \in SUBSET Nat, IsFiniteSet(S), S # {}
  PROVE  Max(S) \in S /\ \A y \in S : y <= Max(S)
<1> DEFINE N == {n \in Nat : \A T \in SUBSET S :
                   Cardinality(T) = n + 1 => \E m \in T : \A y \in T : y <= m}
<1>0. \A T \in SUBSET S : IsFiniteSet(T) /\ Cardinality(T) \in Nat
  BY FS_Subset, FS_CardinalityType
<1>1. 0 \in N
  <2> SUFFICES ASSUME NEW T \in SUBSET S, Cardinality(T) = 1
               PROVE  \E m \in T : \A y \in T : y <= m
    OBVIOUS
  <2>1. PICK x : T = {x}
    BY <1>0, FS_Singleton
  <2> QED
    BY <2>1
<1>2. ASSUME NEW n \in Nat, n \in N PROVE n + 1 \in N
  <2> SUFFICES ASSUME NEW T \in SUBSET S, Cardinality(T) = n + 2
               PROVE  \E m \in T : \A y \in T : y <= m
    OBVIOUS
  <2>0. T # {}
    BY FS_EmptySet
  <2>1. PICK x \in T : TRUE
    BY <2>0
  <2>2. Cardinality(T \ {x}) = n + 1
    BY <1>0, FS_RemoveElement
  <2>3. PICK m \in T \ {x} : \A y \in T \ {x} : y <= m
    BY <1>2, <2>2
  <2> QED
    BY <2>1, <2>3
<1>3. Nat \subseteq N
  <2> HIDE DEF N
  <2> QED
    BY <1>1, <1>2, SetInduction
<1>4. Cardinality(S) - 1 \in N /\ Cardinality(S) \in Nat
  BY <1>0, <1>3, FS_EmptySet
<1>5. \E m \in S : \A y \in S : m >= y
  BY <1>4
<1> QED
  BY <1>5 DEF Max

\* How MapThenSumSet adds the values w of a set up, one element after the other.
IsSumOf(sum, S, w) ==
  sum = [s \in SUBSET S |->
           IF s = {} THEN 0
           ELSE w[CHOOSE x \in s : TRUE] + sum[s \ {CHOOSE x \in s : TRUE}]]

\* There is such a function, so the one the definition chooses is one.
LEMMA SumExists ==
  ASSUME NEW S, IsFiniteSet(S), NEW w \in [S -> Int]
  PROVE  \E sum \in [SUBSET S -> Int] : IsSumOf(sum, S, w)
<1> DEFINE pick(s) == CHOOSE x \in s : TRUE
           Upto(n) == {s \in SUBSET S : Cardinality(s) <= n}
           Added(f, s) == IF s = {} THEN 0 ELSE w[pick(s)] + f[s \ {pick(s)}]
           Summed(n) == \E f \in [Upto(n) -> Int] : \A s \in Upto(n) : f[s] = Added(f, s)
           N == {n \in Nat : Summed(n)}
<1>0. \A s \in SUBSET S : /\ IsFiniteSet(s) /\ Cardinality(s) \in Nat
                          /\ Cardinality(s) <= Cardinality(S)
                          /\ Cardinality(s) = 0 => s = {}
  BY FS_Subset, FS_CardinalityType, FS_EmptySet
<1>1. \A s \in SUBSET S : s # {} => /\ pick(s) \in s
                                    /\ Cardinality(s \ {pick(s)}) = Cardinality(s) - 1
  <2>1. \A s \in SUBSET S : s # {} => pick(s) \in s
    OBVIOUS
  <2> HIDE DEF pick
  <2> QED
    BY <1>0, <2>1, FS_RemoveElement
<1> HIDE DEF pick
<1>2. 0 \in N
  <2> DEFINE f == [s \in Upto(0) |-> 0]
  <2>1. f \in [Upto(0) -> Int] /\ \A s \in Upto(0) : f[s] = Added(f, s)
    BY <1>0
  <2> QED
    BY <2>1
<1>3. ASSUME NEW n \in Nat, n \in N PROVE n + 1 \in N
  <2>1. PICK f \in [Upto(n) -> Int] : \A s \in Upto(n) : f[s] = Added(f, s)
    BY <1>3
  <2> DEFINE h == [s \in Upto(n + 1) |-> Added(f, s)]
  <2>2. \A s \in Upto(n + 1) : s # {} => pick(s) \in S /\ s \ {pick(s)} \in Upto(n)
    BY <1>0, <1>1
  <2>3. h \in [Upto(n + 1) -> Int]
    BY <2>1, <2>2
  <2>4. \A s \in Upto(n) : s \in Upto(n + 1) /\ h[s] = f[s]
    BY <1>0, <2>1
  <2>5. \A s \in Upto(n + 1) : h[s] = Added(h, s)
    BY <2>2, <2>4
  <2> HIDE DEF h
  <2>6. Summed(n + 1)
    BY <2>3, <2>5
  <2> HIDE DEF Summed
  <2> QED
    BY <2>6
<1>4. Cardinality(S) \in N
  <2>1. Nat \subseteq N
    <3> HIDE DEF N
    <3> QED
      BY <1>2, <1>3, SetInduction
  <2> QED
    BY <1>0, <2>1
<1>5. Upto(Cardinality(S)) = SUBSET S
  BY <1>0
<1>6. PICK f \in [SUBSET S -> Int] : \A s \in SUBSET S : f[s] = Added(f, s)
  BY <1>4, <1>5
<1>7. f = [s \in SUBSET S |-> Added(f, s)]
  BY <1>6
<1> QED
  BY <1>7 DEF IsSumOf, pick

\* How many of s are in G, and how many are not.
Inside(s, G) == Cardinality(s \intersect G)
Outside(s, G) == Cardinality(s \ G)

\* Taking x from s takes one from the part of s it is in.
LEMMA TakenFrom ==
  ASSUME NEW s, IsFiniteSet(s), NEW x \in s, NEW G
  PROVE  /\ Cardinality(s) \in Nat /\ Cardinality(s \ {x}) = Cardinality(s) - 1
         /\ Inside(s, G) \in Nat /\ Outside(s, G) \in Nat
         /\ Inside(s \ {x}, G) = IF x \in G THEN Inside(s, G) - 1 ELSE Inside(s, G)
         /\ Outside(s \ {x}, G) = IF x \in G THEN Outside(s, G) ELSE Outside(s, G) - 1
<1>1. IsFiniteSet(s \intersect G) /\ IsFiniteSet(s \ G)
  BY FS_Subset
<1>2. /\ (s \ {x}) \intersect G = (s \intersect G) \ {x}
      /\ (s \ {x}) \ G = (s \ G) \ {x}
      /\ x \in s \intersect G <=> x \in G
      /\ x \in s \ G <=> x \notin G
  OBVIOUS
<1>3. Cardinality((s \intersect G) \ {x}) =
        IF x \in s \intersect G THEN Cardinality(s \intersect G) - 1 ELSE Cardinality(s \intersect G)
  BY <1>1, FS_RemoveElement
<1>4. Cardinality((s \ G) \ {x}) =
        IF x \in s \ G THEN Cardinality(s \ G) - 1 ELSE Cardinality(s \ G)
  BY <1>1, FS_RemoveElement
<1>5. Cardinality(s \ {x}) = Cardinality(s) - 1
  BY FS_RemoveElement
<1>6. Cardinality(s) \in Nat /\ Cardinality(s \intersect G) \in Nat /\ Cardinality(s \ G) \in Nat
  BY <1>1, FS_CardinalityType
<1> QED
  BY <1>2, <1>3, <1>4, <1>5, <1>6 DEF Inside, Outside

\* If every value of G is at most c, and every other at most -d, so is the sum.
LEMMA SumBounded ==
  ASSUME NEW S, IsFiniteSet(S), NEW w \in [S -> Int], NEW c \in Nat, NEW d \in Nat,
         NEW G \in SUBSET S, \A x \in G : w[x] <= c, \A x \in S \ G : w[x] <= -d,
         NEW sum, IsSumOf(sum, S, w)
  PROVE  sum[S] \in Int /\ sum[S] <= c * Cardinality(G) - d * Cardinality(S \ G)
<1> DEFINE pick(s) == CHOOSE x \in s : TRUE
           Bounded(s) == sum[s] \in Int /\ sum[s] <= c * Inside(s, G) - d * Outside(s, G)
           N == {n \in Nat : \A s \in SUBSET S : Cardinality(s) = n => Bounded(s)}
<1>0. \A s \in SUBSET S : /\ IsFiniteSet(s) /\ Cardinality(s) \in Nat
                          /\ Inside(s, G) \in Nat /\ Outside(s, G) \in Nat
                          /\ Cardinality(s) = 0 => s = {}
  <2>1. \A s \in SUBSET S : /\ IsFiniteSet(s) /\ Cardinality(s) \in Nat
                            /\ Cardinality(s) = 0 => s = {}
    BY FS_Subset, FS_CardinalityType, FS_EmptySet
  <2>2. \A s \in SUBSET S : s \intersect G \in SUBSET S /\ s \ G \in SUBSET S
    OBVIOUS
  <2> QED
    BY <2>1, <2>2 DEF Inside, Outside
<1>1. sum[{}] = 0
  BY DEF IsSumOf
<1>2. \A s \in SUBSET S : s # {} => pick(s) \in s /\ sum[s] = w[pick(s)] + sum[s \ {pick(s)}]
  <2>1. \A s \in SUBSET S : s # {} => pick(s) \in s
    OBVIOUS
  <2>2. \A s \in SUBSET S : s # {} => sum[s] = w[pick(s)] + sum[s \ {pick(s)}]
    BY DEF IsSumOf
  <2> QED
    BY <2>1, <2>2
<1> HIDE DEF pick
<1>3. 0 \in N
  <2>1. Inside({}, G) = 0 /\ Outside({}, G) = 0
    <3>1. {} \intersect G = {} /\ {} \ G = {}
      OBVIOUS
    <3> QED
      BY <3>1, FS_EmptySet DEF Inside, Outside
  <2>2. Bounded({})
    BY <1>1, <2>1
  <2> HIDE DEF Bounded
  <2> QED
    BY <1>0, <2>2
<1>4. ASSUME NEW n \in Nat, n \in N PROVE n + 1 \in N
  <2> SUFFICES ASSUME NEW s \in SUBSET S, Cardinality(s) = n + 1 PROVE Bounded(s)
    OBVIOUS
  <2>1. PICK x \in s : sum[s] = w[x] + sum[s \ {x}]
    <3>1. s # {}
      <4> SUFFICES ASSUME s = {} PROVE Cardinality(s) = 0
        OBVIOUS
      <4> QED
        BY FS_EmptySet
    <3> QED
      BY <1>2, <3>1
  <2> DEFINE t == s \ {x}
  <2>2. /\ Cardinality(t) = n
        /\ x \in G => Inside(s, G) = Inside(t, G) + 1 /\ Outside(s, G) = Outside(t, G)
        /\ x \notin G => Inside(s, G) = Inside(t, G) /\ Outside(s, G) = Outside(t, G) + 1
    <3>1. IsFiniteSet(s) /\ x \in s
      BY <1>0
    <3>2. /\ Inside(s, G) \in Nat /\ Outside(s, G) \in Nat /\ Cardinality(t) = Cardinality(s) - 1
          /\ Inside(t, G) = IF x \in G THEN Inside(s, G) - 1 ELSE Inside(s, G)
          /\ Outside(t, G) = IF x \in G THEN Outside(s, G) ELSE Outside(s, G) - 1
      BY <3>1, TakenFrom
    <3> HIDE DEF t
    <3> QED
      BY <3>2
  <2>3. Bounded(t)
    <3> HIDE DEF Bounded
    <3> QED
      BY <1>4, <2>2
  <2>4. Inside(t, G) \in Nat /\ Outside(t, G) \in Nat
    BY <1>0
  <2>5. w[x] \in Int /\ (x \in G => w[x] <= c) /\ (x \notin G => w[x] <= -d)
    BY <2>1
  <2>7. sum[s] = w[x] + sum[t]
    BY <2>1
  <2> HIDE DEF t
  <2>6. /\ c * (Inside(t, G) + 1) = c * Inside(t, G) + c /\ d * (Outside(t, G) + 1) = d * Outside(t, G) + d
        /\ c * Inside(t, G) \in Int /\ d * Outside(t, G) \in Int
    BY <2>4
  <2> QED
    BY <2>2, <2>3, <2>4, <2>5, <2>6, <2>7
<1>5. Bounded(S)
  <2>1. Nat \subseteq N
    <3> HIDE DEF N
    <3> QED
      BY <1>3, <1>4, SetInduction
  <2> HIDE DEF Bounded
  <2> QED
    BY <1>0, <2>1
<1>6. S \intersect G = G
  OBVIOUS
<1> QED
  BY <1>5, <1>6 DEF Inside, Outside

\* The weight of an author is such a sum over the books read of him.
LEMMA WeightIsSum ==
  ASSUME NEW S, IsFiniteSet(S), NEW w \in [S -> Int], w = [b \in S |-> Weight(b)]
  PROVE  \E sum : /\ IsSumOf(sum, S, w)
                  /\ MapThenSumSet(LAMBDA b : Weight(b), S) = sum[S]
<1> DEFINE sum == CHOOSE f : IsSumOf(f, S, w)
<1>1. IsSumOf(sum, S, w)
  BY SumExists
<1>2. MapThenSumSet(LAMBDA b : Weight(b), S) = sum[S]
  BY DEF MapThenSumSet, MapThenFoldSet, IsSumOf
<1> QED
  BY <1>1, <1>2

-----------------------------------------------------------------------------
(* The inductive invariant *)

\* The emitters that hold a claim they have not sent.
Pending == {i \in Emitters : at[i] = "enrich"}

\* Which goroutines run in which stage, and what the stages leave behind.
StageInv ==
  /\ pc \in {"params", "profile"} =>
       /\ spawned = 0 /\ searching = {} /\ recs = <<>>
       /\ \A i \in Emitters : at[i] = "idle"
  /\ pc \notin {"params", "profile", "returned"} => excluded \subseteq seen
  /\ pc \notin {"series", "seriesWait"} => \A i \in Series : at[i] \in {"idle", "end"}
  /\ \A i \in Series : i > spawned => at[i] = "idle"
  /\ at[Picker] \in {"idle", "enrich"}
  /\ at[Picker] = "enrich" => pc = "pick" /\ author <= nauthors
  /\ pc \notin {"pick", "finish", "returned"} =>
       \A k \in DOMAIN recs : recs[k].from = FromSeries
  /\ ended = "no" <=> pc # "returned"

\* Every claim is in recs or on its way there, once.
ClaimInv ==
  /\ count = Len(recs) + Cardinality(Pending)
  /\ count = 0 \/ count <= MaxRecs
  /\ \A i \in Pending :
       /\ cand[i] \in seen \ excluded
       /\ \A k \in DOMAIN recs : recs[k].title # cand[i]
       /\ \A j \in Pending : cand[j] = cand[i] => j = i
  /\ \A k \in DOMAIN recs : recs[k].title \in seen

\* The picks that were sent lie before the place where the round is.
RoundInv ==
  /\ \A a \in Authors : IsInjective(lists[a])
  /\ at[Picker] = "enrich" => HasCandidate /\ cand[Picker] = lists[author][rank]
  /\ \A k \in DOMAIN recs : recs[k].from # FromSeries =>
       \E n \in DOMAIN lists[recs[k].from] :
         /\ lists[recs[k].from][n] = recs[k].title
         /\ n < rank \/ (n = rank /\ recs[k].from < author)

RecInv == TypeOK /\ StageInv /\ ClaimInv /\ RoundInv /\ InRounds

USE RecAssumption, ProfileAssumption DEF nseries, nauthors

-----------------------------------------------------------------------------

LEMMA EmittersFinite == IsFiniteSet(Emitters) /\ Emitters = 0..MaxSeries
<1>1. Emitters = 0..MaxSeries
  BY DEF Emitters, Series, Picker
<1> QED
  BY <1>1, FS_Interval

\* The place of a title in a list without repetitions.
LEMMA RankIsPlace ==
  ASSUME NEW list, NEW n \in DOMAIN list, IsInjective(list)
  PROVE  RankIn(list, list[n]) = n
<1> DEFINE k == RankIn(list, list[n])
<1>1. k \in DOMAIN list /\ list[k] = list[n]
  BY DEF RankIn
<1> QED
  BY <1>1 DEF IsInjective

\* An author's search returns a list without repetitions.
LEMMA RankingIsList ==
  ASSUME NEW S \in SUBSET Titles, NEW list \in Rankings(S)
  PROVE  list \in Seq(Titles) /\ IsInjective(list)
<1>1. IsFiniteSet(S)
  BY FS_Subset
<1>2. Cardinality(S) \in Nat
  BY <1>1, FS_CardinalityType
<1>3. PICK n \in 0..Cardinality(S) : list \in Injection(1..n, S)
  BY DEF Rankings
<1>4. list \in [1..n -> Titles] /\ n \in Nat
  BY <1>2, <1>3 DEF Injection
<1> QED
  BY <1>3, <1>4 DEF Injection

\* The profile excludes titles only.
LEMMA ExcludedAreTitles == \A s \in Shelves : Excluded(s) \in SUBSET Titles
  BY DEF Excluded, Both, Book

\* The profile lists at most max, of what it is to list.
LEMMA LeadingIsList ==
  ASSUME NEW S, NEW T, S \subseteq T, NEW max \in Nat,
         NEW q, q \in UNION {[1..n -> S] : n \in 0..max}
  PROVE  q \in Seq(T) /\ Len(q) \in Nat /\ Len(q) <= max
<1>1. PICK n \in 0..max : q \in [1..n -> S]
  OBVIOUS
<1>2. q \in [1..n -> T]
  BY <1>1
<1>3. Len(q) = n /\ q \in Seq(T)
  BY <1>2
<1> QED
  BY <1>3

\* An author of the profile has a list that his search may return.
LEMMA SearchedList ==
  ASSUME TypeOK, NEW a \in Authors, AuthorSearched(a)
  PROVE  \E list \in Seq(Titles) : IsInjective(list) /\ lists' = [lists EXCEPT ![a] = list]
<1>1. a \in 1..Len(authors) /\ authors \in Seq(AuthorNames)
  BY DEF AuthorSearched, TypeOK
<1>2. authors[a] \in AuthorNames
  BY <1>1
<1>3. WrittenBy[authors[a]] \in SUBSET Titles
  BY <1>2
<1>4. PICK list \in Rankings(WrittenBy[authors[a]] \ seen) : lists' = [lists EXCEPT ![a] = list]
  BY DEF AuthorSearched
<1>5. WrittenBy[authors[a]] \ seen \in SUBSET Titles
  BY <1>3
<1> QED
  BY <1>4, <1>5, RankingIsList

LEMMA InitRec == Init => RecInv
<1> SUFFICES ASSUME Init PROVE RecInv
  OBVIOUS
<1> USE DEF Init, FromSeries
<1>1. TypeOK
  <2>1. lists \in [Authors -> Seq(Titles)] /\ recs \in Seq(Rec)
    OBVIOUS
  <2>2. MaxAuthors + 1 \in Nat /\ 1 \in 1..MaxAuthors + 1
    OBVIOUS
  <2>3. emitted \in BOOLEAN
    BY Zenon
  <2>4. excluded \in SUBSET Titles /\ seen \in SUBSET Titles
    BY ExcludedAreTitles
  <2> QED
    BY <2>1, <2>2, <2>3, <2>4 DEF TypeOK
<1>2. StageInv
  BY DEF StageInv, Emitters, Series
<1>3. Pending = {}
  BY DEF Pending
<1>4. ClaimInv
  BY <1>3, FS_EmptySet DEF ClaimInv
<1>5. RoundInv
  BY DEF RoundInv, IsInjective, Emitters
<1>6. InRounds
  BY DEF InRounds
<1> QED
  BY <1>1, <1>2, <1>4, <1>5, <1>6 DEF RecInv

-----------------------------------------------------------------------------
(* Typing and stages *)

\* Every step keeps the types.
LEMMA NextType == RecInv /\ [Next]_vars => TypeOK'
<1> SUFFICES ASSUME RecInv, [Next]_vars PROVE TypeOK'
  OBVIOUS
<1> USE DEF TypeOK, requestVars, claimVars, authorVars, roundVars
<1>0. TypeOK /\ StageInv
  BY DEF RecInv
<1>1. CASE Refuse \/ Accept \/ ProfileFails \/ SpawnOver \/ AuthorsOver \/ PickFull \/ Finish
  BY <1>0, <1>1 DEF Refuse, Accept, ProfileFails, SpawnOver, AuthorsOver, PickFull, Finish
<1>2. CASE ProfileReady
  <2> DEFINE Entries == [series : Series, number : 1..MaxEntry]
  <2>1. NextEntries(shelf) \subseteq Entries
    BY DEF NextEntries
  <2>2. entries' \in Seq(Entries) /\ Len(entries') \in Nat /\ Len(entries') <= MaxSeries
    <3> HIDE DEF Entries
    <3>1. entries' \in UNION {[1..n -> NextEntries(shelf)] : n \in 0..MaxSeries}
      BY <1>2, Zenon DEF ProfileReady, Leading
    <3> QED
      BY <2>1, <3>1, LeadingIsList
  <2>3. Liked(shelf) \subseteq AuthorNames
    BY DEF Liked
  <2>4. /\ authors' \in Seq(AuthorNames)
        /\ Len(authors') \in Nat /\ Len(authors') <= MaxAuthors
    BY <1>2, <2>3, LeadingIsList DEF ProfileReady, Leading
  <2>5. searching = {} /\ spawned = 0
    BY <1>0, <1>2 DEF ProfileReady, StageInv
  <2>6. shelf' \in Shelves /\ excluded' \in SUBSET Titles /\ seen' \in SUBSET Titles
    BY <1>0, <1>2 DEF ProfileReady
  <2>7. spawned' = 0 /\ searching' = {}
    BY <1>2, <2>5 DEF ProfileReady
  <2>8. spawned' \in 0..Len(entries') /\ searching' \in SUBSET (1..Len(authors'))
    BY <2>2, <2>7
  <2> QED
    BY <1>0, <1>2, <2>2, <2>4, <2>6, <2>8 DEF ProfileReady
<1>3. CASE Spawn
  BY <1>0, <1>3, EmittersFinite DEF Spawn, Picker
<1>4. ASSUME NEW i \in Series, NEW t \in Titles \union {None}, Resolve(i, t) PROVE TypeOK'
  <2>1. CASE Claim(i, t)
    BY <1>0, <1>4, <2>1 DEF Resolve, Claim, Claimable, Full, Emitters
  <2>2. CASE ~Claim(i, t)
    BY <1>0, <1>4, <2>2 DEF Resolve
  <2> QED
    BY <2>1, <2>2
<1>5. ASSUME NEW i \in Series, SendEntry(i) PROVE TypeOK'
  <2>1. [title |-> cand[i], from |-> FromSeries] \in Rec
    BY <1>0, <1>5 DEF SendEntry, Rec, FromSeries, Emitters
  <2>2. recs' \in Seq(Rec)
    BY <1>0, <1>5, <2>1 DEF SendEntry
  <2> QED
    BY <1>0, <1>5, <2>2 DEF SendEntry, Emitters
<1>6. CASE SeriesOver
  BY <1>0, <1>6 DEF SeriesOver
<1>7. ASSUME NEW a \in Authors, AuthorSearched(a) PROVE TypeOK'
  <2>1. lists' \in [Authors -> Seq(Titles)]
    BY <1>0, <1>7, SearchedList
  <2> QED
    BY <1>0, <1>7, <2>1 DEF AuthorSearched
<1>8. CASE PickNext
  BY <1>0, <1>8 DEF PickNext, Picking, Advance
<1>9. CASE PickClaim
  <2>1. author \in Authors
    BY <1>0, <1>9 DEF PickClaim, Picking, Authors
  <2>2. lists[author] \in Seq(Titles) /\ lists[author][rank] \in Titles
    BY <1>0, <1>9, <2>1 DEF PickClaim, HasCandidate
  <2> QED
    BY <1>0, <1>9, <2>2 DEF PickClaim, Claim, Claimable, Full, Emitters
<1>10. CASE SendPick
  <2>1. author <= nauthors /\ Picker \in Emitters
    BY <1>0, <1>10 DEF SendPick, StageInv, Emitters
  <2>2. [title |-> cand[Picker], from |-> author] \in Rec
    BY <1>0, <1>10, <2>1 DEF SendPick, Rec
  <2>3. recs' \in Seq(Rec)
    BY <1>0, <1>10, <2>2 DEF SendPick
  <2> QED
    BY <1>0, <1>10, <2>1, <2>3 DEF SendPick, Advance
<1>11. CASE NextRound
  <2>1. emitted' \in BOOLEAN
    BY <1>0, <1>11, Zenon DEF NextRound
  <2>2. rank' \in Nat \ {0} /\ author' \in 1..MaxAuthors + 1
    BY <1>0, <1>11 DEF NextRound
  <2> QED
    BY <1>0, <1>11, <2>1, <2>2 DEF NextRound
<1>12. CASE UNCHANGED vars
  BY <1>0, <1>12 DEF vars
<1> QED
  BY <1>1, <1>2, <1>3, <1>4, <1>5, <1>6, <1>7, <1>8, <1>9, <1>10, <1>11, <1>12
  DEF Next, Handler, Entry, Ended

\* Every step keeps the stages apart.
LEMMA NextStage == RecInv /\ [Next]_vars => StageInv'
<1> SUFFICES ASSUME RecInv, [Next]_vars PROVE StageInv'
  OBVIOUS
<1> USE DEF StageInv, requestVars, claimVars, authorVars, roundVars
<1>0. TypeOK /\ StageInv
  BY DEF RecInv
<1>1. CASE Refuse \/ Accept \/ ProfileFails \/ SpawnOver \/ AuthorsOver \/ PickFull \/ Finish
  BY <1>0, <1>1 DEF Refuse, Accept, ProfileFails, SpawnOver, AuthorsOver, PickFull, Finish,
                    Picking, TypeOK, Emitters
<1>2. CASE ProfileReady
  BY <1>0, <1>2 DEF ProfileReady
<1>3. CASE Spawn
  BY <1>0, <1>3 DEF Spawn, TypeOK, Series, Picker, Emitters
<1>4. ASSUME NEW i \in Series, NEW t \in Titles \union {None}, Resolve(i, t) PROVE StageInv'
  BY <1>0, <1>4 DEF Resolve, Claim, TypeOK, Series, Picker, Emitters
<1>5. ASSUME NEW i \in Series, SendEntry(i) PROVE StageInv'
  <2>1. \A k \in DOMAIN recs' : recs'[k].from = FromSeries
    BY <1>0, <1>5 DEF SendEntry, TypeOK, Rec
  <2> QED
    BY <1>0, <1>5, <2>1 DEF SendEntry, TypeOK, Series, Picker, Emitters
<1>6. CASE SeriesOver
  <2>1. \A i \in Series : at[i] \in {"idle", "end"}
    BY <1>0, <1>6 DEF SeriesOver, Series, TypeOK
  <2> QED
    BY <1>0, <1>6, <2>1 DEF SeriesOver
<1>7. ASSUME NEW a \in Authors, AuthorSearched(a) PROVE StageInv'
  BY <1>0, <1>7 DEF AuthorSearched
<1>8. CASE PickNext
  BY <1>0, <1>8 DEF PickNext, Picking
<1>9. CASE PickClaim
  BY <1>0, <1>9 DEF PickClaim, Picking, Claim, TypeOK, Series, Picker, Emitters
<1>10. CASE SendPick
  BY <1>0, <1>10 DEF SendPick, TypeOK, Series, Picker, Emitters
<1>11. CASE NextRound
  BY <1>0, <1>11 DEF NextRound, TypeOK
<1>12. CASE UNCHANGED vars
  BY <1>0, <1>12 DEF vars
<1> QED
  BY <1>1, <1>2, <1>3, <1>4, <1>5, <1>6, <1>7, <1>8, <1>9, <1>10, <1>11, <1>12
  DEF Next, Handler, Entry, Ended

-----------------------------------------------------------------------------
(* Claims *)

\* tryEmit adds one to the count and one emitter to those that hold a claim.
LEMMA ClaimKeeps ==
  ASSUME TypeOK, ClaimInv, excluded \subseteq seen,
         NEW i \in Emitters, at[i] # "enrich", NEW t \in Titles, Claim(i, t),
         UNCHANGED <<recs, excluded>>
  PROVE  ClaimInv'
<1> USE DEF Claim
<1>1. Pending' = Pending \union {i} /\ i \notin Pending
  BY DEF Pending, TypeOK
<1>2. IsFiniteSet(Pending)
  BY EmittersFinite, FS_Subset DEF Pending
<1>3. Cardinality(Pending') = Cardinality(Pending) + 1 /\ Cardinality(Pending) \in Nat
  BY <1>1, <1>2, FS_AddElement, FS_CardinalityType
<1>4. count' = Len(recs') + Cardinality(Pending')
  BY <1>3 DEF ClaimInv, TypeOK
<1>5. count' <= MaxRecs
  BY DEF Claimable, Full, TypeOK
<1>6. /\ t \notin seen
      /\ \A j \in Emitters : j # i => cand'[j] = cand[j]
      /\ cand'[i] = t
  BY DEF Claimable, TypeOK
<1>7. ASSUME NEW j \in Pending'
      PROVE  /\ cand'[j] \in seen' \ excluded'
             /\ \A k \in DOMAIN recs' : recs'[k].title # cand'[j]
             /\ \A l \in Pending' : cand'[l] = cand'[j] => l = j
  <2>1. CASE j = i
    BY <1>1, <1>6, <2>1 DEF ClaimInv, Pending
  <2>2. CASE j # i
    BY <1>1, <1>6, <1>7, <2>2 DEF ClaimInv, Pending
  <2> QED
    BY <2>1, <2>2
<1> QED
  BY <1>4, <1>5, <1>7 DEF ClaimInv

\* A recommendation that is sent takes the place of its claim.
LEMMA SendKeeps ==
  ASSUME TypeOK, ClaimInv, NEW i \in Emitters, at[i] = "enrich",
         NEW p, p # "enrich", at' = [at EXCEPT ![i] = p],
         NEW from, recs' = Append(recs, [title |-> cand[i], from |-> from]),
         UNCHANGED <<cand, seen, count, excluded>>
  PROVE  ClaimInv'
<1>1. Pending' = Pending \ {i} /\ i \in Pending
  BY DEF Pending, TypeOK
<1>2. IsFiniteSet(Pending)
  BY EmittersFinite, FS_Subset DEF Pending
<1>3. Cardinality(Pending') = Cardinality(Pending) - 1 /\ Cardinality(Pending) \in Nat
  BY <1>1, <1>2, FS_RemoveElement, FS_CardinalityType
<1>4. /\ Len(recs') = Len(recs) + 1
      /\ \A k \in DOMAIN recs' : \/ k \in DOMAIN recs /\ recs'[k] = recs[k]
                                \/ recs'[k].title = cand[i]
  BY DEF TypeOK
<1>5. count' = Len(recs') + Cardinality(Pending')
  BY <1>3, <1>4 DEF ClaimInv, TypeOK
<1>6. \A k \in DOMAIN recs' : recs'[k].title \in seen'
  BY <1>1, <1>4 DEF ClaimInv
<1>7. ASSUME NEW j \in Pending'
      PROVE  /\ cand'[j] \in seen' \ excluded'
             /\ \A k \in DOMAIN recs' : recs'[k].title # cand'[j]
             /\ \A l \in Pending' : cand'[l] = cand'[j] => l = j
  BY <1>1, <1>4, <1>7 DEF ClaimInv
<1> QED
  BY <1>5, <1>6, <1>7 DEF ClaimInv

\* Every step keeps the claims.
LEMMA NextClaim == RecInv /\ [Next]_vars => ClaimInv'
<1> SUFFICES ASSUME RecInv, [Next]_vars PROVE ClaimInv'
  OBVIOUS
<1> USE DEF requestVars, claimVars, authorVars, roundVars
<1>0. TypeOK /\ StageInv /\ ClaimInv /\ RoundInv
  BY DEF RecInv
<1>1. CASE UNCHANGED <<at, cand, seen, count, recs, excluded>>
  BY <1>0, <1>1 DEF ClaimInv, Pending
<1>2. CASE ProfileReady
  <2>1. Pending' = Pending /\ Pending = {} /\ recs = <<>> /\ UNCHANGED <<recs, count>>
    BY <1>0, <1>2 DEF ProfileReady, StageInv, Pending
  <2>2. /\ count' = Len(recs') + Cardinality(Pending')
        /\ count' = 0 \/ count' <= MaxRecs
    BY <1>0, <2>1 DEF ClaimInv
  <2>3. DOMAIN recs' = {}
    BY <2>1
  <2> QED
    BY <2>1, <2>2, <2>3 DEF ClaimInv
<1>3. CASE Spawn
  <2>1. at[spawned + 1] # "enrich" /\ UNCHANGED <<cand, seen, count, recs, excluded>>
    BY <1>0, <1>3 DEF Spawn, StageInv, TypeOK, Series
  <2>2. Pending' = Pending
    BY <1>0, <1>3, <2>1 DEF Spawn, Pending, TypeOK
  <2> QED
    BY <1>0, <2>1, <2>2 DEF ClaimInv
<1>4. ASSUME NEW i \in Series, NEW t \in Titles \union {None}, Resolve(i, t) PROVE ClaimInv'
  <2>1. /\ at[i] = "search" /\ i \in Emitters
        /\ excluded \subseteq seen
        /\ UNCHANGED <<recs, excluded>>
    BY <1>0, <1>4 DEF Resolve, StageInv, Emitters
  <2>2. CASE Claim(i, t)
    <3>1. t \in Titles
      BY <2>2 DEF Claim, Claimable
    <3> QED
      BY <1>0, <2>1, <2>2, <3>1, ClaimKeeps
  <2>3. CASE ~Claim(i, t)
    <3>1. Pending' = Pending /\ UNCHANGED <<cand, seen, count, recs, excluded>>
      BY <1>0, <1>4, <2>1, <2>3 DEF Resolve, Pending, TypeOK
    <3> QED
      BY <1>0, <3>1 DEF ClaimInv
  <2> QED
    BY <2>2, <2>3
<1>5. ASSUME NEW i \in Series, SendEntry(i) PROVE ClaimInv'
  <2>1. i \in Emitters /\ at[i] = "enrich" /\ UNCHANGED <<cand, seen, count, excluded>>
    BY <1>5 DEF SendEntry, Emitters
  <2> QED
    BY <1>0, <1>5, <2>1, SendKeeps DEF SendEntry
<1>6. CASE PickClaim
  <2>1. /\ Picker \in Emitters /\ at[Picker] # "enrich"
        /\ excluded \subseteq seen
        /\ UNCHANGED <<recs, excluded>>
    BY <1>0, <1>6 DEF PickClaim, Picking, StageInv, Emitters
  <2>2. lists[author][rank] \in Titles
    BY <1>0, <1>6 DEF PickClaim, Picking, HasCandidate, Authors, TypeOK
  <2> QED
    BY <1>0, <1>6, <2>1, <2>2, ClaimKeeps DEF PickClaim
<1>7. CASE SendPick
  <2>1. /\ Picker \in Emitters /\ at[Picker] = "enrich"
        /\ UNCHANGED <<cand, seen, count, excluded>>
    BY <1>7 DEF SendPick, Emitters
  <2> QED
    BY <1>0, <1>7, <2>1, SendKeeps DEF SendPick
<1> QED
  BY <1>1, <1>2, <1>3, <1>4, <1>5, <1>6, <1>7
  DEF Next, Handler, Entry, Ended, Refuse, Accept, ProfileFails, SpawnOver, SeriesOver,
      AuthorSearched, AuthorsOver, PickFull, PickNext, NextRound, Finish, vars

-----------------------------------------------------------------------------
(* Rounds *)

\* A pick is owed to an author of the profile, whose list is a sequence.
LEMMA PickHasAuthor ==
  ASSUME TypeOK, NEW k \in DOMAIN recs, recs[k].from # FromSeries
  PROVE  /\ recs[k].from \in Authors /\ recs[k].from \in Nat
         /\ lists[recs[k].from] \in Seq(Titles)
<1>1. recs[k] \in Rec
  BY DEF TypeOK
<1> QED
  BY <1>1 DEF Rec, Authors, FromSeries, TypeOK

\* The place of the round only moves forward.
LEMMA RoundMoves ==
  ASSUME TypeOK, RoundInv, InRounds, at'[Picker] # "enrich",
         rank' \in Nat, author' \in Nat, UNCHANGED <<lists, recs>>,
         rank' > rank \/ (rank' = rank /\ author' >= author)
  PROVE  RoundInv' /\ InRounds'
<1>1. ASSUME NEW k \in DOMAIN recs, recs[k].from # FromSeries
      PROVE  \E n \in DOMAIN lists[recs[k].from] :
               /\ lists[recs[k].from][n] = recs[k].title
               /\ n < rank' \/ (n = rank' /\ recs[k].from < author')
  <2>1. PICK n \in DOMAIN lists[recs[k].from] :
          /\ lists[recs[k].from][n] = recs[k].title
          /\ n < rank \/ (n = rank /\ recs[k].from < author)
    BY <1>1 DEF RoundInv
  <2>2. n \in Nat /\ recs[k].from \in Nat
    BY <1>1, PickHasAuthor
  <2>4. author \in Nat /\ rank \in Nat
    BY DEF TypeOK
  <2>3. n < rank' \/ (n = rank' /\ recs[k].from < author')
    BY <2>1, <2>2, <2>4
  <2> QED
    BY <2>1, <2>3
<1> QED
  BY <1>1 DEF RoundInv, InRounds

\* Every step keeps the place of the round ahead of the picks that were sent.
LEMMA NextRounds == RecInv /\ [Next]_vars => RoundInv' /\ InRounds'
<1> SUFFICES ASSUME RecInv, [Next]_vars PROVE RoundInv' /\ InRounds'
  OBVIOUS
<1> USE DEF requestVars, claimVars, authorVars, roundVars
<1>0. TypeOK /\ StageInv /\ RoundInv /\ InRounds
  BY DEF RecInv
<1>1. CASE UNCHANGED <<at, cand, lists, rank, author, recs>>
  BY <1>0, <1>1 DEF RoundInv, InRounds, HasCandidate
<1>2. CASE \/ Spawn
           \/ \E i \in Series : \E t \in Titles \union {None} : Resolve(i, t)
  <2>1. /\ UNCHANGED <<lists, rank, author, recs>>
        /\ at'[Picker] = at[Picker] /\ cand'[Picker] = cand[Picker]
    BY <1>0, <1>2 DEF Spawn, Resolve, Claim, TypeOK, Series, Picker, Emitters
  <2> QED
    BY <1>0, <2>1 DEF RoundInv, InRounds, HasCandidate
<1>3. ASSUME NEW i \in Series, SendEntry(i) PROVE RoundInv' /\ InRounds'
  <2>1. /\ UNCHANGED <<lists, rank, author, cand>>
        /\ at'[Picker] = at[Picker]
    BY <1>0, <1>3 DEF SendEntry, TypeOK, Series, Picker, Emitters
  <2>2. \A k \in DOMAIN recs' : recs'[k].from = FromSeries
    BY <1>0, <1>3 DEF SendEntry, StageInv, TypeOK
  <2> QED
    BY <1>0, <2>1, <2>2 DEF RoundInv, InRounds, HasCandidate
<1>4. ASSUME NEW a \in Authors, AuthorSearched(a) PROVE RoundInv' /\ InRounds'
  <2>1. PICK list \in Seq(Titles) : IsInjective(list) /\ lists' = [lists EXCEPT ![a] = list]
    BY <1>0, <1>4, SearchedList
  <2>2. IsInjective(list)
    BY <2>1
  <2>3. \A b \in Authors : IsInjective(lists'[b])
    BY <1>0, <2>1, <2>2 DEF RoundInv, TypeOK
  <2>4. \A k \in DOMAIN recs' : recs'[k].from = FromSeries
    BY <1>0, <1>4 DEF AuthorSearched, StageInv
  <2>5. at'[Picker] # "enrich"
    BY <1>0, <1>4 DEF AuthorSearched, StageInv
  <2> QED
    BY <2>3, <2>4, <2>5 DEF RoundInv, InRounds
<1>5. CASE PickNext
  <2>1. /\ UNCHANGED <<at, cand, lists, rank, recs>> /\ author' = author + 1
        /\ at[Picker] # "enrich"
    BY <1>5 DEF PickNext, Picking, Advance
  <2>2. rank \in Nat /\ author \in Nat
    BY <1>0 DEF TypeOK
  <2> QED
    BY <1>0, <2>1, <2>2, RoundMoves
<1>6. CASE PickClaim
  <2>1. UNCHANGED <<lists, rank, author, recs>> /\ HasCandidate
    BY <1>6 DEF PickClaim
  <2>2. cand'[Picker] = lists[author][rank]
    BY <1>0, <1>6 DEF PickClaim, Claim, TypeOK, Emitters
  <2> QED
    BY <1>0, <2>1, <2>2 DEF RoundInv, InRounds, HasCandidate
<1>7. CASE NextRound
  <2>1. UNCHANGED <<at, cand, lists, recs>> /\ at[Picker] # "enrich"
    BY <1>0, <1>7 DEF NextRound, StageInv, TypeOK
  <2>2. /\ rank' \in Nat /\ author' \in Nat
        /\ rank' > rank \/ (rank' = rank /\ author' >= author)
    BY <1>0, <1>7 DEF NextRound, TypeOK
  <2> QED
    BY <1>0, <2>1, <2>2, RoundMoves
<1>8. CASE SendPick
  <2> DEFINE r == [title |-> cand[Picker], from |-> author]
             last == Len(recs) + 1
  <2>1. /\ recs' = Append(recs, r) /\ author' = author + 1
        /\ UNCHANGED <<lists, rank>>
        /\ at'[Picker] # "enrich"
    BY <1>0, <1>8 DEF SendPick, Advance, TypeOK, Emitters
  <2>2. /\ author \in Authors /\ r.from = author
        /\ rank \in DOMAIN lists[author] /\ r.title = lists[author][rank]
    BY <1>0, <1>8 DEF SendPick, StageInv, RoundInv, HasCandidate, Authors, TypeOK
  <2>3. /\ DOMAIN recs' = 1..last /\ DOMAIN recs = 1..Len(recs) /\ Len(recs) \in Nat
        /\ recs'[last] = r
        /\ \A k \in DOMAIN recs : recs'[k] = recs[k]
    BY <1>0, <2>1 DEF TypeOK
  <2> HIDE DEF r
  <2>4. ASSUME NEW k \in DOMAIN recs', recs'[k].from # FromSeries
        PROVE  \E n \in DOMAIN lists'[recs'[k].from] :
                 /\ lists'[recs'[k].from][n] = recs'[k].title
                 /\ n < rank' \/ (n = rank' /\ recs'[k].from < author')
    <3>1. CASE k = last
      <4>1. rank < rank' \/ (rank = rank' /\ r.from < author')
        BY <2>1, <2>2 DEF Authors
      <4> QED
        BY <2>1, <2>2, <2>3, <3>1, <4>1
    <3>2. CASE k # last
      <4>1. k \in DOMAIN recs /\ recs'[k] = recs[k] /\ recs[k].from # FromSeries
        BY <2>3, <2>4, <3>2
      <4>2. recs[k].from \in Nat
        BY <1>0, <4>1, PickHasAuthor
      <4>3. PICK n \in DOMAIN lists[recs[k].from] :
              /\ lists[recs[k].from][n] = recs[k].title
              /\ n < rank \/ (n = rank /\ recs[k].from < author)
        BY <1>0, <4>1 DEF RoundInv
      <4>4. recs[k].from < author => recs[k].from < author'
        BY <2>1, <2>2, <4>2 DEF Authors
      <4> QED
        BY <2>1, <4>1, <4>3, <4>4
    <3> QED
      BY <3>1, <3>2
  <2>5. RankIn(lists[author], r.title) = rank
    BY <1>0, <2>2, RankIsPlace DEF RoundInv
  <2>6. ASSUME NEW j \in DOMAIN recs, recs[j].from # FromSeries
        PROVE  LET m == RankIn(lists[recs[j].from], recs[j].title)
               IN  m < rank \/ (m = rank /\ recs[j].from < author)
    <3>1. PICK n \in DOMAIN lists[recs[j].from] :
            /\ lists[recs[j].from][n] = recs[j].title
            /\ n < rank \/ (n = rank /\ recs[j].from < author)
      BY <1>0, <2>6 DEF RoundInv
    <3>2. recs[j].from \in Authors
      BY <1>0, <2>6, PickHasAuthor
    <3>3. RankIn(lists[recs[j].from], recs[j].title) = n
      BY <1>0, <3>1, <3>2, RankIsPlace DEF RoundInv
    <3> QED
      BY <3>1, <3>3
  <2>7. InRounds'
    BY <1>0, <2>1, <2>2, <2>3, <2>5, <2>6 DEF InRounds
  <2> QED
    BY <1>0, <2>1, <2>4, <2>7 DEF RoundInv
<1> QED
  BY <1>1, <1>2, <1>3, <1>4, <1>5, <1>6, <1>7, <1>8
  DEF Next, Handler, Entry, Ended, Refuse, Accept, ProfileFails, ProfileReady, SpawnOver,
      SeriesOver, AuthorsOver, PickFull, Finish, vars

-----------------------------------------------------------------------------
(* Theorems *)

\* The inductive invariant: stages do not overlap, every claim is sent or on
\* its way, the rounds move forward (recommendations.go:73-102, 212-383).
THEOREM RecInvariant == Spec => []RecInv
<1>1. RecInv /\ [Next]_vars => RecInv'
  BY NextType, NextStage, NextClaim, NextRounds DEF RecInv
<1> QED
  BY InitRec, <1>1, PTL DEF Spec

\* Every variable keeps its type; no empty key is ever claimed.
THEOREM TypeCorrect == Spec => []TypeOK
<1>1. RecInv => TypeOK
  BY DEF RecInv
<1> QED
  BY <1>1, RecInvariant, PTL

\* The picks by author come in rounds, the first author's first in each.
THEOREM PicksInRounds == Spec => []InRounds
<1>1. RecInv => InRounds
  BY DEF RecInv
<1> QED
  BY <1>1, RecInvariant, PTL

\* recs_done goes out only when every claimed recommendation has been sent.
THEOREM AllClaimsSent == Spec => []ClaimsSent
<1>1. ASSUME RecInv PROVE ClaimsSent
  <2> SUFFICES ASSUME ended = "done" PROVE Len(recs) = count
    BY DEF ClaimsSent
  <2>0. TypeOK /\ StageInv /\ ClaimInv
    BY <1>1 DEF RecInv
  <2>1. pc = "returned"
    BY <2>0 DEF StageInv
  <2>2. \A i \in Emitters : at[i] # "enrich"
    BY <2>0, <2>1 DEF StageInv, Emitters
  <2>3. Cardinality(Pending) = 0
    BY <2>2, FS_EmptySet DEF Pending
  <2> QED
    BY <2>0, <2>3 DEF ClaimInv, TypeOK
<1> QED
  BY <1>1, RecInvariant, PTL

\* While an emitter holds a claim there is room for it below the cap.
LEMMA ClaimHasRoom ==
  ASSUME TypeOK, ClaimInv, NEW i \in Pending
  PROVE  Len(recs) < MaxRecs
<1>1. IsFiniteSet(Pending)
  BY EmittersFinite, FS_Subset DEF Pending
<1>2. Cardinality(Pending) \in Nat /\ Cardinality(Pending) # 0
  BY <1>1, FS_CardinalityType, FS_EmptySet
<1> QED
  BY <1>2 DEF ClaimInv, TypeOK

\* A send is a recommendation of RecPromise.
LEMMA SendRecommends ==
  ASSUME RecInv, NEW i \in Emitters, at[i] = "enrich", ended = "no", ended' = "no",
         NEW from \in Promise!Sources,
         recs' = Append(recs, [title |-> cand[i], from |-> from]),
         from = FromSeries => \A k \in DOMAIN recs : recs[k].from = FromSeries,
         UNCHANGED excluded
  PROVE  Promise!Next
<1>0. TypeOK /\ ClaimInv /\ i \in Pending
  BY DEF RecInv, Pending
<1>1. Len(recs) < MaxRecs
  BY <1>0, ClaimHasRoom
<1>2. cand[i] \in Titles /\ cand[i] \notin excluded \union Promise!Recommended
  BY <1>0 DEF TypeOK, ClaimInv, Promise!Recommended
<1>3. Promise!Recommend(cand[i], from)
  BY <1>1, <1>2 DEF Promise!Recommend, Promise!FromSeries, FromSeries
<1> QED
  BY <1>2, <1>3 DEF Promise!Next

\* The stream implements its promise to the page: at most MaxRecs, no title
\* twice, none from the shelves, series before authors, nothing after the end.
THEOREM PromiseKept == Spec => ImplementsPromise
<1>1. Init => Promise!Init
  BY ExcludedAreTitles DEF Init, Promise!Init
<1>2. RecInv /\ [Next]_vars => [Promise!Next]_(Promise!promiseVars)
  <2> SUFFICES ASSUME RecInv, [Next]_vars
               PROVE  Promise!Next \/ UNCHANGED Promise!promiseVars
    OBVIOUS
  <2> USE DEF requestVars, claimVars, authorVars, roundVars, Promise!promiseVars
  <2>0. TypeOK /\ StageInv
    BY DEF RecInv
  <2>1. CASE UNCHANGED <<excluded, recs, ended>>
    BY <2>1
  <2>2. CASE Refuse \/ ProfileFails \/ Finish
    <3>1. ended = "no" /\ ended' # "no" /\ UNCHANGED <<excluded, recs>>
      BY <2>0, <2>2 DEF Refuse, ProfileFails, Finish, StageInv
    <3> QED
      BY <3>1 DEF Promise!Next, Promise!Close
  <2>3. ASSUME NEW i \in Series, SendEntry(i) PROVE Promise!Next
    <3>1. /\ i \in Emitters /\ at[i] = "enrich" /\ FromSeries \in Promise!Sources
          /\ ended = "no" /\ UNCHANGED <<excluded, ended>>
          /\ \A k \in DOMAIN recs : recs[k].from = FromSeries
      BY <2>0, <2>3 DEF SendEntry, StageInv, Emitters, Promise!Sources, Promise!FromSeries,
                        FromSeries
    <3> QED
      BY <2>3, <3>1, SendRecommends DEF SendEntry
  <2>4. CASE SendPick
    <3>1. /\ Picker \in Emitters /\ at[Picker] = "enrich"
          /\ ended = "no" /\ UNCHANGED <<excluded, ended>>
      BY <2>0, <2>4 DEF SendPick, StageInv, Emitters
    <3>2. author \in Authors /\ author # FromSeries
      BY <2>0, <3>1 DEF StageInv, TypeOK, Authors, FromSeries
    <3>3. author \in Promise!Sources
      BY <3>2 DEF Promise!Sources
    <3> QED
      BY <2>4, <3>1, <3>2, <3>3, SendRecommends DEF SendPick
  <2> QED
    BY <2>1, <2>2, <2>3, <2>4
    DEF Next, Handler, Entry, Ended, Accept, ProfileReady, Spawn, SpawnOver, Resolve,
        SeriesOver, AuthorSearched, AuthorsOver, PickFull, PickNext, PickClaim, NextRound, vars
<1> QED
  BY <1>1, <1>2, RecInvariant, PTL DEF Spec, ImplementsPromise, Promise!Spec

-----------------------------------------------------------------------------
(* The profile *)

\* A next entry to look for is one the reader stands before: he finished the one before
\* it, has it on no shelf, and disliked no book of its series.
LEMMA EntryIsNext ==
  ASSUME NEW s \in Shelves, NEW e \in NextEntries(s)
  PROVE  LET has(b, m) == b.series = e.series /\ m \in b.from..LastEntry(b) IN
         /\ e.series \in Series /\ e.number \in 1..MaxEntry
         /\ \E b \in s.read : has(b, e.number - 1)
         /\ \A b \in Both(s) : ~has(b, e.number)
         /\ \A b \in s.read : b.series = e.series => b.rating \notin 1..2 /\ LastEntry(b) < e.number
<1> DEFINE mine == {c \in s.read : c.series = e.series}
           ends == {LastEntry(b) : b \in mine}
           n == Max({0} \union ends)
<1>1. /\ e.series \in Series /\ e.number \in 1..MaxEntry
      /\ n # 0 /\ ~Suppressed(s, e.series)
      /\ e.number = n + 1 /\ e.number \notin Shelved(s, e.series)
  BY DEF NextEntries, MaxRead
<1>2. \A b \in s.read : b.from \in Nat /\ LastEntry(b) \in Nat /\ b.from <= LastEntry(b)
  BY DEF Book, LastEntry
<1>3. n \in {0} \union ends /\ \A k \in {0} \union ends : k <= n
  <2>1. IsFiniteSet(mine)
    BY FS_Subset
  <2>2. IsFiniteSet(ends)
    <3> DEFINE f == [b \in mine |-> LastEntry(b)]
    <3>1. f \in Surjection(mine, ends)
      BY DEF Surjection
    <3> QED
      BY <2>1, <3>1, FS_Surjection
  <2>3. IsFiniteSet({0} \union ends)
    BY <2>2, FS_Singleton, FS_Union
  <2>4. {0} \union ends \in SUBSET Nat
    BY <1>2
  <2> QED
    BY <2>3, <2>4, HasMax
<1> HIDE DEF n
<1>4. PICK b \in s.read : b.series = e.series /\ LastEntry(b) = n
  BY <1>1, <1>3
<1>5. e.number - 1 \in b.from..LastEntry(b)
  BY <1>1, <1>2, <1>4
<1>6. \A c \in Both(s) : c.series = e.series => e.number \notin c.from..LastEntry(c)
  BY <1>1 DEF Shelved
<1>7. \A c \in s.read : c.series = e.series => c.rating \notin 1..2
  BY <1>1 DEF Suppressed, LowRated
<1>8. \A c \in s.read : c.series = e.series => LastEntry(c) < e.number
  BY <1>1, <1>2, <1>3
<1> QED
  BY <1>1, <1>4, <1>5, <1>6, <1>7, <1>8

\* An author whose books are looked for was liked, or finished twice, and disliked less
\* often than not.
LEMMA LikedIsEarned ==
  ASSUME NEW s \in Shelves, NEW name \in Liked(s)
  PROVE  LET by(ratings) == {b \in s.read : b.author = name /\ b.rating \in ratings} IN
         /\ by(4..5) # {} \/ Cardinality(by({0, 3})) >= 2
         /\ Cardinality(by({0, 3, 4, 5})) > Cardinality(by(1..2))
<1> DEFINE by(ratings) == {b \in s.read : b.author = name /\ b.rating \in ratings}
           S == {b \in s.read : b.author = name}
           w == [b \in S |-> Weight(b)]
<1>1. IsFiniteSet(S)
  BY FS_Subset
<1>2. \A b \in S : b.rating \in 0..5
  BY DEF Book
<1>3. \A b \in S : /\ b.rating \in {4, 5} => w[b] = 4
                   /\ b.rating = 3 => w[b] = 1
                   /\ b.rating \in 1..2 => w[b] = -4
                   /\ b.rating = 0 => w[b] = 2
  BY <1>2 DEF Weight, LowRated
<1>4. w \in [S -> Int]
  <2>1. \A b \in S : Weight(b) \in Int
    BY <1>2 DEF Weight, LowRated
  <2> QED
    BY <2>1
<1>5. PICK sum : IsSumOf(sum, S, w) /\ MapThenSumSet(LAMBDA b : Weight(b), S) = sum[S]
  <2> HIDE DEF S
  <2> QED
    BY <1>1, <1>4, WeightIsSum
<1>6. sum[S] >= 4
  BY <1>5 DEF Liked, AuthorWeight, minAuthorWeight
<1> HIDE DEF w
<1>7. \A R \in SUBSET (0..5) : /\ by(R) \in SUBSET S /\ S \ by(R) = by((0..5) \ R)
                               /\ Cardinality(by(R)) \in Nat
  <2>1. \A R \in SUBSET (0..5) : by(R) \in SUBSET S /\ S \ by(R) = by((0..5) \ R)
    BY <1>2
  <2> QED
    BY <1>1, <2>1, FS_Subset, FS_CardinalityType
<1>8. Cardinality(by({0, 3, 4, 5})) > Cardinality(by(1..2))
  <2> DEFINE G == by({0, 3, 4, 5})
  <2>1. S \ G = by(1..2) /\ G \in SUBSET S
    BY <1>2
  <2>2. \A b \in G : w[b] <= 4
    BY <1>3
  <2>3. \A b \in S \ G : w[b] <= -4
    BY <1>3, <2>1
  <2>4. Cardinality(G) \in Nat /\ Cardinality(S \ G) \in Nat
    BY <1>1, <2>1, FS_Subset, FS_CardinalityType
  <2>5. sum[S] \in Int /\ sum[S] <= 4 * Cardinality(G) - 4 * Cardinality(S \ G)
    BY <1>1, <1>4, <1>5, <2>1, <2>2, <2>3, SumBounded
  <2>6. Cardinality(G) > Cardinality(S \ G)
    BY <1>6, <2>4, <2>5
  <2> QED
    BY <2>1, <2>6
<1>9. ASSUME by(4..5) = {} PROVE Cardinality(by({0, 3})) >= 2
  <2> DEFINE G == by({0, 3})
  <2>1. S \ G = by(1..2) /\ G \in SUBSET S
    BY <1>2, <1>9
  <2>2. \A b \in G : w[b] <= 2
    BY <1>3
  <2>3. \A b \in S \ G : w[b] <= -0
    BY <1>3, <2>1
  <2>4. Cardinality(G) \in Nat /\ Cardinality(S \ G) \in Nat
    BY <1>1, <2>1, FS_Subset, FS_CardinalityType
  <2>5. sum[S] \in Int /\ sum[S] <= 2 * Cardinality(G) - 0 * Cardinality(S \ G)
    BY <1>1, <1>4, <1>5, <2>1, <2>2, <2>3, SumBounded
  <2>6. 0 * Cardinality(S \ G) = 0
    BY <2>4
  <2> QED
    BY <1>6, <2>4, <2>5, <2>6
<1> QED
  BY <1>8, <1>9

\* What is looked for, claimed and sent comes from the profile: a title of a next entry,
\* or one of an author of the profile, whose shelf no step changes.
SourceInv ==
  /\ \A i \in DOMAIN entries : entries[i] \in NextEntries(shelf)
  /\ \A a \in DOMAIN authors : authors[a] \in Liked(shelf)
  /\ \A i \in Series : at[i] = "enrich" =>
       cand[i] \in EntryTitles[entries[i].series][entries[i].number]
  /\ \A k \in DOMAIN recs :
       \/ /\ recs[k].from = FromSeries
          /\ \E e \in NextEntries(shelf) : recs[k].title \in EntryTitles[e.series][e.number]
       \/ recs[k].from # FromSeries /\ recs[k].from \in DOMAIN authors

\* A list of the profile lists what it is to list.
LEMMA LeadingIsOf ==
  ASSUME NEW S, NEW max \in Nat, NEW q, q \in UNION {[1..n -> S] : n \in 0..max}
  PROVE  \A i \in DOMAIN q : q[i] \in S
<1>1. PICK n \in 0..max : q \in [1..n -> S]
  OBVIOUS
<1> QED
  BY <1>1

\* Every step keeps to the profile.
LEMMA NextSource == RecInv /\ SourceInv /\ [Next]_vars => SourceInv'
<1> SUFFICES ASSUME RecInv, SourceInv, [Next]_vars PROVE SourceInv'
  OBVIOUS
<1> USE DEF requestVars, claimVars, authorVars, roundVars
<1>0. TypeOK /\ StageInv /\ Picker \notin Series
  BY DEF RecInv, Picker, Series
<1>1. CASE UNCHANGED <<at, cand, recs, entries, authors, shelf>>
  BY <1>1 DEF SourceInv
<1>2. CASE ProfileReady
  <2>1. \A i \in DOMAIN entries' : entries'[i] \in NextEntries(shelf)
    <3>1. entries' \in UNION {[1..n -> NextEntries(shelf)] : n \in 0..MaxSeries}
      BY <1>2, Zenon DEF ProfileReady, Leading
    <3> QED
      BY <3>1, LeadingIsOf
  <2>2. \A a \in DOMAIN authors' : authors'[a] \in Liked(shelf)
    <3>1. authors' \in UNION {[1..n -> Liked(shelf)] : n \in 0..MaxAuthors}
      BY <1>2, Zenon DEF ProfileReady, Leading
    <3> QED
      BY <3>1, LeadingIsOf
  <2>3. /\ UNCHANGED <<shelf, at, recs>> /\ recs = <<>>
        /\ \A i \in Series : at[i] = "idle"
    BY <1>0, <1>2 DEF ProfileReady, StageInv, Emitters
  <2>4. DOMAIN recs = {}
    BY <2>3
  <2> QED
    BY <2>1, <2>2, <2>3, <2>4 DEF SourceInv
<1>3. CASE Spawn
  <2>1. UNCHANGED <<cand, recs, entries, authors, shelf>>
    BY <1>3 DEF Spawn
  <2>2. \A i \in Series : at'[i] = "enrich" => at[i] = "enrich"
    BY <1>0, <1>3 DEF Spawn, TypeOK, Emitters
  <2> QED
    BY <2>1, <2>2 DEF SourceInv
<1>4. ASSUME NEW i \in Series, NEW t \in Titles \union {None}, Resolve(i, t) PROVE SourceInv'
  <2>1. UNCHANGED <<recs, entries, authors, shelf>>
    BY <1>4 DEF Resolve
  <2>2. CASE Claim(i, t)
    <3>1. t # None /\ t \in EntryTitles[entries[i].series][entries[i].number]
      BY <1>4, <2>2 DEF Resolve, Claim, Claimable
    <3>2. \A j \in Series : /\ cand'[j] = IF j = i THEN t ELSE cand[j]
                            /\ j # i => at'[j] = at[j]
      BY <1>0, <2>2 DEF Claim, TypeOK, Emitters
    <3> QED
      BY <2>1, <3>1, <3>2 DEF SourceInv
  <2>3. CASE ~Claim(i, t)
    <3>1. UNCHANGED cand /\ \A j \in Series : at'[j] = "enrich" => at[j] = "enrich"
      BY <1>0, <1>4, <2>3 DEF Resolve, TypeOK, Emitters
    <3> QED
      BY <2>1, <3>1 DEF SourceInv
  <2> QED
    BY <2>2, <2>3
<1>5. ASSUME NEW i \in Series, SendEntry(i) PROVE SourceInv'
  <2>1. /\ UNCHANGED <<cand, entries, authors, shelf>> /\ at[i] = "enrich"
        /\ recs' = Append(recs, [title |-> cand[i], from |-> FromSeries])
        /\ at' = [at EXCEPT ![i] = "end"]
    BY <1>5 DEF SendEntry
  <2>2. \A j \in Series : at'[j] = "enrich" => at[j] = "enrich"
    BY <1>0, <2>1 DEF TypeOK, Emitters
  <2>3. i \in DOMAIN entries
    <3>1. i \in 1..spawned /\ spawned \in 0..Len(entries)
      BY <1>0, <2>1 DEF StageInv, TypeOK, Series
    <3> QED
      BY <1>0, <3>1 DEF TypeOK
  <2>4. \E e \in NextEntries(shelf) : cand[i] \in EntryTitles[e.series][e.number]
    BY <2>1, <2>3 DEF SourceInv
  <2>5. \A k \in DOMAIN recs' : \/ k \in DOMAIN recs /\ recs'[k] = recs[k]
                               \/ recs'[k] = [title |-> cand[i], from |-> FromSeries]
    BY <1>0, <2>1 DEF TypeOK
  <2> QED
    BY <2>1, <2>2, <2>4, <2>5 DEF SourceInv
<1>6. CASE PickClaim
  <2>1. /\ UNCHANGED <<recs, entries, authors, shelf>>
        /\ \A j \in Series : at'[j] = at[j] /\ cand'[j] = cand[j]
    BY <1>0, <1>6 DEF PickClaim, Claim, TypeOK, Emitters
  <2> QED
    BY <2>1 DEF SourceInv
<1>7. CASE SendPick
  <2>1. /\ UNCHANGED <<cand, entries, authors, shelf>> /\ at[Picker] = "enrich"
        /\ recs' = Append(recs, [title |-> cand[Picker], from |-> author])
        /\ at' = [at EXCEPT ![Picker] = "idle"]
    BY <1>7 DEF SendPick
  <2>2. \A j \in Series : at'[j] = at[j]
    BY <1>0, <2>1 DEF TypeOK, Emitters
  <2>3. author \in DOMAIN authors /\ author # FromSeries
    BY <1>0, <2>1 DEF StageInv, TypeOK, FromSeries
  <2>4. \A k \in DOMAIN recs' : \/ k \in DOMAIN recs /\ recs'[k] = recs[k]
                               \/ recs'[k] = [title |-> cand[Picker], from |-> author]
    BY <1>0, <2>1 DEF TypeOK
  <2> QED
    BY <2>1, <2>2, <2>3, <2>4 DEF SourceInv
<1> QED
  BY <1>1, <1>2, <1>3, <1>4, <1>5, <1>6, <1>7
  DEF Next, Handler, Entry, Ended, Refuse, Accept, ProfileFails, SpawnOver, SeriesOver,
      AuthorSearched, AuthorsOver, PickFull, PickNext, NextRound, Finish, vars

LEMMA SourceInvariant == Spec => []SourceInv
<1>1. Init => SourceInv
  BY DEF Init, SourceInv, Emitters, Series
<1>2. RecInv /\ SourceInv /\ [Next]_vars => SourceInv'
  BY NextSource
<1> QED
  BY <1>1, <1>2, RecInvariant, PTL DEF Spec

\* What is sent as the next of a series is the entry after the last one the reader
\* finished, is on neither of his shelves, and is of no series he disliked a book of:
\* for every shelf, every answer of the libraries and every interleaving of the searches.
THEOREM NextOfSeriesIsUnread == Spec => []NextEntryUnread
<1>1. TypeOK /\ SourceInv => NextEntryUnread
  <2> SUFFICES ASSUME TypeOK, SourceInv, NEW k \in DOMAIN recs, recs[k].from = FromSeries
               PROVE  \E i \in Series, n \in 1..MaxEntry :
                        LET has(b, m) == b.series = i /\ m \in b.from..LastEntry(b) IN
                        /\ recs[k].title \in EntryTitles[i][n]
                        /\ \E b \in shelf.read : has(b, n - 1)
                        /\ \A b \in Both(shelf) : ~has(b, n)
                        /\ \A b \in shelf.read : b.series = i =>
                             b.rating \notin 1..2 /\ LastEntry(b) < n
    BY DEF NextEntryUnread
  <2>1. PICK e \in NextEntries(shelf) : recs[k].title \in EntryTitles[e.series][e.number]
    BY DEF SourceInv
  <2>2. shelf \in Shelves
    BY DEF TypeOK
  <2> QED
    BY <2>1, <2>2, EntryIsNext
<1> QED
  BY <1>1, TypeCorrect, SourceInvariant, PTL

\* An author's other books are recommended only if the reader rated one of his books 4-5
\* or finished two, and disliked fewer of them than he finished without disliking.
THEOREM AuthorsAreEarned == Spec => []AuthorsEarned
<1>1. TypeOK /\ SourceInv => AuthorsEarned
  <2> SUFFICES ASSUME TypeOK, SourceInv, NEW k \in DOMAIN recs, recs[k].from # FromSeries
               PROVE  LET by(ratings) == {b \in shelf.read : /\ b.author = authors[recs[k].from]
                                                            /\ b.rating \in ratings}
                      IN  /\ by(4..5) # {} \/ Cardinality(by({0, 3})) >= 2
                          /\ by(1..2) # {} =>
                               Cardinality(by({0, 3, 4, 5})) > Cardinality(by(1..2))
    BY DEF AuthorsEarned
  <2>1. authors[recs[k].from] \in Liked(shelf) /\ shelf \in Shelves
    BY DEF SourceInv, TypeOK
  <2> QED
    BY <2>1, LikedIsEarned
<1> QED
  BY <1>1, TypeCorrect, SourceInvariant, PTL
=============================================================================
