----------------------------- MODULE RecProfile -----------------------------
(***************************************************************************)
(* The taste profile: buildRecProfile and RecSeries.NextUnread             *)
(* (internal/services/recprofile.go).                                      *)
(*                                                                         *)
(* Names of series and authors are numbers in the order of the alphabet;   *)
(* 0 is no series and no author. A title stands for its recTitleKey. No    *)
(* two books of a shelf are alike in everything that is modelled.          *)
(***************************************************************************)
EXTENDS Integers, FiniteSets, FiniteSetsExt, Functions

CONSTANTS
  Titles,
  None,         \* the key of a title of which nothing is left
  MaxSeries,    \* bound on the series on a shelf
  AuthorNames,
  MaxEntry,     \* bound on the number of an entry
  Shelves       \* what may be on a reader's shelves

Series == 1..MaxSeries

\* rating 0: unrated. A title annotated "#3" has from = 3 and to = 0, one annotated
\* "#1-3" from = 1 and to = 3.
Book ==
  [key : Titles \union {None}, author : AuthorNames \union {0}, rating : 0..5,
   series : Series \union {0}, from : Nat, to : Nat]

ASSUME ProfileAssumption ==
  /\ IsFiniteSet(Titles) /\ None \notin Titles
  /\ MaxSeries \in Nat /\ MaxEntry \in Nat
  /\ AuthorNames \subseteq Nat \ {0}
  /\ \A s \in Shelves : /\ s.read \subseteq Book /\ s.want \subseteq Book
                        /\ IsFiniteSet(s.read)

-----------------------------------------------------------------------------
(* A shelf *)

Both(s) == s.read \union s.want

Excluded(s) == {b.key : b \in Both(s)} \ {None}

\* The last entry of an annotation, which need not be a range.
LastEntry(b) == IF b.to > b.from THEN b.to ELSE b.from

LowRated(b) == b.rating \in 1..2

-----------------------------------------------------------------------------
(* Series *)

\* mutant: what is only wanted counts as finished
MaxReadOnBoth(s, name) ==
  Max({0} \union {LastEntry(b) : b \in {c \in Both(s) : c.series = name}})
MaxRead(s, name) ==
  Max({0} \union {LastEntry(b) : b \in {c \in s.read : c.series = name}})

Shelved(s, name) ==
  UNION {b.from..LastEntry(b) : b \in {c \in Both(s) : c.series = name}}

Suppressed(s, name) == \E b \in s.read : b.series = name /\ LowRated(b)

\* The entries to look for: one of every series begun and not disliked.
NextEntries(s) ==
  {e \in [series : Series, number : 1..MaxEntry] :
     /\ MaxRead(s, e.series) # 0 /\ ~Suppressed(s, e.series)
     /\ e.number = MaxRead(s, e.series) + 1
     /\ e.number \notin Shelved(s, e.series)}

-----------------------------------------------------------------------------
(* Authors *)

\* Weights are doubled, as 3 stars weigh a half.
\* mutant: a finished book weighs as much as one that was liked
WeightUnrated(b) == CASE b.rating \in {0, 4, 5} -> 4 [] b.rating = 3 -> 1 [] LowRated(b) -> -4
Weight(b) ==
  CASE b.rating \in 4..5 -> 4
    [] b.rating = 3 -> 1
    [] LowRated(b) -> -4
    [] b.rating = 0 -> 2

minAuthorWeight == 4

AuthorWeight(s, name) ==
  MapThenSumSet(LAMBDA b : Weight(b), {b \in s.read : b.author = name})

Liked(s) == {name \in AuthorNames : AuthorWeight(s, name) >= minAuthorWeight}

-----------------------------------------------------------------------------
(* The order in which they are tried *)

\* The first of S, max at most.
Leading(max, S, Before(_, _)) ==
  {q \in UNION {[1..n -> S] : n \in 0..max} :
     /\ \A i, j \in DOMAIN q : i < j => Before(q[i], q[j])
     /\ \A x \in S \ Range(q) : \A i \in DOMAIN q : Before(q[i], x)
     /\ S \subseteq Range(q) \/ Cardinality(DOMAIN q) = max}

ByName(e, f) == e.series < f.series

Stronger(s, a, b) ==
  \/ AuthorWeight(s, a) > AuthorWeight(s, b)
  \/ AuthorWeight(s, a) = AuthorWeight(s, b) /\ a < b

=============================================================================
