------------------------------ MODULE RecStream ------------------------------
(***************************************************************************)
(* One request for recommendations: RecommendationsHandler.ServeHTTP       *)
(* (internal/handlers/recommendations.go) and RecommendationService.Stream *)
(* (internal/services/recommendations.go).                                 *)
(*                                                                         *)
(* A goroutine per series of the taste profile looks for its next entry;   *)
(* when all have returned, a goroutine per author lists candidates; then   *)
(* Stream itself picks from the lists in rounds. Both stages claim a title *)
(* in recState (tryEmit) before they enrich it, which takes long, and send *)
(* it afterwards.                                                          *)
(*                                                                         *)
(* The shelves are as the taste profile has them, which may be a day old   *)
(* (rec_profile). The libraries' answers are free: an                      *)
(* entry is found under any of its titles or not at all, an author's list  *)
(* is any ranking of titles by the author that are not seen. Searches that *)
(* fail, find nothing available or end with the client's context all come  *)
(* back without a candidate, so the client needs no variable of its own.   *)
(* rec_progress events and the count in recs_done are left out.            *)
(***************************************************************************)
EXTENDS RecProfile, Sequences

CONSTANTS
  MaxAuthors,     \* maxAuthors
  EntryTitles,    \* the titles libraries have for an entry of a series
  WrittenBy,      \* the titles whose creator matches an author
  MaxRecs         \* maxRecs

Authors == 1..MaxAuthors

ASSUME RecAssumption ==
  /\ MaxAuthors \in Nat
  /\ EntryTitles \in [Series -> [1..MaxEntry -> SUBSET Titles]]
  /\ WrittenBy \in [AuthorNames -> SUBSET Titles]
  /\ MaxRecs \in Int

VARIABLES
  pc,         \* where the handler's goroutine is
  shelf,      \* the reader's shelves
  excluded,   \* profile.Excluded
  entries,    \* the unread next entries of profile.Series
  authors,    \* profile.Authors, cut to maxAuthors
  spawned,    \* the series started so far
  at,         \* where each emitter is
  cand,       \* the title each emitter has claimed and is enriching
  seen,       \* recState.seen
  count,      \* recState.count
  searching,  \* the authors whose search has not returned
  lists,      \* candidateLists
  rank,       \* idx of the round, from 1
  author,     \* i of the round, from 1
  emitted,    \* emittedAny
  recs,       \* the "rec" events written
  ended       \* how the response ended

requestVars == <<shelf, excluded, entries, authors>>
claimVars == <<seen, count>>
authorVars == <<searching, lists>>
roundVars == <<rank, author, emitted>>
vars == <<pc, requestVars, spawned, at, cand, claimVars, authorVars, roundVars,
          recs, ended>>

\* The goroutine of each series; the picks by author are made by Stream itself.
Picker == 0
Emitters == {Picker} \union Series

FromSeries == 0

nseries == Len(entries)
nauthors == Len(authors)

Init ==
  /\ pc = "params"
  /\ shelf \in Shelves /\ excluded = Excluded(shelf)
  /\ entries = <<>> /\ authors = <<>> /\ spawned = 0
  /\ at = [i \in Emitters |-> "idle"]
  /\ cand = [i \in Emitters |-> None]
  /\ seen = {} /\ count = 0
  /\ searching = {}
  /\ lists = [a \in Authors |-> <<>>]
  /\ rank = 1 /\ author = 1 /\ emitted = FALSE
  /\ recs = <<>>
  /\ ended = "no"

-----------------------------------------------------------------------------
(* recState *)

Full == count >= MaxRecs

\* mutant: the cap is left to the callers' checks of full()
ClaimableOverCap(t) == t # None /\ t \notin seen
Claimable(t) == t # None /\ ~Full /\ t \notin seen

\* tryEmit succeeds, and enrichment begins.
Claim(i, t) ==
  /\ Claimable(t)
  /\ seen' = seen \union {t}
  /\ count' = count + 1
  /\ at' = [at EXCEPT ![i] = "enrich"]
  /\ cand' = [cand EXCEPT ![i] = t]

-----------------------------------------------------------------------------
(* The handler up to the profile *)

Refuse ==
  /\ pc = "params"
  /\ pc' = "returned" /\ ended' = "refused"
  /\ UNCHANGED <<requestVars, spawned, at, cand, claimVars, authorVars, roundVars, recs>>

Accept ==
  /\ pc = "params"
  /\ pc' = "profile"
  /\ UNCHANGED <<requestVars, spawned, at, cand, claimVars, authorVars, roundVars, recs,
                 ended>>

\* A shelf cannot be fetched.
ProfileFails ==
  /\ pc = "profile"
  /\ pc' = "returned" /\ ended' = "error"
  /\ UNCHANGED <<requestVars, spawned, at, cand, claimVars, authorVars, roundVars, recs>>

ProfileReady ==
  /\ pc = "profile"
  /\ entries' \in Leading(MaxSeries, NextEntries(shelf), ByName)
  /\ authors' \in Leading(MaxAuthors, Liked(shelf), LAMBDA a, b : Stronger(shelf, a, b))
  /\ seen' = excluded
  /\ pc' = "series"
  /\ UNCHANGED <<shelf, excluded, spawned, at, cand, count, authorVars, roundVars, recs, ended>>

-----------------------------------------------------------------------------
(* runSeriesStage *)

Spawn ==
  /\ pc = "series"
  /\ spawned < nseries /\ ~Full
  /\ spawned' = spawned + 1
  /\ at' = [at EXCEPT ![spawned + 1] = "search"]
  /\ UNCHANGED <<pc, requestVars, cand, claimVars, authorVars, roundVars, recs, ended>>

SpawnOver ==
  /\ pc = "series"
  /\ spawned = nseries \/ Full
  /\ pc' = "seriesWait"
  /\ UNCHANGED <<requestVars, spawned, at, cand, claimVars, authorVars, roundVars, recs,
                 ended>>

\* resolveSeriesEntry: what the libraries answered, and tryEmit.
Resolve(i, t) ==
  /\ at[i] = "search"
  /\ t \in EntryTitles[entries[i].series][entries[i].number] \union {None}
  /\ \/ Claim(i, t)
     \/ /\ ~Claimable(t)
        /\ at' = [at EXCEPT ![i] = "end"]
        /\ UNCHANGED <<cand, claimVars>>
  /\ UNCHANGED <<pc, requestVars, spawned, authorVars, roundVars, recs, ended>>

SendEntry(i) ==
  /\ i # Picker
  /\ at[i] = "enrich"
  /\ recs' = Append(recs, [title |-> cand[i], from |-> FromSeries])
  /\ at' = [at EXCEPT ![i] = "end"]
  /\ UNCHANGED <<pc, requestVars, spawned, cand, claimVars, authorVars, roundVars, ended>>

\* mutant: the stages are not separated by wg.Wait
SeriesOverAtOnce ==
  /\ pc = "seriesWait"
  /\ IF Full \/ nauthors = 0
       THEN pc' = "finish" /\ UNCHANGED searching
       ELSE pc' = "authors" /\ searching' = 1..nauthors
  /\ UNCHANGED <<requestVars, spawned, at, cand, claimVars, lists, roundVars, recs, ended>>
\* wg.Wait of the series stage; the author stage starts unless the list is full.
SeriesOver ==
  /\ pc = "seriesWait"
  /\ \A i \in 1..spawned : at[i] = "end"
  /\ IF Full \/ nauthors = 0
       THEN pc' = "finish" /\ UNCHANGED searching
       ELSE pc' = "authors" /\ searching' = 1..nauthors
  /\ UNCHANGED <<requestVars, spawned, at, cand, claimVars, lists, roundVars, recs, ended>>

-----------------------------------------------------------------------------
(* runAuthorStage *)

\* The order in which a set of titles, or part of it, may come back.
Rankings(S) == UNION {Injection(1..n, S) : n \in 0..Cardinality(S)}

AuthorSearched(a) ==
  /\ pc = "authors"
  /\ a \in searching
  /\ \E list \in Rankings(WrittenBy[authors[a]] \ seen) : lists' = [lists EXCEPT ![a] = list]
  /\ searching' = searching \ {a}
  /\ UNCHANGED <<pc, requestVars, spawned, at, cand, claimVars, roundVars, recs, ended>>

AuthorsOver ==
  /\ pc = "authors"
  /\ searching = {}
  /\ pc' = "pick"
  /\ UNCHANGED <<requestVars, spawned, at, cand, claimVars, authorVars, roundVars, recs,
                 ended>>

Picking == pc = "pick" /\ at[Picker] = "idle" /\ author <= nauthors
HasCandidate == rank <= Len(lists[author])

\* mutant: the loops are swapped, one author's list after the other
AdvanceByAuthor ==
  IF HasCandidate
    THEN rank' = rank + 1 /\ UNCHANGED author
    ELSE rank' = 1 /\ author' = author + 1
Advance == author' = author + 1 /\ UNCHANGED rank

PickFull ==
  /\ Picking /\ Full
  /\ pc' = "finish"
  /\ UNCHANGED <<requestVars, spawned, at, cand, claimVars, authorVars, roundVars, recs,
                 ended>>

\* The list is too short, or tryEmit refuses.
PickNext ==
  /\ Picking /\ ~Full
  /\ ~(HasCandidate /\ Claimable(lists[author][rank]))
  /\ Advance
  /\ UNCHANGED <<pc, requestVars, spawned, at, cand, claimVars, authorVars, emitted, recs,
                 ended>>

PickClaim ==
  /\ Picking /\ HasCandidate
  /\ Claim(Picker, lists[author][rank])
  /\ UNCHANGED <<pc, requestVars, spawned, authorVars, roundVars, recs, ended>>

SendPick ==
  /\ at[Picker] = "enrich"
  /\ recs' = Append(recs, [title |-> cand[Picker], from |-> author])
  /\ at' = [at EXCEPT ![Picker] = "idle"]
  /\ emitted' = TRUE
  /\ Advance
  /\ UNCHANGED <<pc, requestVars, spawned, cand, claimVars, authorVars, ended>>

\* mutant: only a full list ends the rounds
NextRoundUntilFull ==
  /\ pc = "pick" /\ author > nauthors
  /\ rank' = IF emitted THEN rank + 1 ELSE rank
  /\ author' = 1 /\ emitted' = FALSE
  /\ UNCHANGED <<pc, requestVars, spawned, at, cand, claimVars, authorVars, recs, ended>>
NextRound ==
  /\ pc = "pick" /\ author > nauthors
  /\ IF emitted
       THEN rank' = rank + 1 /\ author' = 1 /\ emitted' = FALSE /\ UNCHANGED pc
       ELSE pc' = "finish" /\ UNCHANGED roundVars
  /\ UNCHANGED <<requestVars, spawned, at, cand, claimVars, authorVars, recs, ended>>

\* Stream has returned: recs_done.
Finish ==
  /\ pc = "finish"
  /\ ended' = "done" /\ pc' = "returned"
  /\ UNCHANGED <<requestVars, spawned, at, cand, claimVars, authorVars, roundVars, recs>>

Ended == pc = "returned" /\ UNCHANGED vars

Handler ==
  \/ Refuse \/ Accept \/ ProfileFails \/ ProfileReady
  \/ Spawn \/ SpawnOver \/ SeriesOver
  \/ AuthorsOver \/ PickFull \/ PickNext \/ PickClaim \/ SendPick \/ NextRound
  \/ Finish

Entry(i) == SendEntry(i) \/ \E t \in Titles \union {None} : Resolve(i, t)

Next ==
  \/ Handler
  \/ \E i \in Series : Entry(i)
  \/ \E a \in Authors : AuthorSearched(a)
  \/ Ended

Spec == Init /\ [][Next]_vars

\* Every upstream call has a timeout, and goroutines are scheduled.
FairSpec ==
  /\ Spec
  /\ WF_vars(Handler)
  /\ \A i \in Series : WF_vars(Entry(i))
  /\ \A a \in Authors : WF_vars(AuthorSearched(a))

-----------------------------------------------------------------------------
(* Properties *)

Rec == [title : Titles, from : 0..MaxAuthors]

\* Every variable has its type; a claimed title is a title, never the empty
\* key tryEmit turns away (recommendations.go:96).
TypeOK ==
  /\ pc \in {"params", "profile", "series", "seriesWait", "authors", "pick", "finish",
             "returned"}
  /\ shelf \in Shelves /\ excluded \in SUBSET Titles
  /\ entries \in Seq([series : Series, number : 1..MaxEntry]) /\ nseries <= MaxSeries
  /\ authors \in Seq(AuthorNames) /\ nauthors <= MaxAuthors
  /\ spawned \in 0..nseries
  /\ at \in [Emitters -> {"idle", "search", "enrich", "end"}]
  /\ cand \in [Emitters -> Titles \union {None}]
  /\ \A i \in Emitters : at[i] = "enrich" => cand[i] \in Titles
  /\ seen \in SUBSET Titles
  /\ count \in Nat
  /\ searching \in SUBSET (1..nauthors)
  /\ lists \in [Authors -> Seq(Titles)]
  /\ rank \in Nat \ {0} /\ author \in 1..MaxAuthors + 1 /\ emitted \in BOOLEAN
  /\ recs \in Seq(Rec)
  /\ ended \in {"no", "refused", "error", "done"}

\* The stream keeps the promise of RecPromise: never more than the cap, no
\* title twice and none from the shelves, series before authors, although both
\* stages claim, enrich and send in separate steps (recommendations.go:73-102).
Promise == INSTANCE RecPromise WITH shelved <- excluded, open <- ended = "no"
ImplementsPromise == Promise!Spec

\* When recs_done goes out, everything that was claimed against the cap was
\* sent: no goroutine still enriches (recommendations.go:255, 354; handler :94).
ClaimsSent == ended = "done" => Len(recs) = count

\* "Round-robin across authors so the strongest-weighted author's picks lead,
\* but no single author floods the list" (recommendations.go:356-357): the
\* picks come in the order of their rank, and of the authors within a rank.
RankIn(list, t) == CHOOSE k \in DOMAIN list : list[k] = t
InRounds ==
  \A j, k \in DOMAIN recs :
    j < k /\ recs[j].from # FromSeries =>
      LET m == RankIn(lists[recs[j].from], recs[j].title)
          n == RankIn(lists[recs[k].from], recs[k].title)
      IN  m < n \/ (m = n /\ recs[j].from < recs[k].from)

\* "the next series entry to recommend" (recprofile.go:40-51): what is sent as
\* the next of a series is sold as the entry after the last the reader finished, is on
\* neither shelf, and belongs to no series of which he disliked a book.
NextEntryUnread ==
  \A k \in DOMAIN recs : recs[k].from = FromSeries =>
    \E i \in Series, n \in 1..MaxEntry :
      LET has(b, m) == b.series = i /\ m \in b.from..LastEntry(b) IN
      /\ recs[k].title \in EntryTitles[i][n]
      /\ \E b \in shelf.read : has(b, n - 1)
      /\ \A b \in Both(shelf) : ~has(b, n)
      /\ \A b \in shelf.read : b.series = i => b.rating \notin 1..2 /\ LastEntry(b) < n

\* "two finished books, or one rated 4-5" (recprofile.go:135-136): nobody's other books
\* are recommended who was read less than that, or more often disliked than liked.
AuthorsEarned ==
  \A k \in DOMAIN recs : recs[k].from # FromSeries =>
    LET by(ratings) == {b \in shelf.read : /\ b.author = authors[recs[k].from]
                                          /\ b.rating \in ratings}
    IN  /\ by(4..5) # {} \/ Cardinality(by({0, 3})) >= 2
        /\ by(1..2) # {} => Cardinality(by({0, 3, 4, 5})) > Cardinality(by(1..2))

\* Every request ends, with whatever the libraries answer.
StreamEnds == <>(pc = "returned")

\* What the comments say of the two stages: the candidates are emitted
\* round-robin (recommendations.go:319-321) until the cap is reached (73-75).
\* Not so: a round of duplicates ends the loop with candidates left (379-381).
AllPicked ==
  ended = "done" /\ ~Full =>
    \A a \in 1..nauthors : \A k \in DOMAIN lists[a] : lists[a][k] \in seen

=============================================================================
