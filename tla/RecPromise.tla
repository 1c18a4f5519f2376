----------------------------- MODULE RecPromise -----------------------------
(***************************************************************************)
(* What a recommendations stream promises the page                         *)
(* (public/js/results.js appends a card for each "rec"): at most MaxRecs   *)
(* books, none of them twice, none on the reader's shelves, the next       *)
(* entries of series before the picks by author, and nothing after the end.*)
(***************************************************************************)
EXTENDS Integers, Sequences

CONSTANTS Titles, Authors, MaxRecs

VARIABLES
  shelved,  \* the titles the taste profile excludes
  recs,     \* the recommendations sent: [title, from]
  open

promiseVars == <<shelved, recs, open>>

\* A recommendation names the author it is owed to, or 0 for a series.
FromSeries == 0
Sources == {FromSeries} \union Authors

Recommended == {recs[k].title : k \in DOMAIN recs}

Init ==
  /\ shelved \in SUBSET Titles
  /\ recs = <<>>
  /\ open = TRUE

Recommend(t, from) ==
  /\ open
  /\ Len(recs) < MaxRecs
  /\ t \notin shelved \union Recommended
  /\ from = FromSeries => \A k \in DOMAIN recs : recs[k].from = FromSeries
  /\ recs' = Append(recs, [title |-> t, from |-> from])
  /\ UNCHANGED <<shelved, open>>

Close ==
  /\ open
  /\ open' = FALSE
  /\ UNCHANGED <<shelved, recs>>

Next ==
  \/ \E t \in Titles, from \in Sources : Recommend(t, from)
  \/ Close

Spec == Init /\ [][Next]_promiseVars

=============================================================================
