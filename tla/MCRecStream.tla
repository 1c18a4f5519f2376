---------------------------- MODULE MCRecStream ----------------------------
(* A library may have the next entries of two series under one title, and    *)
(* does not tell the two authors apart ("George R.R. Martin" and "George     *)
(* R. R. Martin" have one authorMatchKey), one of whose books is such an     *)
(* entry.                                                                    *)
EXTENDS RecStream

CONSTANTS t1, t2, t3, t4, t5

MCTitles == {t1, t2, t3, t4, t5}
MCEntryTitles == <<<<{}, {t1, t2}, {t3}>>, <<{t5}, {t1}, {}>>>>
MCWrittenBy == <<{t2, t3, t4}, {t2, t3, t4}>>

Written(name, rating, key) ==
  [key |-> key, author |-> name, rating |-> rating, series |-> 0, from |-> 0, to |-> 0]
Part(part, from, to, name, rating, key) ==
  [key |-> key, author |-> name, rating |-> rating, series |-> part, from |-> from,
   to |-> to]

\* Finished: the first of both series, or an omnibus of the first two; of each author
\* perhaps other books. Wanted: nothing, the second of series 1, or an author's book.
Begun == {{Part(1, 1, 0, 1, r, None), Part(2, 1, 0, q, 0, t5)} : r \in {0, 2, 5}, q \in {1, 2}}
Omnibus == {{Part(1, 1, 2, 2, r, t2)} : r \in {0, 4}}
Others == {{}, {Written(2, 4, None)}, {Written(1, 0, t1), Written(2, 4, None), Written(2, 1, t3)},
           {Written(1, 3, None), Written(1, 0, None), Written(2, 3, None), Written(2, 0, t4)}}

MCShelves ==
  [read : {part \union other : part \in Begun \union Omnibus, other \in Others},
   want : {{}, {Part(1, 2, 0, 1, 0, t2)}, {Written(2, 0, t4)}}]
=============================================================================
