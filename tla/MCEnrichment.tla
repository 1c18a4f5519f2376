---------------------------- MODULE MCEnrichment ----------------------------
(* Two goroutines, of a search or a recommendation of one title, compete for *)
(* the one slot of Open Library and of Amazon.                               *)
EXTENDS Enrichment

CONSTANTS t1, t2

Shelf(known) == [f \in Fields |-> IF f \in known THEN "shelf" ELSE "none"]

\* A book with ISBN-10 and placeholder, one with nothing but title and rating, and one
\* that is complete but for its rating.
MCShelfBooks ==
  {[Shelf({"title", "isbn10"}) EXCEPT !["cover"] = "nophoto"],
   Shelf({"title", "rating"}),
   Shelf({"title", "isbn13", "pages", "cover"})}

MCAnswers == {{"isbn13"}, {"isbn10", "pages"}}

MCAzSlots == [p \in Pools |-> 1]
=============================================================================
