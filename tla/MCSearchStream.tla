--------------------------- MODULE MCSearchStream ---------------------------
(* Instances of SearchStream for TLC. Books are positions on the shelf, whose *)
(* order matters to the cache-hit loop; the second has no id.                 *)
EXTENDS SearchStream
=============================================================================
