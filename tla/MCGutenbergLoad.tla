--------------------------- MODULE MCGutenbergLoad ---------------------------
(* A feed of two texts, so that a load can stop half way, and two cache writers. *)
EXTENDS GutenbergLoad
==============================================================================
