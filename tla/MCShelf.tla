------------------------------ MODULE MCShelf ------------------------------
(* Two callers, and a shelf that can fill two pages of two books and begin a *)
(* third, while the loop asks for four; it waits for one of two slots.       *)
EXTENDS Shelf
=============================================================================
