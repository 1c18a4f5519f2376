---------------------------- MODULE MCResultsPage ----------------------------
(***************************************************************************)
(* Two books, one of them without an id; two requests of the page, so that *)
(* a refresh overtakes a request still under way, one of another reader    *)
(* who asks for the same search or another, and two tokens.                *)
(***************************************************************************)
EXTENDS ResultsPage
=============================================================================
