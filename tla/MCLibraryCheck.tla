---------------------------- MODULE MCLibraryCheck ----------------------------
(* Two editions of one title: the first is asked for by its ISBN, the second    *)
(* has none, and its query is the fallback of the first.                        *)
EXTENDS LibraryCheck

CONSTANTS isbn, title

MCBooks == {1, 2}
MCQueries == {isbn, title}
MCQuery == [b \in MCBooks |-> IF b = 1 THEN isbn ELSE title]
MCFallback == [b \in MCBooks |-> IF b = 1 THEN title ELSE None]

(* The first edition alone, with room for longer lifetimes. *)
MCEdition == {1}
MCEditionQuery == [b \in MCEdition |-> isbn]
MCEditionFallback == [b \in MCEdition |-> title]
===============================================================================
