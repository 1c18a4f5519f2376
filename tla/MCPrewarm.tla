------------------------------ MODULE MCPrewarm ------------------------------
(* Two targets that share a book (two shelves searched with the same libraries). *)
(* With one worker the loop that hands out the books of the second shelf waits   *)
(* in its send while the first is resolved.                                      *)
EXTENDS Prewarm

CONSTANTS t1, t2, b1, b2

MCTargets == {t1, t2}
MCBooks == {b1, b2}
MCShelfOf == [t \in MCTargets |-> IF t = t1 THEN {b1} ELSE {b1, b2}]
==============================================================================
