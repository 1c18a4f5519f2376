-------------------------- MODULE MCOverDriveGate --------------------------
(* A large search with three checks beside a small one with two: three global *)
(* slots, two of them at most for one search, so both queues form.            *)
EXTENDS OverDriveGate, TLC

CONSTANTS big, small, b1, b2, b3, s1, s2

MCSearches == {big, small}
MCChecks == {b1, b2, b3, s1, s2}
MCOwner == [c \in MCChecks |-> IF c \in {b1, b2, b3} THEN big ELSE small]
=============================================================================
