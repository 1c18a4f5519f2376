--------------------------- MODULE StreamProtocol ---------------------------
(***************************************************************************)
(* What a search stream promises the results page                          *)
(* (public/js/results.js, startStream): the list comes first, every book   *)
(* gets exactly one card, details patch cards that are there, "checked"    *)
(* (availability_done) and "done" come only when every card is there, and  *)
(* nothing follows the end of the stream.                                  *)
(***************************************************************************)
EXTENDS Integers

CONSTANT MaxBooks

VARIABLES
  phase,    \* "open", "listed", "checked" or "closed"
  listed,   \* the books of the stub list
  shown,    \* the books with a card
  patched,  \* the books whose card was filled in
  ending,   \* how a closed stream ended
  events    \* how many events went out, so that a repeated one is not a stutter

protocolVars == <<phase, listed, shown, patched, ending, events>>

Init ==
  /\ phase = "open"
  /\ listed = {} /\ shown = {} /\ patched = {}
  /\ ending = "none"
  /\ events = 0

List ==
  /\ phase = "open"
  /\ \E k \in 1..MaxBooks : listed' = 1..k
  /\ phase' = "listed"
  /\ events' = events + 1
  /\ UNCHANGED <<shown, patched, ending>>

Show ==
  /\ phase = "listed"
  /\ \E b \in listed \ shown : shown' = shown \union {b}
  /\ events' = events + 1
  /\ UNCHANGED <<phase, listed, patched, ending>>

AllChecked ==
  /\ phase = "listed"
  /\ listed # {} /\ shown = listed
  /\ phase' = "checked"
  /\ events' = events + 1
  /\ UNCHANGED <<listed, shown, patched, ending>>

Fill ==
  /\ phase = "checked"
  /\ \E b \in shown \ patched : patched' = patched \union {b}
  /\ events' = events + 1
  /\ UNCHANGED <<phase, listed, shown, ending>>

Done ==
  /\ phase # "closed"
  /\ shown = listed
  /\ phase' = "closed" /\ ending' = "done"
  /\ events' = events + 1
  /\ UNCHANGED <<listed, shown, patched>>

\* Before the list only: a stream that listed books reports no error.
Error ==
  /\ phase = "open"
  /\ phase' = "closed" /\ ending' = "error"
  /\ events' = events + 1
  /\ UNCHANGED <<listed, shown, patched>>

\* The client has left: the stream may stop anywhere after the list.
Cut ==
  /\ phase \in {"listed", "checked"}
  /\ phase' = "closed" /\ ending' = "cut"
  /\ UNCHANGED <<listed, shown, patched, events>>

Next == List \/ Show \/ AllChecked \/ Fill \/ Done \/ Error \/ Cut

Spec == Init /\ [][Next]_protocolVars

=============================================================================
