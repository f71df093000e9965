----------------------------- MODULE EventFeed ------------------------------
(***************************************************************************)
(* What an online display is promised: the data it holds are those of one  *)
(* whole event, and they are only ever replaced by those of a later one.   *)
(* Events may be skipped: the display wants the latest, not all.           *)
(***************************************************************************)
EXTENDS Integers

CONSTANT NEvents     \* events are numbered 1 .. NEvents

VARIABLE given       \* the event whose data the display holds, 0 for none

Init == given = 0

Next == \E e \in given + 1 .. NEvents : given' = e

Spec == Init /\ [][Next]_given
=============================================================================
