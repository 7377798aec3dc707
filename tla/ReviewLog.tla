----------------------------- MODULE ReviewLog -----------------------------
(***************************************************************************)
(* What the review log promises to those who read it: a row is never       *)
(* changed where it stands.  A step writes rows at stamps that are free,   *)
(* or takes rows back; those that were replayed into it are never taken.   *)
(***************************************************************************)
EXTENDS Integers

CONSTANTS CardIds, None, MaxClock

VARIABLE revlog

Times == 1 .. MaxClock
Row == [card : CardIds, kind : {"rated", "manual", "replayed"}]
Log == [Times -> Row \cup {None}]

(* The rows of a log are all in another. *)
Grows(log, other) == \A t \in Times : log[t] # None => other[t] = log[t]

Init == revlog = [t \in Times |-> None]

Write ==
  /\ revlog' \in Log
  /\ Grows(revlog, revlog')

TakeBack ==
  /\ revlog' \in Log
  /\ Grows(revlog', revlog)
  /\ \A t \in Times : revlog[t] # revlog'[t] => revlog[t].kind # "replayed"

Next == Write \/ TakeBack

Spec == Init /\ [][Next]_revlog

=============================================================================
