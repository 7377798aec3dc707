---------------------------- MODULE MCStudyDesk ----------------------------
(* StudyDesk for TLC: of all that can happen to a card, some cards have     *)
(* only been answered or graded once at most.                              *)
EXTENDS StudyDesk

CONSTANT Quiet    \* those cards

QuietCards == \A c \in Quiet : cards[c].queue = "in" /\ cards[c].sched <= 1

=============================================================================
