----------------------------- MODULE StudyDesk -----------------------------
(***************************************************************************)
(* Reviewing, over the cards of module StudyCards: answers to cards that    *)
(* were shown some time ago, while other clients study, suspend, undo and  *)
(* replay history, and one client reads the whole review log page by page. *)
(*                                                                         *)
(* A review token is the scheduling states that a client was shown.  The   *)
(* server keeps nothing of it, so an answer may come with any.             *)
(***************************************************************************)
EXTENDS StudyCards

VARIABLE reader    \* the client that pages through the log, or None

vars == <<cards, revlog, now, past, undone, reader>>

Ratings == {"again", "good"}

(* since: the next page's; 0 when the last page was not truncated.  owed:  *)
(* rows that were there at the first page, have been since, and have not   *)
(* been read.                                                              *)
Reader == [since : 0 .. MaxClock + 1, owed : SUBSET Times]

TypeOK ==
  /\ cards \in [CardIds -> Card]
  /\ revlog \in [Times -> Row \cup {None}]
  /\ now \in Times
  /\ past \in Seq(Moment) /\ Len(past) <= UndoLimit
  /\ undone \in Seq(Moment) /\ Len(undone) <= UndoLimit
  /\ reader \in Reader \cup {None}

Init ==
  /\ StudyInit
  /\ reader = None

-----------------------------------------------------------------------------
(* Reviewing *)

(* Again: the learning steps start over.  Else a step further.             *)
Answered(sched, rating) ==
  IF rating = "again" THEN 1 ELSE IF sched = MaxSched THEN sched ELSE sched + 1

(* The library refuses states that are not those of the card any more.     *)
(* Queues are not part of them: an answer brings a suspended card back.    *)
Answer(c, shown, rating) ==
  \/ (c \in CardIds => cards[c].sched # shown) /\ RefuseStudy
  \/ /\ c \in CardIds /\ cards[c].sched = shown
     /\ Room(1)
     /\ Operation([cards EXCEPT ![c] = [sched |-> Answered(shown, rating),
                                        queue |-> "in", wanted |-> "no"]],
                  Logged(<<c>>, "rated"))

(* The library's grade_now takes the cards out of their queues. *)
Graded(s, rating, wanted) ==
  Updated(s, LAMBDA k : [sched |-> Answered(k.sched, rating), queue |-> "in",
                         wanted |-> IF k.wanted = "yes" THEN wanted ELSE k.wanted])

(* Mutant of GradeNow: what was suspended is asked after the grading.      *)
GradeNowAsksLate(s, rating) ==
  /\ Unknown \notin s
  /\ Room(Cardinality(s))
  /\ \E order \in Orders(s) : Operation(Graded(s, rating, "yes"), Logged(order, "rated"))

(* The cards that were suspended are suspended again, by an operation of   *)
(* its own: the cards in between are what one undo goes back to.           *)
GradeNow(s, rating) ==
  LET suspended == {c \in s : cards[c].queue = "suspended"}
      between(order) == [cards |-> Graded(s, rating, "half"), revlog |-> Logged(order, "rated")]
  IN  \/ Unknown \in s /\ RefuseStudy
      \/ /\ Unknown \notin s /\ suspended = {}
         /\ Room(Cardinality(s))
         /\ \E order \in Orders(s) : Operation(between(order).cards, between(order).revlog)
      \/ /\ Unknown \notin s /\ suspended # {}
         /\ Room(Cardinality(s))
         /\ \E order \in Orders(s) :
              /\ cards' = [c \in CardIds |-> IF c \in suspended
                   THEN [between(order).cards[c] EXCEPT !.queue = "suspended", !.wanted = "yes"]
                   ELSE between(order).cards[c]]
              /\ revlog' = between(order).revlog
              /\ past' = Remember(Remember(past, Present), between(order))
         /\ undone' = <<>>
         /\ UNCHANGED now

(* In review, at an interval; out of its queue, with a row that says so. *)
SetDueDate(s, days) ==
  /\ Room(Cardinality(s))
  /\ \E order \in Orders(s) :
       Operation(Updated(s, LAMBDA k : [sched |-> days, queue |-> "in", wanted |-> "no"]),
                 Logged(order, "manual"))

(* FSRS off, or an unknown card: nothing is written. *)
MemoryState(s) ==
  \/ RefuseStudy
  \/ s # {} /\ Unknown \notin s /\ Unfollowed

-----------------------------------------------------------------------------
(* Reading the log *)

ReadPage(limit) ==
  LET since == IF reader = None THEN 1 ELSE reader.since
      owed == IF reader = None THEN Rows(revlog) ELSE reader.owed
      page == Entries(since, limit)
  IN  /\ since # 0
      /\ reader' = [since |-> IF Truncated(since, limit) THEN Max(page) + 1 ELSE 0,
                    owed |-> owed \ page]
      /\ UNCHANGED studyVars

(* A row that goes is not owed any more. *)
StillOwed ==
  reader' = IF reader = None THEN None ELSE [reader EXCEPT !.owed = @ \cap Rows(revlog')]

Entry == [id : 0 .. MaxClock, card : CardIds \cup {Unknown}]

CardRequest ==
  \/ Tick \/ SetFlag \/ Reposition \/ Undo \/ Redo
  \/ \E s \in SUBSET CardIds :
       \/ Suspend(s) \/ Unsuspend(s) \/ Bury(s) \/ Unbury(s)
       \/ RestoreBuriedAndSuspended(s) \/ Forget(s)
  \/ \E c \in CardIds \cup {Unknown} :
       \/ \E ivl \in 2 .. MaxSched : PatchCard(c, ivl)
       \/ \E valid \in BOOLEAN : SetCustomData(c, valid)
  \/ InsertRevlog(<<>>)
  \/ \E e \in Entry : InsertRevlog(<<e>>)
  \/ \E e, f \in Entry : e.id <= f.id /\ InsertRevlog(<<e, f>>)

ReviewRequest ==
  \/ \E c \in CardIds \cup {Unknown}, shown \in 0 .. MaxSched, rating \in Ratings :
       Answer(c, shown, rating)
  \/ \E s \in SUBSET (CardIds \cup {Unknown}) :
       MemoryState(s) \/ \E rating \in Ratings : GradeNow(s, rating)
  \/ \E s \in SUBSET CardIds, days \in 2 .. MaxSched : SetDueDate(s, days)

Next ==
  \/ CardRequest /\ StillOwed
  \/ ReviewRequest /\ StillOwed
  \/ \E limit \in 1 .. MaxClock : ReadPage(limit)

Spec == Init /\ [][Next]_vars

-----------------------------------------------------------------------------
(* Properties *)

(* review.py:130, "Suspended cards stay suspended", through grading, undo  *)
(* and redo: a card that was suspended, and that no request has brought    *)
(* back since, is suspended.  The one exception is "half": an undo after a *)
(* grade_now takes back the second of its two operations only.             *)
SuspendedAsAsked ==
  \A c \in CardIds : cards[c].wanted = "yes" => cards[c].queue = "suspended"

(* The log does what module ReviewLog promises.  insert_revlog relies on   *)
(* it: no answer, undo or redo changes a row where it stands, an undo only *)
(* takes rows back and a redo only writes rows, from however many steps    *)
(* back, and rows that insert_revlog wrote stay.                           *)
Promise == INSTANCE ReviewLog
RefinesReviewLog == Promise!Spec

(* revlog.py:59, "truncated is true when more rows match than limit": a    *)
(* client that reads on until it is false has read every row that was in   *)
(* the log all along, whatever was answered, replayed or undone meanwhile. *)
PagedReadComplete == reader # None /\ reader.since = 0 => reader.owed = {}

ViewsAgree(cids) ==
  LET views == CardViews(cids)
      seconds(c) == {t \div Second : t \in {u \in Rows(revlog) :
                       revlog[u].card = c /\ revlog[u].kind \in {"rated", "replayed"}}}
  IN  \A k \in DOMAIN cids :
        views[k] = IF seconds(cids[k]) = {} THEN None
                   ELSE <<Min(seconds(cids[k])), Max(seconds(cids[k]))>>

(* cards.py:74-83: the views of a selection, however it is cut into        *)
(* chunks, have for each card the second of the first and of the latest    *)
(* rated row, and nothing for a card that was only rescheduled.            *)
BoundsAgree == \A cids \in BoundedSeq(CardIds, 3) : ViewsAgree(cids)

=============================================================================
