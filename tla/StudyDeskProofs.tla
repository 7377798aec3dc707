-------------------------- MODULE StudyDeskProofs --------------------------
(***************************************************************************)
(* What StudyDesk keeps, proved for every number of cards, time stamps and *)
(* remembered operations: its types, that suspended cards stay suspended,  *)
(* that replayed rows stay, that a client that pages through the log to    *)
(* its end has read all of it, and that the views of a selection do not    *)
(* depend on how it is cut into chunks.                                    *)
(***************************************************************************)
EXTENDS StudyDesk, StudyCardsProofs

-----------------------------------------------------------------------------
(* Requests *)

LEMMA CardRequestKeeps ==
  ASSUME StudyInv, CardRequest
  PROVE  StudyInv' /\ Stays
<1>1. CASE Tick \/ SetFlag \/ Reposition \/ Undo \/ Redo
  BY <1>1, TickKeeps, UnfollowedKeeps, UndoKeeps, RedoKeeps DEF SetFlag, Reposition
<1>2. ASSUME NEW s \in SUBSET CardIds,
             \/ Suspend(s) \/ Unsuspend(s) \/ Bury(s) \/ Unbury(s)
             \/ RestoreBuriedAndSuspended(s) \/ Forget(s)
      PROVE  StudyInv' /\ Stays
  BY <1>2, QueueRequests, ForgetKeeps
<1>3. ASSUME NEW c \in CardIds \cup {Unknown},
             \/ \E ivl \in 2 .. MaxSched : PatchCard(c, ivl)
             \/ \E valid \in BOOLEAN : SetCustomData(c, valid)
      PROVE  StudyInv' /\ Stays
  BY <1>3, OneCardKeeps
<1>4. ASSUME NEW entries, InsertRevlog(entries)
      PROVE  StudyInv' /\ Stays
  BY <1>4, InsertKeeps
<1> QED
  BY <1>1, <1>2, <1>3, <1>4, Zenon DEF CardRequest

LEMMA AnsweredSched ==
  ASSUME NEW sched \in 0 .. MaxSched, NEW rating
  PROVE  Answered(sched, rating) \in 0 .. MaxSched
BY Bounds DEF Answered

LEMMA AnswerKeeps ==
  ASSUME StudyInv, NEW c \in CardIds \cup {Unknown}, NEW shown \in 0 .. MaxSched,
         NEW rating \in Ratings, Answer(c, shown, rating)
  PROVE  StudyInv' /\ Stays
<1>1. CASE RefuseStudy
  BY <1>1, RefusalKeeps
<1> DEFINE card == [sched |-> Answered(shown, rating), queue |-> "in", wanted |-> "no"]
           cs == [cards EXCEPT ![c] = card]
<1>2. CASE c \in CardIds /\ Operation(cs, Logged(<<c>>, "rated"))
  <2>1. card \in Card /\ card.wanted = "no"
    BY AnsweredSched DEF Card
  <2> HIDE DEF card
  <2>2. cs \in [CardIds -> Card] /\ StaySuspended(cs)
    BY <1>2, <2>1, PresentParts DEF StaySuspended
  <2>3. <<c>> \in [1 .. 1 -> {c}] /\ {c} \in SUBSET CardIds
    BY <1>2
  <2> HIDE DEF cs
  <2>4. /\ Logged(<<c>>, "rated") \in Log /\ Replays(Logged(<<c>>, "rated")) = Replays(revlog)
        /\ Grows(revlog, Logged(<<c>>, "rated"))
    <3>1. revlog \in Log /\ now \in Times /\ 1 \in Nat /\ "rated" \in {"rated", "manual"}
      BY PresentParts DEF StudyInv
    <3> QED
      BY <2>3, <3>1, LoggedLog, Zenon
  <2> QED
    BY <1>2, <2>2, <2>4, OperationKeeps
<1> QED
  BY <1>1, <1>2 DEF Answer

(* What grade_now makes of the cards before it suspends some again.        *)
LEMMA GradedCards ==
  ASSUME StudyInv, NEW s, NEW rating
  PROVE  Graded(s, rating, "half") \in [CardIds -> Card] /\ StaySuspended(Graded(s, rating, "half"))
<1> DEFINE cs == Graded(s, rating, "half")
<1>1. ASSUME NEW c \in CardIds
      PROVE  cs[c] \in Card /\ (cs[c].wanted = "yes" => cs[c].queue = "suspended")
  <2>1. cards[c] \in Card /\ (cards[c].wanted = "yes" => cards[c].queue = "suspended")
    BY PresentParts DEF StaySuspended
  <2>2. Answered(cards[c].sched, rating) \in 0 .. MaxSched
    BY <2>1, AnsweredSched DEF Card
  <2>3. CASE c \in s
    <3>1. cs[c] = [sched |-> Answered(cards[c].sched, rating), queue |-> "in",
                   wanted |-> IF cards[c].wanted = "yes" THEN "half" ELSE cards[c].wanted]
      BY <2>3, Zenon DEF Graded, Updated
    <3> QED
      BY <2>1, <2>2, <3>1 DEF Card
  <2>4. CASE c \notin s
    BY <2>1, <2>4, Zenon DEF Graded, Updated
  <2> QED
    BY <2>3, <2>4
<1>2. cs = [c \in CardIds |-> cs[c]]
  BY Zenon DEF Graded, Updated
<1> HIDE DEF cs
<1>3. cs \in [CardIds -> Card] /\ StaySuspended(cs)
  BY <1>1, <1>2, CardsUpdated, Zenon
<1> QED
  BY <1>3 DEF cs

(* The two operations of a grade_now: what an undo of the second one goes  *)
(* back to is safe too.                                                    *)
LEMMA TwoOperationsKeep ==
  ASSUME StudyInv, NEW cs \in [CardIds -> Card], NEW log \in Log, NEW suspended,
         StaySuspended(cs), Replays(log) = Replays(revlog), Grows(revlog, log),
         cards' = [c \in CardIds |-> IF c \in suspended
                     THEN [cs[c] EXCEPT !.queue = "suspended", !.wanted = "yes"] ELSE cs[c]],
         revlog' = log,
         past' = Remember(Remember(past, Present), [cards |-> cs, revlog |-> log]),
         undone' = <<>>, UNCHANGED now
  PROVE  StudyInv' /\ Stays
<1> DEFINE between == [cards |-> cs, revlog |-> log]
<1>1. cards' \in [CardIds -> Card] /\ StaySuspended(cards')
  <2>1. ASSUME NEW c \in CardIds
        PROVE  cards'[c] \in Card /\ (cards'[c].wanted = "yes" => cards'[c].queue = "suspended")
    BY DEF Card, StaySuspended
  <2>2. cards' = [c \in CardIds |-> cards'[c]]
    OBVIOUS
  <2> QED
    BY <2>1, <2>2, CardsUpdated, Zenon
<1>2. Safe(log) = Safe(revlog)
  BY SameSafe
<1>3. Present' \in Safe(log) /\ between \in Safe(log)
  BY <1>1, SafeMoment DEF Present
<1>4. Stack(past', Safe(log))
  <2>1. Stack(Remember(past, Present), Safe(log))
    BY <1>2, Remembered DEF StudyInv
  <2> QED
    BY <1>3, <2>1, Remembered
<1>5. undone' = <<>> /\ revlog' = log /\ now' \in Times
  BY DEF StudyInv
<1>6. Len(past') \in Nat /\ Len(past') <= UndoLimit
  BY ONLY <1>4 DEF Stack
<1>7. Stack(undone', Safe(log)) /\ Len(undone') = 0
  BY ONLY <1>5, Bounds DEF Stack
<1>8. Under(past', log) /\ Over(undone', log)
  <2>1. Under(Remember(past, Present), log)
    BY PresentUnder
  <2>2. Stack(Remember(past, Present), Safe(log)) /\ between.revlog = log
    BY <1>2, Remembered DEF StudyInv
  <2>3. Under(Remember(past, Present), between.revlog) /\ Grows(between.revlog, log)
    BY <2>1, <2>2, GrowsItself
  <2> HIDE DEF between
  <2>4. Under(Remember(Remember(past, Present), between), log)
    BY ONLY <1>3, <2>2, <2>3, RememberedUnder
  <2> QED
    BY <1>5, <2>4, NoMoments DEF between
<1>9. StudyInv'
  BY ONLY <1>3, <1>4, <1>5, <1>6, <1>7, <1>8, Bounds DEF StudyInv
<1>10. Stays
  BY SameReplaysStay
<1> QED
  BY <1>9, <1>10

LEMMA GradeNowKeeps ==
  ASSUME StudyInv, NEW s \in SUBSET (CardIds \cup {Unknown}), NEW rating \in Ratings,
         GradeNow(s, rating)
  PROVE  StudyInv' /\ Stays
<1> DEFINE suspended == {c \in s : cards[c].queue = "suspended"}
           cs == Graded(s, rating, "half")
           between(order) == [cards |-> cs, revlog |-> Logged(order, "rated")]
<1>1. CASE RefuseStudy
  BY <1>1, RefusalKeeps
<1>2. CASE Unknown \notin s /\ \E order \in Orders(s) :
             Operation(between(order).cards, between(order).revlog)
  <2>1. PICK order \in Orders(s) : Operation(cs, Logged(order, "rated"))
    BY <1>2
  <2>2. s \in SUBSET CardIds
    BY <1>2
  <2>3. cs \in [CardIds -> Card] /\ StaySuspended(cs)
    BY GradedCards
  <2> QED
    BY <2>1, <2>2, <2>3, LoggedKeeps
<1>3. CASE /\ Unknown \notin s
           /\ \E order \in Orders(s) :
                /\ cards' = [c \in CardIds |-> IF c \in suspended
                     THEN [between(order).cards[c] EXCEPT !.queue = "suspended", !.wanted = "yes"]
                     ELSE between(order).cards[c]]
                /\ revlog' = between(order).revlog
                /\ past' = Remember(Remember(past, Present), between(order))
           /\ undone' = <<>>
           /\ UNCHANGED now
  <2> HIDE DEF suspended
  <2>1. s \in SUBSET CardIds
    BY <1>3
  <2>2. PICK order \in Orders(s) :
          /\ cards' = [c \in CardIds |-> IF c \in suspended
               THEN [cs[c] EXCEPT !.queue = "suspended", !.wanted = "yes"] ELSE cs[c]]
          /\ revlog' = Logged(order, "rated")
          /\ past' = Remember(Remember(past, Present), between(order))
    BY <1>3
  <2>3. cs \in [CardIds -> Card] /\ StaySuspended(cs)
    BY GradedCards
  <2>4. /\ Logged(order, "rated") \in Log /\ Replays(Logged(order, "rated")) = Replays(revlog)
        /\ Grows(revlog, Logged(order, "rated"))
    BY <2>1, LoggedRows
  <2> QED
    BY <1>3, <2>2, <2>3, <2>4, TwoOperationsKeep
<1> QED
  BY <1>1, <1>2, <1>3 DEF GradeNow

LEMMA SetDueDateKeeps ==
  ASSUME StudyInv, NEW s \in SUBSET CardIds, NEW days \in 2 .. MaxSched, SetDueDate(s, days)
  PROVE  StudyInv' /\ Stays
<1> DEFINE cs == Updated(s, LAMBDA k : [sched |-> days, queue |-> "in", wanted |-> "no"])
<1>1. PICK order \in Orders(s) : Operation(cs, Logged(order, "manual"))
  BY DEF SetDueDate
<1>2. cs \in [CardIds -> Card] /\ StaySuspended(cs)
  BY PresentParts, Bounds DEF Updated, Card, StaySuspended
<1> QED
  BY <1>1, <1>2, LoggedKeeps

LEMMA ReviewRequestKeeps ==
  ASSUME StudyInv, ReviewRequest
  PROVE  StudyInv' /\ Stays
<1>1. ASSUME NEW s \in SUBSET (CardIds \cup {Unknown}), MemoryState(s)
      PROVE  StudyInv' /\ Stays
  BY <1>1, RefusalKeeps, UnfollowedKeeps DEF MemoryState
<1> QED
  BY <1>1, AnswerKeeps, GradeNowKeeps, SetDueDateKeeps, Zenon DEF ReviewRequest

-----------------------------------------------------------------------------
(* The client that pages through the log *)

(* What is owed to it is in the log, on the pages it has not asked for.    *)
ReaderInv ==
  /\ reader \in Reader \cup {None}
  /\ reader # None =>
       /\ reader.owed \subseteq Rows(revlog)
       /\ \A t \in reader.owed : t >= reader.since
       /\ reader.since = 0 => reader.owed = {}

LEMMA StillOwedKeeps ==
  ASSUME ReaderInv, StillOwed
  PROVE  ReaderInv'
<1>1. CASE reader = None
  BY <1>1 DEF ReaderInv, StillOwed
<1>2. CASE reader # None
  <2>1. reader' = [since |-> reader.since, owed |-> reader.owed \cap Rows(revlog')]
        /\ reader.since \in 0 .. MaxClock + 1 /\ reader.owed \in SUBSET Times
    BY <1>2 DEF ReaderInv, StillOwed, Reader
  <2> QED
    BY <1>2, <2>1 DEF ReaderInv, Reader
<1> QED
  BY <1>1, <1>2

LEMMA ReadPageKeeps ==
  ASSUME ReaderInv, NEW limit \in 1 .. MaxClock, ReadPage(limit)
  PROVE  ReaderInv'
<1> DEFINE since == IF reader = None THEN 1 ELSE reader.since
           owed == IF reader = None THEN Rows(revlog) ELSE reader.owed
           page == Entries(since, limit)
           next == IF Truncated(since, limit) THEN Max(page) + 1 ELSE 0
<1>1. since # 0 /\ reader' = [since |-> next, owed |-> owed \ page] /\ revlog' = revlog
  BY DEF ReadPage, studyVars
<1>2. since \in Nat \ {0} /\ limit \in Nat \ {0}
  BY <1>1, Bounds DEF ReaderInv, Reader
<1>3. owed \subseteq Rows(revlog) /\ \A t \in owed : t >= since
  BY RowsAreTimes DEF ReaderInv, Times
<1> HIDE DEF since, owed
<1>4. page \in SUBSET (0 .. MaxClock) /\ page \subseteq Rows(revlog)
  BY RowsAreTimes DEF Entries, Fetched, Earliest
<1>5. /\ next \in 0 .. MaxClock + 1
      /\ \A t \in owed \ page : t >= next
      /\ next = 0 => owed \ page = {}
  <2>1. CASE ~Truncated(since, limit)
    <3>1. owed \ page = {}
      BY <1>2, <1>3, <2>1, LastPage
    <3> QED
      BY <2>1, <3>1, Bounds
  <2>2. CASE Truncated(since, limit)
    <3>1. PICK t \in Rows(revlog) : t >= since
      BY <2>2 DEF Truncated, Entries, Fetched, Earliest
    <3>2. page # {}
      BY <1>2, <3>1, FirstIsRead
    <3> HIDE DEF page
    <3>3. Max(page) \in page /\ \A y \in page : Max(page) >= y
      BY <1>4, <3>2, Bounds, GreatestOf
    <3>4. next = Max(page) + 1 /\ Max(page) \in 0 .. MaxClock
      BY <1>4, <2>2, <3>3
    <3>5. ASSUME NEW r \in owed \ page
          PROVE  r >= next
      <4>1. r \in Rows(revlog) /\ r >= since /\ r \notin Entries(since, limit)
        BY <1>3, <3>5 DEF page
      <4>2. Max(page) < r /\ r \in Nat
        BY <1>2, <3>3, <4>1, PagesAreInOrder, RowsAreTimes DEF page
      <4> QED
        BY <3>4, <4>2
    <3> QED
      BY <3>4, <3>5, Bounds
  <2> QED
    BY <2>1, <2>2
<1> HIDE DEF page, next
<1>6. owed \ page \subseteq Rows(revlog) /\ Rows(revlog) \subseteq Times
  BY <1>3, RowsAreTimes
<1>7. reader'.since = next /\ reader'.owed = owed \ page /\ reader' \in Reader
  BY <1>1, <1>5, <1>6 DEF Reader
<1> QED
  BY <1>1, <1>5, <1>6, <1>7 DEF ReaderInv

-----------------------------------------------------------------------------
(* The invariant and what follows from it *)

Inv == StudyInv /\ ReaderInv

LEMMA InitInv ==
  ASSUME Init
  PROVE  Inv
<1>1. cards = [c \in CardIds |-> [sched |-> 0, queue |-> "in", wanted |-> "no"]]
      /\ revlog = [t \in Times |-> None] /\ now = 1 /\ past = <<>> /\ undone = <<>>
      /\ reader = None
  BY DEF Init, StudyInit
<1>2. cards \in [CardIds -> Card] /\ StaySuspended(cards) /\ revlog \in Log /\ now \in Times
  BY <1>1, Bounds DEF Card, StaySuspended, Log, Times
<1>3. Present \in Safe(revlog)
  BY <1>2, SafeMoment DEF Present
<1>4. Stack(past, Safe(revlog)) /\ Stack(undone, Safe(revlog)) /\ Len(past) = 0 /\ Len(undone) = 0
  BY <1>1, Bounds DEF Stack
<1>5. StudyInv
  BY <1>1, <1>2, <1>3, <1>4, NoMoments, Bounds DEF StudyInv
<1> QED
  BY <1>1, <1>5 DEF Inv, ReaderInv

LEMMA StepInv ==
  ASSUME Inv, [Next]_vars
  PROVE  Inv' /\ Stays
<1>1. CASE CardRequest /\ StillOwed
  BY <1>1, CardRequestKeeps, StillOwedKeeps DEF Inv
<1>2. CASE ReviewRequest /\ StillOwed
  BY <1>2, ReviewRequestKeeps, StillOwedKeeps DEF Inv
<1>3. ASSUME NEW limit \in 1 .. MaxClock, ReadPage(limit)
      PROVE  Inv' /\ Stays
  <2>1. ReaderInv'
    BY <1>3, ReadPageKeeps DEF Inv
  <2>2. RefuseStudy
    BY <1>3 DEF ReadPage, RefuseStudy
  <2> QED
    BY <2>1, <2>2, RefusalKeeps DEF Inv
<1>4. CASE UNCHANGED vars
  <2>1. RefuseStudy
    BY <1>4 DEF vars, RefuseStudy, studyVars
  <2>2. ReaderInv'
    BY <1>4 DEF vars, Inv, ReaderInv, Rows
  <2> QED
    BY <2>1, <2>2, RefusalKeeps DEF Inv
<1> QED
  BY <1>1, <1>2, <1>3, <1>4 DEF Next

(* Everything that can happen keeps the invariant: from any number of      *)
(* moments back, undo and redo lead to cards that are suspended if they    *)
(* are wanted so, and to a log with the same replayed rows.                *)
THEOREM Invariance == Spec => []Inv
<1>1. Init => Inv
  BY InitInv
<1>2. Inv /\ [Next]_vars => Inv'
  BY StepInv
<1> QED
  BY <1>1, <1>2, PTL DEF Spec

(* The cards, the log, the stacks with no more than UndoLimit moments, and *)
(* the reader are always what TypeOK says they are.                        *)
THEOREM TypeCorrect == Spec => []TypeOK
<1>1. ASSUME NEW s, Stack(s, Safe(revlog))
      PROVE  s \in Seq(Moment) /\ Len(s) <= UndoLimit
  <2>1. Safe(revlog) \subseteq Moment
    BY DEF Safe
  <2> QED
    BY <1>1, <2>1, SeqMonotonic, Zenon DEF Stack
<1>2. Inv => TypeOK
  BY <1>1, PresentParts DEF Inv, StudyInv, ReaderInv, TypeOK, Log
<1> QED
  BY <1>2, Invariance, PTL

(* A card that was suspended, and that no request has brought back since,  *)
(* is suspended, whatever was graded, undone and redone.                   *)
THEOREM SuspendedStaySuspended == Spec => []SuspendedAsAsked
<1>1. Inv => SuspendedAsAsked
  BY PresentParts DEF Inv, StaySuspended, SuspendedAsAsked
<1> QED
  BY <1>1, Invariance, PTL

(* Every step writes rows at free stamps or takes back rows that were not  *)
(* replayed, as ReviewLog says: no undo or redo, of whatever went before,  *)
(* puts a row in the place of another.                                     *)
THEOREM ImplementsReviewLog == Spec => RefinesReviewLog
<1>1. ASSUME Init
      PROVE  Promise!Init
  BY <1>1 DEF Init, StudyInit, Times, Promise!Init, Promise!Times
<1>2. ASSUME Inv, [Next]_vars
      PROVE  [Promise!Next]_revlog
  <2>1. Inv' /\ Stays
    BY <1>2, StepInv
  <2>2. revlog \in Log /\ revlog' \in Log
    BY <1>2, <2>1 DEF Inv, StudyInv, Present, Safe, Moment, Log
  <2>3. revlog' \in Promise!Log
    BY <2>2 DEF Log, Times, Row, Promise!Log, Promise!Times, Promise!Row
  <2>4. CASE Grows(revlog, revlog')
    BY <2>3, <2>4 DEF Grows, Times, Promise!Next, Promise!Write, Promise!Grows, Promise!Times
  <2>5. CASE Grows(revlog', revlog)
    <3>1. ASSUME NEW t \in Times, revlog[t] # revlog'[t]
          PROVE  revlog[t].kind # "replayed"
      BY <2>1, <2>5, <3>1 DEF Stays, Grows
    <3> QED
      BY <2>3, <2>5, <3>1 DEF Grows, Times, Promise!Next, Promise!TakeBack, Promise!Grows, Promise!Times
  <2> QED
    BY <2>1, <2>4, <2>5 DEF Stays
<1> QED
  BY <1>1, <1>2, Invariance, PTL DEF Spec, RefinesReviewLog, Promise!Spec

(* A client that has read to a page that is not truncated has read every   *)
(* row that was there all along.                                           *)
THEOREM PagedReadsAreComplete == Spec => []PagedReadComplete
<1>1. Inv => PagedReadComplete
  BY DEF Inv, ReaderInv, PagedReadComplete
<1> QED
  BY <1>1, Invariance, PTL

(* The views of any selection, of any length, have the second of the first *)
(* and of the latest rated row of each card, for every size of the chunks. *)
THEOREM AnySelectionAgrees == Spec => [](\A cids \in Seq(CardIds) : ViewsAgree(cids))
<1>1. ASSUME Inv, NEW cids \in Seq(CardIds)
      PROVE  ViewsAgree(cids)
  BY <1>1, PresentParts, ViewOfSelection DEF Inv, ViewsAgree
<1>2. Inv => \A cids \in Seq(CardIds) : ViewsAgree(cids)
  BY <1>1
<1> QED
  BY <1>2, Invariance, PTL

(* So they do for the selections that TLC goes through. *)
THEOREM BoundsAlwaysAgree == Spec => []BoundsAgree
<1>1. ASSUME NEW cids \in BoundedSeq(CardIds, 3)
      PROVE  cids \in Seq(CardIds)
  <2>1. PICK m \in 0 .. 3 : cids \in [1 .. m -> CardIds]
    BY <1>1, Zenon DEF BoundedSeq, SeqOf
  <2> QED
    BY <2>1
<1>2. (\A cids \in Seq(CardIds) : ViewsAgree(cids)) => BoundsAgree
  BY <1>1, Zenon DEF BoundsAgree
<1> QED
  BY <1>2, AnySelectionAgrees, PTL

=============================================================================
