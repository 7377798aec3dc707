-------------------------- MODULE StudyCardsProofs --------------------------
(***************************************************************************)
(* Lemmas about StudyCards, for every number of cards, time stamps and     *)
(* remembered operations: what the library's operations keep of the cards, *)
(* the log and the stacks, that the pages of the log leave no row out, and *)
(* that the views of a selection do not depend on its chunks.              *)
(***************************************************************************)
EXTENDS StudyCards, FiniteSetTheorems, SequenceTheorems, TLAPS

-----------------------------------------------------------------------------
(* Sets of numbers *)

(* A set of natural numbers has a least one. *)
LEMMA LeastOf ==
  ASSUME NEW S \in SUBSET Nat, S # {}
  PROVE  Min(S) \in S /\ \A y \in S : Min(S) <= y
<1>1. \E x \in S : \A y \in S : ~ (<<y, x>> \in OpToRel(<, Nat))
  BY NatLessThanWellFounded, WFMin, Zenon
<1>2. PICK x \in S : \A y \in S : ~ (<<y, x>> \in OpToRel(<, Nat))
  BY <1>1
<1>3. \A y \in S : ~ (y < x)
  BY <1>2, Zenon DEF OpToRel
<1>4. \A y \in S : x <= y
  BY <1>3
<1> QED
  BY <1>4 DEF Min

(* A bounded one has a greatest one. *)
LEMMA GreatestOf ==
  ASSUME NEW N \in Nat, NEW S \in SUBSET (0 .. N), S # {}
  PROVE  Max(S) \in S /\ \A y \in S : Max(S) >= y
<1> DEFINE T == {N - y : y \in S}
<1>1. T \in SUBSET Nat /\ T # {}
  <2>1. \A y \in S : N - y \in Nat
    OBVIOUS
  <2> QED
    BY <2>1
<1>2. PICK m \in T : \A y \in T : m <= y
  BY <1>1, LeastOf
<1>3. PICK x \in S : m = N - x
  BY <1>2
<1>4. \A y \in S : x >= y
  BY <1>2, <1>3
<1> QED
  BY <1>4 DEF Max

-----------------------------------------------------------------------------
(* What is kept of the cards, the log and the stacks *)

Log == [Times -> Row \cup {None}]

(* The rows of a log that insert_revlog wrote. *)
Replays(log) ==
  [t \in Times |-> IF log[t] # None /\ log[t].kind = "replayed" THEN log[t] ELSE None]

StaySuspended(cs) ==
  \A c \in CardIds : cs[c].wanted = "yes" => cs[c].queue = "suspended"

(* The moments that undo and redo may go back to without harm: the cards   *)
(* that are wanted suspended are, and the rows that insert_revlog wrote    *)
(* are the ones that the log has now.                                      *)
Safe(log) ==
  {m \in Moment : StaySuspended(m.cards) /\ Replays(m.revlog) = Replays(log)}

Stack(s, moments) == s \in Seq(moments) /\ Len(s) <= UndoLimit

(* The rows of a log are all in another. *)
Grows(log, other) == \A t \in Times : log[t] # None => other[t] = log[t]

(* The moments of a stack of undo, the latest last: each has the rows of   *)
(* the ones before it, and the log that is reached after them has theirs.  *)
(* The moments of a stack of redo, the next one last: the other way round. *)
Under(s, log) ==
  \A j \in 1 .. Len(s) :
    Grows(s[j].revlog, log) /\ \A i \in 1 .. j : Grows(s[i].revlog, s[j].revlog)
Over(s, log) ==
  \A j \in 1 .. Len(s) :
    Grows(log, s[j].revlog) /\ \A i \in 1 .. j : Grows(s[j].revlog, s[i].revlog)

StudyInv ==
  /\ now \in Times
  /\ Present \in Safe(revlog)
  /\ Stack(past, Safe(revlog))
  /\ Stack(undone, Safe(revlog))
  /\ Len(past) + Len(undone) <= UndoLimit
  /\ Under(past, revlog)
  /\ Over(undone, revlog)

(* What a step may do to the log. *)
Stays ==
  /\ Grows(revlog, revlog') \/ Grows(revlog', revlog)
  /\ \A t \in Times : revlog[t] # None /\ revlog[t].kind = "replayed" => revlog'[t] = revlog[t]

LEMMA Bounds ==
  /\ MaxSched \in Nat \ {0} /\ MaxClock \in Nat \ {0} /\ UndoLimit \in Nat \ {0}
  /\ Second \in Nat \ {0} /\ REVLOG_BOUNDS_CHUNK \in Nat \ {0}
BY SizeAssumption DEF SizeAssumption

(* A stack with one more moment is no longer than the library remembers.   *)
LEMMA Remembered ==
  ASSUME NEW S, NEW s, Stack(s, S), NEW m \in S
  PROVE  Stack(Remember(s, m), S)
<1>1. CASE Len(s) < UndoLimit
  <2>1. Append(s, m) \in Seq(S) /\ Len(Append(s, m)) = Len(s) + 1 /\ Len(s) \in Nat
    BY DEF Stack
  <2> QED
    BY <1>1, <2>1, Bounds DEF Stack, Remember
<1>2. CASE ~ (Len(s) < UndoLimit)
  <2>1. s \in Seq(S) /\ s # <<>> /\ Len(s) = UndoLimit
    BY <1>2, Bounds DEF Stack
  <2>2. Tail(s) \in Seq(S) /\ Len(Tail(s)) = UndoLimit - 1
    BY <2>1
  <2>3. Append(Tail(s), m) \in Seq(S) /\ Len(Append(Tail(s), m)) = UndoLimit
    BY <2>2, Bounds
  <2> QED
    BY <1>2, <2>3, Bounds DEF Stack, Remember
<1> QED
  BY <1>1, <1>2

(* A part of a sequence, from one position to another. *)
LEMMA Part ==
  ASSUME NEW S, NEW s, NEW m \in Nat, NEW n \in Int, m <= n + 1,
         \A i \in m .. n : s[i] \in S
  PROVE  /\ SubSeq(s, m, n) \in Seq(S)
         /\ Len(SubSeq(s, m, n)) = n - m + 1
         /\ \A i \in 1 .. n - m + 1 : SubSeq(s, m, n)[i] = s[m + i - 1]
OBVIOUS

(* What is taken from a stack was on it, and so was the rest of it. *)
LEMMA TakenBack ==
  ASSUME NEW S, NEW s, Stack(s, S), s # <<>>
  PROVE  Last(s) \in S /\ Stack(Front(s), S) /\ Len(Front(s)) = Len(s) - 1
<1>1. s \in Seq(S) /\ Len(s) \in Nat \ {0} /\ Len(s) <= UndoLimit
  BY DEF Stack
<1>2. Last(s) = s[Len(s)] /\ Front(s) = SubSeq(s, 1, Len(s) - 1)
  BY Zenon DEF Last, Front
<1>3. SubSeq(s, 1, Len(s) - 1) \in Seq(S) /\ Len(SubSeq(s, 1, Len(s) - 1)) = Len(s) - 1
  <2> DEFINE n == Len(s) - 1
  <2>1. 1 \in Int /\ n \in Int /\ \A k \in 1 .. n : s[k] \in S
    BY <1>1, ElementOfSeq
  <2>2. n \in Nat
    BY <1>1
  <2> HIDE DEF n
  <2>3. SubSeq(s, 1, n) \in Seq(S) /\ Len(SubSeq(s, 1, n)) = n - 1 + 1
    BY <2>1, <2>2, Part
  <2>4. n - 1 + 1 = n
    BY <2>2
  <2> QED
    BY <2>3, <2>4 DEF n
<1> QED
  BY <1>1, <1>2, <1>3, Bounds DEF Stack

LEMMA Pushed ==
  ASSUME NEW S, NEW s, s \in Seq(S), Len(s) + 1 <= UndoLimit, NEW m \in S
  PROVE  Stack(Append(s, m), S)
BY DEF Stack

(* A log that grows on both sides of another. *)
LEMMA GrowsOn ==
  ASSUME NEW a, NEW b, NEW c, Grows(a, b), Grows(b, c)
  PROVE  Grows(a, c)
BY DEF Grows

LEMMA GrowsItself == \A log : Grows(log, log)
BY DEF Grows

LEMMA NoMoments == \A log : Under(<<>>, log) /\ Over(<<>>, log)
BY DEF Under, Over

(* What is on a stack of undo is under any log that has more rows.         *)
LEMMA UnderMore ==
  ASSUME NEW s, NEW log, NEW other, Under(s, log), Grows(log, other)
  PROVE  Under(s, other)
BY GrowsOn DEF Under

(* A moment that is remembered has the rows of those that were.            *)
LEMMA RememberedUnder ==
  ASSUME NEW S, NEW s, Stack(s, S), NEW m, m \in S, Under(s, m.revlog),
         NEW log, Grows(m.revlog, log)
  PROVE  Under(Remember(s, m), log)
<1> DEFINE r == Remember(s, m)
<1>0. s \in Seq(S) /\ Len(s) \in Nat
  BY DEF Stack
<1>1. CASE Len(s) < UndoLimit
  <2>1. Len(r) = Len(s) + 1 /\ r[Len(s) + 1] = m /\ \A i \in 1 .. Len(s) : r[i] = s[i]
    BY <1>0, <1>1 DEF Remember
  <2> HIDE DEF r
  <2>2. ASSUME NEW j \in 1 .. Len(r)
        PROVE  Grows(r[j].revlog, log) /\ \A i \in 1 .. j : Grows(r[i].revlog, r[j].revlog)
    <3>1. CASE j = Len(s) + 1
      BY <1>0, <2>1, <3>1, GrowsItself DEF Under
    <3>2. CASE j \in 1 .. Len(s)
      BY <1>0, <2>1, <3>2, GrowsOn DEF Under
    <3> QED
      BY <1>0, <2>1, <3>1, <3>2
  <2> QED
    BY <2>2 DEF Under, r
<1>2. CASE ~ (Len(s) < UndoLimit)
  <2>1. s # <<>> /\ Len(s) \in Nat \ {0}
    BY <1>0, <1>2, Bounds
  <2>2. Len(r) = Len(s) /\ r[Len(s)] = m /\ \A i \in 1 .. Len(s) - 1 : r[i] = s[i + 1]
    <3>1. Tail(s) \in Seq(S) /\ Len(Tail(s)) = Len(s) - 1
          /\ \A i \in 1 .. Len(s) - 1 : Tail(s)[i] = s[i + 1]
      BY <1>0, <2>1
    <3>2. r = Append(Tail(s), m)
      BY <1>2 DEF Remember
    <3> HIDE DEF r
    <3> QED
      BY <2>1, <3>1, <3>2
  <2> HIDE DEF r
  <2>3. ASSUME NEW j \in 1 .. Len(r)
        PROVE  Grows(r[j].revlog, log) /\ \A i \in 1 .. j : Grows(r[i].revlog, r[j].revlog)
    <3>1. CASE j = Len(s)
      BY <2>1, <2>2, <3>1, GrowsItself DEF Under
    <3>2. CASE j \in 1 .. Len(s) - 1
      <4>1. \A i \in 1 .. j : r[i] = s[i + 1] /\ i + 1 \in 1 .. j + 1
        BY <2>1, <2>2, <3>2
      <4>2. j + 1 \in 1 .. Len(s) /\ r[j] = s[j + 1]
        BY <2>1, <2>2, <3>2
      <4> QED
        BY <4>1, <4>2, GrowsOn DEF Under
    <3> QED
      BY <2>1, <2>2, <3>1, <3>2
  <2> QED
    BY <2>3 DEF Under, r
<1> QED
  BY <1>1, <1>2

(* What undo goes back to is under the log, and over what is left of the   *)
(* stack; what redo goes back to, the other way round.                     *)
LEMMA TakenBetween ==
  ASSUME NEW S, NEW s, Stack(s, S), s # <<>>, NEW log
  PROVE  /\ Under(s, log) => Grows(Last(s).revlog, log) /\ Under(Front(s), Last(s).revlog)
         /\ Over(s, log) => Grows(log, Last(s).revlog) /\ Over(Front(s), Last(s).revlog)
<1> DEFINE n == Len(s)
<1>1. s \in Seq(S) /\ n \in Nat \ {0}
  BY DEF Stack
<1>2. Last(s) = s[n] /\ Front(s) = SubSeq(s, 1, n - 1)
  BY Zenon DEF Last, Front
<1>3. Len(Front(s)) = n - 1 /\ \A i \in 1 .. n - 1 : Front(s)[i] = s[i]
  <2> DEFINE k == n - 1
  <2>1. 1 \in Nat /\ k \in Int /\ 1 <= k + 1 /\ \A i \in 1 .. k : s[i] \in S
    BY <1>1, ElementOfSeq
  <2> HIDE DEF k
  <2>2. Len(SubSeq(s, 1, k)) = k - 1 + 1 /\ \A i \in 1 .. k - 1 + 1 : SubSeq(s, 1, k)[i] = s[1 + i - 1]
    BY <2>1, Part
  <2>3. k - 1 + 1 = k /\ \A i \in 1 .. k : 1 + i - 1 = i
    BY <2>1
  <2>4. Len(SubSeq(s, 1, k)) = k /\ \A i \in 1 .. k : SubSeq(s, 1, k)[i] = s[i]
    BY <2>2, <2>3
  <2> QED
    BY <1>2, <2>4 DEF k
<1> HIDE DEF n
<1>4. n \in 1 .. n /\ \A j \in 1 .. n - 1 : j \in 1 .. n
  BY <1>1
<1> QED
  BY <1>2, <1>3, <1>4 DEF Under, Over, n

(* What an undo puts on the stack of redo has the rows of the log that the *)
(* undo leads to, and those on the stack have its rows.                    *)
LEMMA PushedOver ==
  ASSUME NEW S, NEW s, s \in Seq(S), NEW m, m \in S, Over(s, m.revlog),
         NEW log, Grows(log, m.revlog)
  PROVE  Over(Append(s, m), log)
<1> DEFINE r == Append(s, m)
<1>1. Len(s) \in Nat /\ Len(r) = Len(s) + 1 /\ r[Len(s) + 1] = m
      /\ \A i \in 1 .. Len(s) : r[i] = s[i]
  OBVIOUS
<1> HIDE DEF r
<1>2. ASSUME NEW j \in 1 .. Len(r)
      PROVE  Grows(log, r[j].revlog) /\ \A i \in 1 .. j : Grows(r[j].revlog, r[i].revlog)
  <2>1. CASE j = Len(s) + 1
    BY <1>1, <2>1, GrowsItself DEF Over
  <2>2. CASE j \in 1 .. Len(s)
    BY <1>1, <2>2, GrowsOn DEF Over
  <2> QED
    BY <1>1, <2>1, <2>2
<1> QED
  BY <1>2 DEF Over, r

(* A log with the same replayed rows makes the same moments safe. *)
LEMMA SameSafe ==
  ASSUME NEW log, NEW other, Replays(log) = Replays(other)
  PROVE  Safe(log) = Safe(other)
BY DEF Safe

LEMMA SafeMoment ==
  ASSUME NEW cs \in [CardIds -> Card], NEW log \in Log, StaySuspended(cs)
  PROVE  [cards |-> cs, revlog |-> log] \in Safe(log)
BY DEF Safe, Moment, Log

LEMMA SafeParts ==
  ASSUME NEW log, NEW m \in Safe(log)
  PROVE  /\ m.cards \in [CardIds -> Card] /\ StaySuspended(m.cards)
         /\ m.revlog \in Log /\ Replays(m.revlog) = Replays(log)
         /\ m = [cards |-> m.cards, revlog |-> m.revlog]
BY DEF Safe, Moment, Log

(* What StudyInv says of the cards and the log. *)
LEMMA PresentParts ==
  ASSUME StudyInv
  PROVE  cards \in [CardIds -> Card] /\ StaySuspended(cards) /\ revlog \in Log
BY SafeParts DEF StudyInv, Present

LEMMA SameReplaysStay ==
  ASSUME Replays(revlog') = Replays(revlog),
         Grows(revlog, revlog') \/ Grows(revlog', revlog)
  PROVE  Stays
<1> SUFFICES ASSUME NEW t \in Times, revlog[t] # None, revlog[t].kind = "replayed"
             PROVE  revlog'[t] = revlog[t]
  BY DEF Stays
<1>1. Replays(revlog)[t] = revlog[t] /\ Replays(revlog')[t] \in {revlog'[t], None}
  BY DEF Replays
<1> QED
  BY <1>1

-----------------------------------------------------------------------------
(* The library's operations *)

(* The log of the present is the next one that undo goes back to. *)
LEMMA PresentUnder ==
  ASSUME StudyInv, NEW log, Grows(revlog, log)
  PROVE  Under(Remember(past, Present), log)
<1>1. Present.revlog = revlog
  BY DEF Present
<1>2. Stack(past, Safe(revlog)) /\ Present \in Safe(revlog) /\ Under(past, Present.revlog)
  BY <1>1 DEF StudyInv
<1>3. Grows(Present.revlog, log)
  BY <1>1
<1> HIDE DEF Present
<1> QED
  BY <1>2, <1>3, RememberedUnder

(* An operation that can be undone keeps the invariant, if what it makes   *)
(* of the cards and the log is what StudyInv asks.                         *)
LEMMA OperationKeeps ==
  ASSUME StudyInv, NEW cs \in [CardIds -> Card], NEW log \in Log,
         StaySuspended(cs), Replays(log) = Replays(revlog), Grows(revlog, log),
         Operation(cs, log)
  PROVE  StudyInv' /\ Stays
<1>1. cards' = cs /\ revlog' = log /\ now' = now
  BY DEF Operation
<1>2. Safe(revlog') = Safe(revlog)
  BY <1>1, SameSafe
<1>3. Present' \in Safe(revlog')
  BY <1>1, SafeMoment DEF Present
<1>4. Stays
  BY <1>1, SameReplaysStay
<1>5. CASE cs = cards /\ log = revlog
  <2>1. past' = past /\ undone' = undone
    BY <1>5 DEF Operation
  <2> QED
    BY <1>1, <1>2, <1>3, <1>4, <1>5, <2>1 DEF StudyInv
<1>6. CASE ~ (cs = cards /\ log = revlog)
  <2>0. past' = Remember(past, Present) /\ undone' = <<>>
    BY <1>6 DEF Operation
  <2>1. Stack(past', Safe(revlog))
    BY <2>0, Remembered DEF StudyInv
  <2>2. Stack(undone', Safe(revlog)) /\ Len(undone') = 0
    BY <2>0, Bounds DEF Stack
  <2>3. Len(past') \in Nat /\ Len(past') <= UndoLimit
    BY <2>1 DEF Stack
  <2>4. Under(past', revlog')
    BY <1>1, <2>0, PresentUnder
  <2>5. Over(undone', revlog')
    BY <2>0, NoMoments
  <2> QED
    BY <1>1, <1>2, <1>3, <1>4, <2>1, <2>2, <2>3, <2>4, <2>5, Bounds DEF StudyInv, Stack
<1> QED
  BY <1>5, <1>6

LEMMA UnfollowedKeeps ==
  ASSUME StudyInv, Unfollowed
  PROVE  StudyInv' /\ Stays
<1>1. cards' = cards /\ revlog' = revlog /\ now' = now
      /\ past' = Remember(past, Present) /\ undone' = <<>>
  BY DEF Unfollowed
<1>2. Stack(past', Safe(revlog))
  BY <1>1, Remembered DEF StudyInv
<1>3. Stack(undone', Safe(revlog)) /\ Len(undone') = 0
  BY <1>1, Bounds DEF Stack
<1>4. Len(past') \in Nat /\ Len(past') <= UndoLimit
  BY <1>2 DEF Stack
<1>5. Under(past', revlog') /\ Over(undone', revlog')
  BY <1>1, PresentUnder, GrowsItself, NoMoments
<1>6. Stays
  BY <1>1, GrowsItself, SameReplaysStay
<1> QED
  BY <1>1, <1>2, <1>3, <1>4, <1>5, <1>6, Bounds DEF StudyInv, Stack, Present

LEMMA RefusalKeeps ==
  ASSUME StudyInv, RefuseStudy
  PROVE  StudyInv' /\ Stays
BY GrowsItself DEF RefuseStudy, studyVars, StudyInv, Present, Stays

LEMMA TickKeeps ==
  ASSUME StudyInv, Tick
  PROVE  StudyInv' /\ Stays
<1>1. now' \in Times
  BY Bounds DEF Tick, StudyInv, Times
<1> QED
  BY <1>1, GrowsItself DEF Tick, StudyInv, Present, Stays

(* Undo and redo move a moment from one stack to the other: together they  *)
(* never hold more than the library remembers.                             *)
LEMMA UndoKeeps ==
  ASSUME StudyInv, Undo
  PROVE  StudyInv' /\ Stays
<1>1. CASE past = <<>> /\ RefuseStudy
  BY <1>1, RefusalKeeps
<1>2. CASE /\ past # <<>>
           /\ cards' = Last(past).cards /\ revlog' = Last(past).revlog
           /\ past' = Front(past) /\ undone' = Append(undone, Present)
           /\ UNCHANGED now
  <2>1. Last(past) \in Safe(revlog) /\ Stack(past', Safe(revlog)) /\ Len(past') = Len(past) - 1
    BY <1>2, TakenBack DEF StudyInv
  <2>2. Replays(revlog') = Replays(revlog) /\ Present' = Last(past)
    BY <1>2, <2>1, SafeParts DEF Present
  <2>3. Safe(revlog') = Safe(revlog)
    BY <2>2, SameSafe
  <2>4. Len(past) \in Nat \ {0} /\ undone \in Seq(Safe(revlog)) /\ Len(undone) \in Nat
    BY <1>2 DEF StudyInv, Stack
  <2>5. Len(undone) + 1 <= UndoLimit /\ Len(past) + Len(undone) <= UndoLimit
    BY <2>4, Bounds DEF StudyInv
  <2>6. Stack(undone', Safe(revlog)) /\ Len(undone') = Len(undone) + 1
    BY <1>2, <2>4, <2>5, Pushed, AppendProperties DEF StudyInv
  <2>7. Len(past') + Len(undone') <= UndoLimit
    BY <2>1, <2>4, <2>5, <2>6
  <2>8. Grows(revlog', revlog) /\ Under(past', revlog')
    BY <1>2, TakenBetween DEF StudyInv
  <2>9. Over(undone', revlog')
    <3>1. Present.revlog = revlog /\ Present \in Safe(revlog)
      BY DEF StudyInv, Present
    <3>2. Over(undone, Present.revlog) /\ Grows(revlog', Present.revlog)
      BY <2>8, <3>1 DEF StudyInv
    <3> QED
      BY <1>2, <2>4, <3>1, <3>2, PushedOver
  <2> QED
    BY <1>2, <2>1, <2>2, <2>3, <2>6, <2>7, <2>8, <2>9, SameReplaysStay DEF StudyInv
<1> QED
  BY <1>1, <1>2 DEF Undo

LEMMA RedoKeeps ==
  ASSUME StudyInv, Redo
  PROVE  StudyInv' /\ Stays
<1>1. CASE undone = <<>> /\ RefuseStudy
  BY <1>1, RefusalKeeps
<1>2. CASE /\ undone # <<>>
           /\ cards' = Last(undone).cards /\ revlog' = Last(undone).revlog
           /\ undone' = Front(undone) /\ past' = Remember(past, Present)
           /\ UNCHANGED now
  <2>1. Last(undone) \in Safe(revlog) /\ Stack(undone', Safe(revlog))
        /\ Len(undone') = Len(undone) - 1
    BY <1>2, TakenBack DEF StudyInv
  <2>2. Replays(revlog') = Replays(revlog) /\ Present' = Last(undone)
    BY <1>2, <2>1, SafeParts DEF Present
  <2>3. Safe(revlog') = Safe(revlog)
    BY <2>2, SameSafe
  <2>4. Len(undone) \in Nat \ {0} /\ past \in Seq(Safe(revlog)) /\ Len(past) \in Nat
    BY <1>2 DEF StudyInv, Stack
  <2>5. Len(past) < UndoLimit /\ Len(past) + Len(undone) <= UndoLimit
    BY <2>4, Bounds DEF StudyInv
  <2>6. past' = Append(past, Present)
    BY <1>2, <2>5 DEF Remember
  <2>7. Stack(past', Safe(revlog)) /\ Len(past') = Len(past) + 1
    BY <2>4, <2>5, <2>6, Bounds, Pushed, AppendProperties DEF StudyInv
  <2>8. Len(past') + Len(undone') <= UndoLimit
    BY <2>1, <2>4, <2>5, <2>7
  <2>9. Grows(revlog, revlog') /\ Over(undone', revlog')
    BY <1>2, TakenBetween DEF StudyInv
  <2>10. Under(past', revlog')
    BY <1>2, <2>9, PresentUnder
  <2> QED
    BY <1>2, <2>1, <2>2, <2>3, <2>7, <2>8, <2>9, <2>10, SameReplaysStay DEF StudyInv
<1> QED
  BY <1>1, <1>2 DEF Redo

-----------------------------------------------------------------------------
(* What requests write *)

(* A row that is logged takes a stamp that no row has. *)
LEMMA StampIsFree ==
  ASSUME revlog \in Log, now \in Times, NEW k \in Nat \ {0}
  PROVE  Stamp(k) \notin Rows(revlog)
<1> DEFINE rows == Rows(revlog)
           first == IF revlog[now] = None THEN now ELSE Max(rows) + 1
<1>1. rows \in SUBSET (0 .. MaxClock) /\ now \in 0 .. MaxClock
  BY Bounds DEF Rows, Times
<1>2. first \notin rows /\ first \in 0 .. MaxClock + 1
  <2>1. CASE revlog[now] = None
    BY <1>1, <2>1, Bounds DEF Rows
  <2>2. CASE revlog[now] # None
    <3>1. rows # {}
      BY <2>2 DEF Rows
    <3>2. Max(rows) \in rows /\ \A y \in rows : Max(rows) >= y
      BY <1>1, <3>1, Bounds, GreatestOf
    <3>3. Max(rows) \in 0 .. MaxClock
      BY <1>1, <3>2
    <3> QED
      BY <2>2, <1>1, <3>2, <3>3, Bounds
  <2> QED
    BY <2>1, <2>2
<1>3. CASE k = 1
  BY <1>2, <1>3 DEF Stamp
<1>4. CASE k # 1
  <2> DEFINE more == rows \cup {first}
  <2>1. more \in SUBSET (0 .. MaxClock + 1) /\ more # {} /\ MaxClock + 1 \in Nat
    BY <1>1, <1>2, Bounds
  <2> HIDE DEF more
  <2>2. Max(more) \in more /\ \A y \in more : Max(more) >= y
    BY <2>1, GreatestOf
  <2>3. \A y \in more : y \in Int
    BY <2>1, Bounds
  <2> HIDE DEF rows, first
  <2>4. Max(more) + k - 1 \notin more
    BY <1>4, <2>2, <2>3
  <2> QED
    BY <1>4, <2>4 DEF Stamp, more, rows, first
<1> QED
  BY <1>3, <1>4

(* So the rows that are there stay, and no row is added that would count   *)
(* as a replayed one.                                                      *)
LEMMA LoggedLog ==
  ASSUME revlog \in Log, now \in Times, NEW s \in SUBSET CardIds,
         NEW n \in Nat, NEW order \in [1 .. n -> s],
         NEW kind \in {"rated", "manual"}
  PROVE  /\ Logged(order, kind) \in Log /\ Replays(Logged(order, kind)) = Replays(revlog)
         /\ Grows(revlog, Logged(order, kind))
<1> DEFINE log == Logged(order, kind)
<1>1. ASSUME NEW t \in Times
      PROVE  log[t] = revlog[t] \/ (revlog[t] = None /\ log[t] \in [card : CardIds, kind : {kind}])
  <2>1. CASE \E k \in DOMAIN order : Stamp(k) = t
    <3> DEFINE at == CHOOSE k \in DOMAIN order : Stamp(k) = t
    <3>1. at \in 1 .. n /\ Stamp(at) = t
      BY <2>1
    <3> HIDE DEF at
    <3>2. t \notin Rows(revlog)
      BY <3>1, StampIsFree
    <3>3. log[t] = [card |-> order[at], kind |-> kind]
      BY <2>1 DEF Logged, at
    <3> QED
      BY <3>1, <3>2, <3>3 DEF Rows
  <2>2. CASE ~ \E k \in DOMAIN order : Stamp(k) = t
    BY <2>2 DEF Logged
  <2> QED
    BY <2>1, <2>2
<1>2. log \in Log
  <2>1. log = [t \in Times |-> log[t]]
    BY DEF Logged
  <2> HIDE DEF log
  <2>2. \A t \in Times : log[t] \in Row \cup {None}
    BY <1>1 DEF Row, Log
  <2> QED
    BY <2>1, <2>2, Zenon DEF Log
<1>3. ASSUME NEW t \in Times
      PROVE  Replays(log)[t] = Replays(revlog)[t]
  BY <1>1 DEF Replays
<1>4. Replays(log) = Replays(revlog)
  BY <1>3 DEF Replays
<1>5. Grows(revlog, log)
  BY <1>1 DEF Grows
<1> QED
  BY <1>2, <1>4, <1>5

(* The order in which the rows of a request come is of its cards only. *)
LEMMA OrderedCards ==
  ASSUME NEW s \in SUBSET CardIds, NEW order \in Orders(s)
  PROVE  Cardinality(s) \in Nat /\ order \in [1 .. Cardinality(s) -> s]
<1>1. IsFiniteSet(s)
  BY CardAssumption, FS_Subset DEF CardAssumption
<1> QED
  BY <1>1, FS_CardinalityType DEF Orders

-----------------------------------------------------------------------------
(* Requests *)

(* An update of each card is one of the cards, if what it makes of a card  *)
(* is a card, and it leaves none that is wanted suspended in another queue.*)
LEMMA CardsUpdated ==
  ASSUME NEW cs, cs = [c \in CardIds |-> cs[c]],
         \A c \in CardIds : cs[c] \in Card /\ (cs[c].wanted = "yes" => cs[c].queue = "suspended")
  PROVE  cs \in [CardIds -> Card] /\ StaySuspended(cs)
BY Zenon DEF StaySuspended

(* Operations on the cards alone. *)
LEMMA CardsOnlyKeeps ==
  ASSUME StudyInv, NEW cs \in [CardIds -> Card], StaySuspended(cs), Operation(cs, revlog)
  PROVE  StudyInv' /\ Stays
BY OperationKeeps, PresentParts, GrowsItself

(* The rows of a request, in whatever order they come.                     *)
LEMMA LoggedRows ==
  ASSUME StudyInv, NEW s \in SUBSET CardIds, NEW order \in Orders(s),
         NEW kind \in {"rated", "manual"}
  PROVE  /\ Logged(order, kind) \in Log /\ Replays(Logged(order, kind)) = Replays(revlog)
         /\ Grows(revlog, Logged(order, kind))
<1>1. revlog \in Log /\ now \in Times
  BY PresentParts DEF StudyInv
<1>2. Cardinality(s) \in Nat /\ order \in [1 .. Cardinality(s) -> s]
  BY OrderedCards
<1> QED
  BY <1>1, <1>2, LoggedLog, Zenon

(* Operations that log a row for each of some cards. *)
LEMMA LoggedKeeps ==
  ASSUME StudyInv, NEW cs \in [CardIds -> Card], StaySuspended(cs),
         NEW s \in SUBSET CardIds, NEW order \in Orders(s), NEW kind \in {"rated", "manual"},
         Operation(cs, Logged(order, kind))
  PROVE  StudyInv' /\ Stays
BY LoggedRows, OperationKeeps

LEMMA QueueRequests ==
  ASSUME StudyInv, NEW s \in SUBSET CardIds,
         \/ Suspend(s) \/ Unsuspend(s) \/ Bury(s) \/ Unbury(s) \/ RestoreBuriedAndSuspended(s)
  PROVE  StudyInv' /\ Stays
<1>0. cards \in [CardIds -> Card] /\ StaySuspended(cards)
  BY PresentParts
<1>1. CASE Suspend(s)
  <2> DEFINE cs == Updated(s, LAMBDA k : [k EXCEPT !.queue = "suspended", !.wanted = "yes"])
  <2>1. cs \in [CardIds -> Card] /\ StaySuspended(cs)
    BY <1>0 DEF Updated, Card, StaySuspended
  <2> QED
    BY <1>1, <2>1, CardsOnlyKeeps DEF Suspend
<1>2. ASSUME NEW queues,
             Operation([c \in CardIds |-> IF c \in s THEN Released(cards[c], queues) ELSE cards[c]],
                       revlog)
      PROVE  StudyInv' /\ Stays
  <2> DEFINE cs == [c \in CardIds |-> IF c \in s THEN Released(cards[c], queues) ELSE cards[c]]
  <2>1. cs \in [CardIds -> Card] /\ StaySuspended(cs)
    BY <1>0 DEF Released, Card, StaySuspended
  <2> QED
    BY <1>2, <2>1, CardsOnlyKeeps
<1>3. CASE Unsuspend(s) \/ Unbury(s) \/ RestoreBuriedAndSuspended(s)
  BY <1>2, <1>3, Zenon DEF Unsuspend, Unbury, RestoreBuriedAndSuspended, Updated
<1>4. CASE Bury(s)
  <2> DEFINE cs == Updated(s, LAMBDA k : IF k.queue = "suspended" THEN k
                                         ELSE [k EXCEPT !.queue = "buried"])
  <2>1. cs \in [CardIds -> Card] /\ StaySuspended(cs)
    BY <1>0 DEF Updated, Card, StaySuspended
  <2> QED
    BY <1>4, <2>1, CardsOnlyKeeps DEF Bury
<1> QED
  BY <1>1, <1>3, <1>4

LEMMA ForgetKeeps ==
  ASSUME StudyInv, NEW s \in SUBSET CardIds, Forget(s)
  PROVE  StudyInv' /\ Stays
<1> DEFINE cs == Updated(s, LAMBDA k : [sched |-> 0, queue |-> "in", wanted |-> "no"])
<1>1. PICK order \in Orders(s) : Operation(cs, Logged(order, "manual"))
  BY DEF Forget
<1>2. cs \in [CardIds -> Card] /\ StaySuspended(cs)
  BY PresentParts, Bounds DEF Updated, Card, StaySuspended
<1> QED
  BY <1>1, <1>2, LoggedKeeps

LEMMA OneCardKeeps ==
  ASSUME StudyInv, NEW c \in CardIds \cup {Unknown},
         \/ \E ivl \in 2 .. MaxSched : PatchCard(c, ivl)
         \/ \E valid \in BOOLEAN : SetCustomData(c, valid)
  PROVE  StudyInv' /\ Stays
<1>1. ASSUME NEW ivl \in 2 .. MaxSched, c \in CardIds,
             Operation([cards EXCEPT ![c].sched = ivl], revlog)
      PROVE  StudyInv' /\ Stays
  <2> DEFINE cs == [cards EXCEPT ![c].sched = ivl]
  <2>1. cs \in [CardIds -> Card] /\ StaySuspended(cs)
    BY <1>1, PresentParts, Bounds DEF Card, StaySuspended
  <2> QED
    BY <1>1, <2>1, CardsOnlyKeeps
<1>2. CASE \E ivl \in 2 .. MaxSched : PatchCard(c, ivl)
  BY <1>1, <1>2, RefusalKeeps, UnfollowedKeeps DEF PatchCard
<1>3. CASE \E valid \in BOOLEAN : SetCustomData(c, valid)
  BY <1>3, RefusalKeeps, UnfollowedKeeps DEF SetCustomData
<1> QED
  BY <1>2, <1>3

(* Rows that are inserted go where no row is; after that there is nothing  *)
(* to undo or to redo.                                                     *)
LEMMA InsertKeeps ==
  ASSUME StudyInv, NEW entries, InsertRevlog(entries)
  PROVE  StudyInv' /\ Stays
<1>1. CASE RefuseStudy
  BY <1>1, RefusalKeeps
<1>2. CASE /\ ~UnknownCard(entries) /\ ~Taken(entries)
           /\ Insert(entries)
           /\ past' = <<>> /\ undone' = <<>>
           /\ UNCHANGED <<cards, now>>
  <2>1. ASSUME NEW t \in Times
        PROVE  revlog'[t] = revlog[t] \/ (revlog[t] = None /\ revlog'[t] \in Row)
    <3>1. CASE t \in Ids(entries)
      <4> DEFINE at == CHOOSE k \in DOMAIN entries : entries[k].id = t
      <4>1. at \in DOMAIN entries
        BY <3>1 DEF Ids
      <4> HIDE DEF at
      <4>2. revlog'[t] = [card |-> entries[at].card, kind |-> "replayed"]
        BY <1>2, <3>1 DEF Insert, at
      <4>3. entries[at].card \in CardIds
        BY <1>2, <4>1 DEF UnknownCard
      <4>4. t \notin Rows(revlog)
        BY <1>2, <3>1 DEF Taken
      <4> QED
        BY <4>2, <4>3, <4>4 DEF Row, Rows
    <3>2. CASE t \notin Ids(entries)
      BY <1>2, <3>2 DEF Insert
    <3> QED
      BY <3>1, <3>2
  <2>2. revlog' = [t \in Times |-> revlog'[t]]
    BY <1>2 DEF Insert
  <2>3. revlog' \in Log
    <3>1. \A t \in Times : revlog'[t] \in Row \cup {None}
      BY <2>1, PresentParts DEF Log
    <3> QED
      BY <2>2, <3>1, Zenon DEF Log
  <2>4. Present' \in Safe(revlog')
    BY <1>2, <2>3, PresentParts, SafeMoment DEF Present
  <2>5. Stack(past', Safe(revlog')) /\ Stack(undone', Safe(revlog'))
        /\ Len(past') = 0 /\ Len(undone') = 0
    BY <1>2, Bounds DEF Stack
  <2>6. Stays
    BY <2>1 DEF Stays, Grows
  <2>7. Under(past', revlog') /\ Over(undone', revlog')
    BY <1>2, NoMoments
  <2> QED
    BY <1>2, <2>4, <2>5, <2>6, <2>7, Bounds DEF StudyInv
<1> QED
  BY <1>1, <1>2 DEF InsertRevlog

-----------------------------------------------------------------------------
(* Pages of the log *)

LEMMA RowsAreTimes ==
  /\ Rows(revlog) \in SUBSET (0 .. MaxClock) /\ Rows(revlog) \subseteq Times
  /\ IsFiniteSet(Rows(revlog))
<1>1. Rows(revlog) \in SUBSET (0 .. MaxClock) /\ Rows(revlog) \subseteq Times
  BY Bounds DEF Rows, Times
<1>2. 0 \in Int /\ MaxClock \in Int
  BY Bounds
<1>3. IsFiniteSet(0 .. MaxClock)
  BY <1>2, FS_Interval, Zenon
<1>4. IsFiniteSet(Rows(revlog))
  BY <1>1, <1>3, FS_Subset, Zenon
<1> QED
  BY <1>1, <1>4

(* The rows before one are finitely many, and the more, the later it is.   *)
LEMMA BeforeGrows ==
  ASSUME NEW since, NEW t \in Times, NEW u \in Times, u <= t
  PROVE  /\ IsFiniteSet(Before(since, t)) /\ Cardinality(Before(since, t)) \in Nat
         /\ Cardinality(Before(since, u)) <= Cardinality(Before(since, t))
<1>1. Before(since, t) \subseteq Rows(revlog)
  BY DEF Before
<1>2. IsFiniteSet(Before(since, t)) /\ Cardinality(Before(since, t)) \in Nat
  BY <1>1, RowsAreTimes, FS_Subset, FS_CardinalityType
<1>3. Before(since, u) \subseteq Before(since, t)
  BY RowsAreTimes, Bounds DEF Before, Times
<1> QED
  BY <1>2, <1>3, FS_Subset

(* A page begins with the first of the rows that are left ...              *)
LEMMA FirstIsRead ==
  ASSUME NEW since \in Nat, NEW limit \in Nat \ {0}, NEW t \in Rows(revlog), t >= since
  PROVE  Entries(since, limit) # {}
<1> DEFINE left == {u \in Rows(revlog) : u >= since}
<1>1. left \in SUBSET Nat /\ left # {}
  BY RowsAreTimes
<1> HIDE DEF left
<1>2. Min(left) \in left /\ \A y \in left : Min(left) <= y
  BY <1>1, LeastOf
<1>3. Before(since, Min(left)) = {}
  <2>1. ASSUME NEW u \in Before(since, Min(left))
        PROVE  FALSE
    <3>1. u \in left /\ u < Min(left) /\ u \in Nat /\ Min(left) \in Nat
      BY <1>1, <1>2, <2>1, RowsAreTimes DEF Before, left
    <3> QED
      BY <1>2, <3>1
  <2> QED
    BY <2>1
<1>4. Cardinality(Before(since, Min(left))) = 0
  BY <1>3, FS_EmptySet
<1>5. Min(left) \in Rows(revlog) /\ Min(left) >= since
  BY <1>2 DEF left
<1> QED
  BY <1>4, <1>5 DEF Entries, Fetched, Earliest

(* ... and leaves no row out: one that is left over comes after all of it. *)
LEMMA PagesAreInOrder ==
  ASSUME NEW since \in Nat, NEW limit \in Nat \ {0},
         NEW t \in Rows(revlog), t >= since, t \notin Entries(since, limit),
         NEW p \in Entries(since, limit)
  PROVE  p < t
<1>1. p \in Times /\ t \in Times /\ p \in Nat /\ t \in Nat
  BY RowsAreTimes DEF Entries, Fetched, Earliest
<1>2. Cardinality(Before(since, p)) < limit /\ Cardinality(Before(since, p)) \in Nat
  BY <1>1, BeforeGrows DEF Entries
<1>3. Cardinality(Before(since, t)) \in Nat
  BY <1>1, BeforeGrows
<1>4. ~ (Cardinality(Before(since, t)) < limit)
  BY <1>3 DEF Entries, Fetched, Earliest
<1> SUFFICES ASSUME t <= p PROVE FALSE
  BY <1>1
<1>5. Cardinality(Before(since, t)) <= Cardinality(Before(since, p))
  BY <1>1, BeforeGrows
<1> QED
  BY <1>2, <1>3, <1>4, <1>5

(* A page that is not truncated is the last one. *)
LEMMA LastPage ==
  ASSUME NEW since \in Nat, NEW limit \in Nat \ {0}, ~Truncated(since, limit),
         NEW t \in Rows(revlog), t >= since
  PROVE  t \in Entries(since, limit)
<1> SUFFICES ASSUME t \notin Entries(since, limit) PROVE FALSE
  OBVIOUS
<1> DEFINE left == {u \in Rows(revlog) : u >= since /\ u \notin Entries(since, limit)}
<1>1. left \in SUBSET Nat /\ left # {}
  BY RowsAreTimes
<1> HIDE DEF left
<1>2. PICK r \in left : \A y \in left : r <= y
  BY <1>1, LeastOf
<1>3. r \in Rows(revlog) /\ r >= since /\ r \notin Entries(since, limit) /\ r \in Nat /\ r \in Times
  BY <1>1, <1>2, RowsAreTimes DEF left
<1>4. Before(since, r) \subseteq Entries(since, limit)
  <2>1. ASSUME NEW u \in Before(since, r), u \notin Entries(since, limit)
        PROVE  FALSE
    <3>1. u \in left /\ u < r /\ u \in Nat
      BY <2>1, RowsAreTimes DEF Before, left
    <3> QED
      BY <1>2, <1>3, <3>1
  <2> QED
    BY <2>1
<1> DEFINE rows == Before(since, r)
           count(u) == Cardinality(Before(since, u))
<1>5. rows \in SUBSET (0 .. MaxClock) /\ IsFiniteSet(rows) /\ count(r) \in Nat
  <2>1. rows \in SUBSET (0 .. MaxClock)
    BY RowsAreTimes DEF Before
  <2> HIDE DEF rows
  <2>2. r <= r
    BY <1>3
  <2> QED
    BY <1>3, <2>1, <2>2, BeforeGrows, Zenon DEF rows
<1>6. count(r) >= limit + 1
  BY <1>3, <1>5 DEF Truncated, Entries, Fetched, Earliest
<1>7. rows # {}
  BY <1>6, FS_EmptySet
<1>8. Max(rows) \in rows /\ \A y \in rows : Max(rows) >= y
  BY <1>5, <1>7, Bounds, GreatestOf
<1> DEFINE u == Max(rows)
<1>9. u \in Entries(since, limit) /\ u \in Rows(revlog) /\ u < r /\ since <= u /\ u \in Times
  BY <1>4, <1>8, RowsAreTimes DEF Before
<1>10. count(u) < limit /\ count(u) \in Nat /\ IsFiniteSet(Before(since, u))
  BY <1>9, BeforeGrows, RowsAreTimes DEF Entries, Times
<1>11. rows = Before(since, u) \cup {u} /\ u \notin Before(since, u)
  <2>1. \A y \in rows : y \in Nat /\ y <= u
    BY <1>5, <1>8
  <2>2. u \in Nat /\ r \in Nat
    BY <1>3, <1>5, <1>8
  <2> HIDE DEF u
  <2> QED
    BY <1>8, <1>9, <2>1, <2>2, RowsAreTimes DEF Before, u
<1>12. count(r) = count(u) + 1
  BY <1>10, <1>11, FS_AddElement
<1> QED
  BY <1>5, <1>6, <1>10, <1>12

-----------------------------------------------------------------------------
(* The views of a selection *)

LEMMA Division ==
  /\ \A a \in Nat, K \in Nat \ {0} : a \div K \in Nat
  /\ \A a, b \in Nat, K \in Nat \ {0} : a <= b => a \div K <= b \div K
OBVIOUS

LEMMA Remainder ==
  ASSUME NEW a \in Nat, NEW K \in Nat \ {0}
  PROVE  /\ a % K \in 0 .. K - 1 /\ a % K <= a
         /\ (a - (a % K)) % K = 0
<1> DEFINE q == a \div K
<1>1. a - (a % K) = K * q /\ q \in Nat
  OBVIOUS
<1>2. a % K \in 0 .. K - 1
  OBVIOUS
<1> HIDE DEF q
<1>3. (K * q) % K = 0 /\ K * q >= 0
  BY <1>1
<1> QED
  BY <1>1, <1>2, <1>3

(* The second of the first stamp is the first of the seconds, and so for   *)
(* the last.                                                               *)
LEMMA FirstAndLastSecond ==
  ASSUME NEW R \in SUBSET (0 .. MaxClock), R # {}
  PROVE  LET seconds == {t \div Second : t \in R}
         IN  /\ seconds # {}
             /\ Min(seconds) = Min(R) \div Second
             /\ Max(seconds) = Max(R) \div Second
<1> DEFINE second(t) == t \div Second
           last == second(MaxClock)
           seconds == {second(t) : t \in R}
<1>1. \A t \in R : t \in Nat /\ t <= MaxClock
  BY Bounds
<1>2. Min(R) \in R /\ (\A y \in R : Min(R) <= y) /\ Max(R) \in R /\ (\A y \in R : Max(R) >= y)
  BY <1>1, Bounds, LeastOf, GreatestOf
<1>3. last \in Nat /\ \A t \in R : second(t) \in 0 .. last
  BY <1>1, Bounds, Division
<1>4. \A t \in R : second(Min(R)) <= second(t) /\ second(Max(R)) >= second(t)
  BY <1>1, <1>2, Bounds, Division
<1> HIDE DEF second, last
<1>5. seconds \in SUBSET (0 .. last) /\ seconds \in SUBSET Nat /\ seconds # {}
  <2>1. \A y \in seconds : y \in 0 .. last
    BY <1>3, Zenon
  <2>2. seconds # {}
    OBVIOUS
  <2> HIDE DEF seconds
  <2>3. seconds \in SUBSET (0 .. last) /\ seconds \in SUBSET Nat
    BY <2>1
  <2> QED
    BY <2>2, <2>3
<1>6. /\ second(Min(R)) \in seconds /\ \A y \in seconds : second(Min(R)) <= y
      /\ second(Max(R)) \in seconds /\ \A y \in seconds : second(Max(R)) >= y
  BY <1>2, <1>4
<1> HIDE DEF seconds
<1>7. /\ Min(seconds) \in seconds /\ \A y \in seconds : Min(seconds) <= y
      /\ Max(seconds) \in seconds /\ \A y \in seconds : Max(seconds) >= y
  BY <1>3, <1>5, LeastOf, GreatestOf
<1>8. Min(seconds) = second(Min(R)) /\ Max(seconds) = second(Max(R))
  <2>1. \A y \in seconds : y \in Nat
    BY <1>5
  <2>2. /\ Min(seconds) \in Nat /\ second(Min(R)) \in Nat
        /\ Max(seconds) \in Nat /\ second(Max(R)) \in Nat
    BY <1>6, <1>7, <2>1
  <2>3. /\ Min(seconds) <= second(Min(R)) /\ second(Min(R)) <= Min(seconds)
        /\ Max(seconds) >= second(Max(R)) /\ second(Max(R)) >= Max(seconds)
    BY <1>6, <1>7
  <2> QED
    BY <2>2, <2>3
<1> QED
  BY <1>5, <1>8 DEF seconds, second

(* Each card of a selection is in one of the chunks it is cut into.        *)
LEMMA InSomeChunk ==
  ASSUME NEW cids \in Seq(CardIds), NEW p \in 1 .. Len(cids)
  PROVE  \E start \in Starts(cids) : cids[p] \in Range(Chunk(cids, start))
<1> DEFINE K == REVLOG_BOUNDS_CHUNK
           start == (p - 1) - ((p - 1) % K)
           end == Min({start + K, Len(cids)})
<1>1. p - 1 \in Nat /\ Len(cids) \in Nat /\ K \in Nat \ {0}
  BY Bounds
<1>2. (p - 1) % K \in 0 .. K - 1 /\ (p - 1) % K <= p - 1 /\ start % K = 0
  BY <1>1, Remainder
<1>3. start \in 0 .. Len(cids) - 1 /\ start + 1 <= p /\ p <= start + K
  BY <1>1, <1>2
<1>4. start \in Starts(cids)
  BY <1>2, <1>3 DEF Starts
<1> HIDE DEF start
<1>5. {start + K, Len(cids)} \in SUBSET Nat /\ {start + K, Len(cids)} # {}
  BY <1>1, <1>3
<1>6. end \in {start + K, Len(cids)} /\ end <= Len(cids)
  BY <1>5, LeastOf
<1> HIDE DEF end
<1>7. end \in Nat /\ p <= end /\ end <= Len(cids)
  BY <1>1, <1>3, <1>6
<1> DEFINE first == start + 1
           chunk == SubSeq(cids, first, end)
<1>8. Chunk(cids, start) = chunk
  BY Zenon DEF Chunk, end
<1>9. first \in Nat /\ end \in Int /\ first <= end + 1 /\ \A i \in first .. end : cids[i] \in CardIds
  BY <1>1, <1>3, <1>7
<1>10. p - first + 1 \in 1 .. end - first + 1 /\ first + (p - first + 1) - 1 = p
  BY <1>1, <1>3, <1>7
<1> HIDE DEF first
<1>11. /\ chunk \in Seq(CardIds) /\ Len(chunk) = end - first + 1
       /\ \A i \in 1 .. end - first + 1 : chunk[i] = cids[first + i - 1]
  BY <1>9, Part
<1> HIDE DEF chunk
<1>12. p - first + 1 \in DOMAIN chunk /\ chunk[p - first + 1] = cids[p]
  BY <1>10, <1>11
<1> QED
  BY <1>4, <1>8, <1>12 DEF Range

(* The dict of bounds has each rated card of the selection, whichever of   *)
(* the chunks it came from, and no other.                                  *)
LEMMA BoundsOfSelection ==
  ASSUME NEW cids \in Seq(CardIds), NEW p \in 1 .. Len(cids)
  PROVE  IF Rated(cids[p]) = {} THEN cids[p] \notin DOMAIN ReviewBounds(cids)
         ELSE /\ cids[p] \in DOMAIN ReviewBounds(cids)
              /\ ReviewBounds(cids)[cids[p]] =
                   <<Min(Rated(cids[p])) \div Second, Max(Rated(cids[p])) \div Second>>
<1> DEFINE c == cids[p]
           found(start) == Grouped(Chunk(cids, start))
           all == UNION {DOMAIN found(start) : start \in Starts(cids)}
           at == CHOOSE start \in Starts(cids) : c \in DOMAIN found(start)
<1>1. \A start : DOMAIN found(start) = {d \in Range(Chunk(cids, start)) : Rated(d) # {}}
  BY Zenon DEF Grouped
<1>2. \A start : c \in DOMAIN found(start) =>
        found(start)[c] = <<Min(Rated(c)) \div Second, Max(Rated(c)) \div Second>>
  BY Zenon DEF Grouped
<1>3. DOMAIN ReviewBounds(cids) = all
  BY Zenon DEF ReviewBounds
<1>4. c \in all => ReviewBounds(cids)[c] = found(at)[c]
  BY Zenon DEF ReviewBounds
<1>5. CASE Rated(c) = {}
  BY <1>1, <1>3, <1>5
<1>6. CASE Rated(c) # {}
  <2>1. PICK start \in Starts(cids) : c \in Range(Chunk(cids, start))
    BY InSomeChunk
  <2>2. c \in DOMAIN found(start)
    BY <1>1, <1>6, <2>1
  <2>3. c \in all
    BY <2>1, <2>2
  <2>4. c \in DOMAIN found(at)
    BY <2>1, <2>2
  <2> QED
    BY <1>2, <1>3, <1>4, <1>6, <2>3, <2>4, Zenon
<1> QED
  BY <1>5, <1>6

LEMMA ViewOfSelection ==
  ASSUME revlog \in Log, NEW cids \in Seq(CardIds), NEW p \in DOMAIN cids
  PROVE  LET seconds == {t \div Second : t \in {u \in Rows(revlog) :
                           revlog[u].card = cids[p] /\ revlog[u].kind \in {"rated", "replayed"}}}
         IN  CardViews(cids)[p] = IF seconds = {} THEN None ELSE <<Min(seconds), Max(seconds)>>
<1> DEFINE c == cids[p]
           R == {u \in Rows(revlog) : revlog[u].card = c /\ revlog[u].kind \in {"rated", "replayed"}}
           seconds == {t \div Second : t \in R}
<1>1. R = Rated(c)
  BY RowsAreTimes DEF Rated, Log, Row, Rows
<1>2. R \in SUBSET (0 .. MaxClock) /\ p \in 1 .. Len(cids)
  BY RowsAreTimes
<1>3. CardViews(cids)[p] = IF c \in DOMAIN ReviewBounds(cids) THEN ReviewBounds(cids)[c] ELSE None
  BY Zenon DEF CardViews
<1>4. CASE R = {}
  <2>1. seconds = {}
    BY <1>4
  <2>2. c \notin DOMAIN ReviewBounds(cids)
    BY <1>1, <1>2, <1>4, BoundsOfSelection
  <2> QED
    BY <1>3, <2>1, <2>2
<1>5. CASE R # {}
  <2>1. c \in DOMAIN ReviewBounds(cids)
        /\ ReviewBounds(cids)[c] = <<Min(R) \div Second, Max(R) \div Second>>
    BY <1>1, <1>2, <1>5, BoundsOfSelection
  <2>2. seconds # {} /\ Min(seconds) = Min(R) \div Second /\ Max(seconds) = Max(R) \div Second
    <3> HIDE DEF R
    <3> QED
      BY <1>2, <1>5, FirstAndLastSecond
  <2> HIDE DEF seconds
  <2>3. CardViews(cids)[p] = <<Min(seconds), Max(seconds)>>
    BY <1>3, <2>1, <2>2
  <2> QED
    BY <2>2, <2>3 DEF seconds
<1> QED
  BY <1>4, <1>5

=============================================================================
