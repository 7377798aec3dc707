----------------------------- MODULE StudyCards -----------------------------
(***************************************************************************)
(* Cards, their review log, and the library's undo and redo stacks: the    *)
(* card actions, undo and redo, and the raw reads and writes of the log.   *)
(* One step is one request body, under the writer lock; a refused request  *)
(* is a step that changes nothing.                                         *)
(*                                                                         *)
(* A card is its scheduling state (0 new, 1 learning, from 2 on review, at *)
(* some interval), the queue it is in, and a history value: whether it is  *)
(* wanted suspended.  The log maps a time stamp to a row.                  *)
(***************************************************************************)
EXTENDS Integers, FiniteSetsExt, SequencesExt

CONSTANTS
  CardIds,
  Unknown,     \* an id that no card has
  None,        \* no row, no reader
  MaxSched,    \* bound: the longest interval
  MaxClock,    \* bound: the last time stamp
  UndoLimit,   \* how many operations the library remembers
  Second,      \* time stamps in a second: 1000
  REVLOG_BOUNDS_CHUNK

ASSUME CardAssumption == Unknown \notin CardIds /\ IsFiniteSet(CardIds)
ASSUME SizeAssumption ==
  {MaxSched, MaxClock, UndoLimit, Second, REVLOG_BOUNDS_CHUNK} \subseteq Nat \ {0}

VARIABLES
  cards,     \* the cards
  revlog,    \* the review log
  now,       \* the clock
  past,      \* what undo goes back to, the latest last
  undone     \* what redo goes back to, the latest last

studyVars == <<cards, revlog, now, past, undone>>

Times == 1 .. MaxClock
Card == [sched : 0 .. MaxSched, queue : {"in", "suspended", "buried"},
         wanted : {"no", "yes", "half"}]

(* Rows that answers wrote, rows that reschedule (ease 0), rows inserted.  *)
Row == [card : CardIds, kind : {"rated", "manual", "replayed"}]
Moment == [cards : [CardIds -> Card], revlog : [Times -> Row \cup {None}]]

StudyInit ==
  /\ cards = [c \in CardIds |-> [sched |-> 0, queue |-> "in", wanted |-> "no"]]
  /\ revlog = [t \in Times |-> None]
  /\ now = 1
  /\ past = <<>> /\ undone = <<>>

RefuseStudy == UNCHANGED studyVars

Tick ==
  /\ now < MaxClock
  /\ now' = now + 1
  /\ UNCHANGED <<cards, revlog, past, undone>>

-----------------------------------------------------------------------------
(* The library *)

Rows(log) == {t \in Times : log[t] # None}
Present == [cards |-> cards, revlog |-> revlog]

Remember(stack, moment) ==
  IF Len(stack) < UndoLimit THEN Append(stack, moment) ELSE Append(Tail(stack), moment)

(* An operation that can be undone.  One without a change is not kept.     *)
Operation(cs, log) ==
  /\ cards' = cs /\ revlog' = log
  /\ IF cs = cards /\ log = revlog THEN UNCHANGED <<past, undone>>
     ELSE past' = Remember(past, Present) /\ undone' = <<>>
  /\ UNCHANGED now

(* An operation on what is not followed of the cards. *)
Unfollowed ==
  /\ past' = Remember(past, Present) /\ undone' = <<>>
  /\ UNCHANGED <<cards, revlog, now>>

(* Rows are stamped with the time; one whose stamp is taken comes after    *)
(* the last row.  The rows of several cards come in some order.  What is   *)
(* stamped is bounded by Room.                                             *)
Room(n) == \A t \in Rows(revlog) \cup {now - 1} : t + n <= MaxClock
Orders(s) == {order \in [1 .. Cardinality(s) -> s] : IsInjective(order)}

Stamp(k) ==
  LET first == IF revlog[now] = None THEN now ELSE Max(Rows(revlog)) + 1
  IN  IF k = 1 THEN first ELSE Max(Rows(revlog) \cup {first}) + k - 1

Logged(order, kind) ==
  [t \in Times |->
     IF \E k \in DOMAIN order : Stamp(k) = t
     THEN [card |-> order[CHOOSE k \in DOMAIN order : Stamp(k) = t], kind |-> kind]
     ELSE revlog[t]]

Updated(s, Update(_)) == [c \in CardIds |-> IF c \in s THEN Update(cards[c]) ELSE cards[c]]

-----------------------------------------------------------------------------
(* Cards *)

Suspend(s) ==
  Operation(Updated(s, LAMBDA k : [k EXCEPT !.queue = "suspended", !.wanted = "yes"]), revlog)

(* The library clears the queue that is meant, or both.                   *)
Released(k, queues) ==
  IF k.queue \in queues THEN [k EXCEPT !.queue = "in", !.wanted = "no"] ELSE k
RestoreBuriedAndSuspended(s) ==
  Operation(Updated(s, LAMBDA k : Released(k, {"suspended", "buried"})), revlog)
Unsuspend(s) ==
  \/ Operation(Updated(s, LAMBDA k : Released(k, {"suspended"})), revlog)
  \/ RestoreBuriedAndSuspended(s)
Unbury(s) ==
  \/ Operation(Updated(s, LAMBDA k : Released(k, {"buried"})), revlog)
  \/ RestoreBuriedAndSuspended(s)

(* A suspended card is left as it is. *)
Bury(s) ==
  Operation(Updated(s, LAMBDA k : IF k.queue = "suspended" THEN k
                                  ELSE [k EXCEPT !.queue = "buried"]), revlog)

(* The cards are new again, in the new queue, and a row says so. *)
Forget(s) ==
  /\ Room(Cardinality(s))
  /\ \E order \in Orders(s) :
       Operation(Updated(s, LAMBDA k : [sched |-> 0, queue |-> "in", wanted |-> "no"]),
                 Logged(order, "manual"))

(* The interval counts for a card in review only. *)
PatchCard(c, ivl) ==
  \/ c = Unknown /\ RefuseStudy
  \/ c \in CardIds /\ cards[c].sched < 2 /\ Unfollowed
  \/ c \in CardIds /\ cards[c].sched >= 2
     /\ Operation([cards EXCEPT ![c].sched = ivl], revlog)

(* Custom data that is not within the library's limits is refused. *)
SetCustomData(c, valid) ==
  \/ (c = Unknown \/ ~valid) /\ RefuseStudy
  \/ c \in CardIds /\ valid /\ Unfollowed

SetFlag == Unfollowed
Reposition == Unfollowed

-----------------------------------------------------------------------------
(* Undo *)

Undo ==
  \/ past = <<>> /\ RefuseStudy
  \/ /\ past # <<>>
     /\ cards' = Last(past).cards /\ revlog' = Last(past).revlog
     /\ past' = Front(past)
     /\ undone' = Append(undone, Present)
     /\ UNCHANGED now

Redo ==
  \/ undone = <<>> /\ RefuseStudy
  \/ /\ undone # <<>>
     /\ cards' = Last(undone).cards /\ revlog' = Last(undone).revlog
     /\ undone' = Front(undone)
     /\ past' = Remember(past, Present)
     /\ UNCHANGED now

-----------------------------------------------------------------------------
(* The review log *)

Ids(entries) == {entries[k].id : k \in DOMAIN entries}
Repeated(entries) == Cardinality(Ids(entries)) < Len(entries)
Unstamped(entries, clock) == \E id \in Ids(entries) : id > clock \/ id <= 0
UnknownCard(entries) == \E k \in DOMAIN entries : entries[k].card \notin CardIds
Taken(entries) == Ids(entries) \cap Rows(revlog) # {}

Insert(entries) ==
  revlog' = [t \in Times |->
    IF t \in Ids(entries)
    THEN [card |-> entries[CHOOSE k \in DOMAIN entries : entries[k].id = t].card,
          kind |-> "replayed"]
    ELSE revlog[t]]

(* Mutants of InsertRevlog: the cards are not looked up; what can be undone *)
(* and redone is kept.                                                     *)
InsertUnseen(entries) ==
  /\ entries # <<>> /\ ~Repeated(entries) /\ ~Unstamped(entries, now) /\ ~Taken(entries)
  /\ Insert(entries)
  /\ past' = <<>> /\ undone' = <<>>
  /\ UNCHANGED <<cards, now>>

InsertBeside(entries) ==
  /\ entries # <<>> /\ ~Repeated(entries) /\ ~Unstamped(entries, now)
  /\ ~UnknownCard(entries) /\ ~Taken(entries)
  /\ Insert(entries)
  /\ UNCHANGED <<cards, now, past, undone>>

(* All rows or none.  The clock is read before the lock is asked for.  SQL *)
(* that writes drops what could be undone or redone.                       *)
InsertRevlog(entries) ==
  \E clock \in 1 .. now :
    IF \/ entries = <<>> \/ Repeated(entries) \/ Unstamped(entries, clock)
       \/ UnknownCard(entries) \/ Taken(entries)
    THEN RefuseStudy
    ELSE /\ Insert(entries)
         /\ past' = <<>> /\ undone' = <<>>
         /\ UNCHANGED <<cards, now>>

(* order by id: how many rows come before one. *)
Before(since, t) == {u \in Rows(revlog) : since <= u /\ u < t}
Earliest(since, n) ==
  {t \in Rows(revlog) : t >= since /\ Cardinality(Before(since, t)) < n}

(* Mutant of Fetched: no row beyond the ones asked for.                    *)
FetchedExactly(since, limit) == Earliest(since, limit)

(* The rows from a stamp on, and one more than asked for: if it is there,  *)
(* the answer has been truncated.                                          *)
Fetched(since, limit) == Earliest(since, limit + 1)
Entries(since, limit) == {t \in Fetched(since, limit) : Cardinality(Before(since, t)) < limit}
Truncated(since, limit) == Fetched(since, limit) # Entries(since, limit)

-----------------------------------------------------------------------------
(* Card views *)

Rated(c) == {t \in Rows(revlog) : revlog[t].card = c /\ revlog[t].kind # "manual"}

(* One grouped query: first and latest rated row of each card, in seconds. *)
Grouped(chunk) ==
  [c \in {d \in Range(chunk) : Rated(d) # {}} |->
     <<Min(Rated(c)) \div Second, Max(Rated(c)) \div Second>>]

(* Mutant of Starts: a step is one longer than a chunk.                    *)
StartsSkip(cids) == {k \in 0 .. Len(cids) - 1 : k % (REVLOG_BOUNDS_CHUNK + 1) = 0}

Starts(cids) == {k \in 0 .. Len(cids) - 1 : k % REVLOG_BOUNDS_CHUNK = 0}
Chunk(cids, start) == SubSeq(cids, start + 1, Min({start + REVLOG_BOUNDS_CHUNK, Len(cids)}))

(* The chunks of the selection, one query each, into one dict; a card that *)
(* is in several of them has the same bounds in each.                      *)
ReviewBounds(cids) ==
  LET found(start) == Grouped(Chunk(cids, start))
  IN  [c \in UNION {DOMAIN found(start) : start \in Starts(cids)} |->
         found(CHOOSE start \in Starts(cids) : c \in DOMAIN found(start))[c]]

(* bounds.get(cid), None for a card that was never reviewed. *)
CardViews(cids) ==
  LET bounds == ReviewBounds(cids)
  IN  [k \in DOMAIN cids |-> IF cids[k] \in DOMAIN bounds THEN bounds[cids[k]] ELSE None]

=============================================================================
