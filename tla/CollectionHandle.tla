------------------------- MODULE CollectionHandle -------------------------
(***************************************************************************)
(* collection_handle.py and its callers: the worker threads that serve     *)
(* requests (and the thread that runs an autosync tick) enter the one open *)
(* collection through `with handle.locked() as col`, while the application *)
(* lifespan closes the handle on shutdown.                                 *)
(*                                                                         *)
(* The body of a `with` is one of: an update that reads, computes and      *)
(* writes back (PUT /notes/{id} is the pattern), a query that goes through *)
(* col.db, and the two full syncs, which detach the collection, hand it to *)
(* the backend and re-attach it.                                           *)
(*                                                                         *)
(* `with` takes the lock and tests `_col` in one step here: only the       *)
(* holder of the lock assigns `_col`, so no thread can tell the difference.*)
(* No body takes the lock again, so the RLock never nests.                 *)
(***************************************************************************)
EXTENDS Naturals

CONSTANTS
  Threads,      \* worker threads
  Nobody,       \* the value of `lock` when no thread holds it
  MaxRequests   \* bound: how many requests ever arrive

ASSUME NobodyAssumption == Nobody \notin Threads
ASSUME MaxRequestsAssumption == MaxRequests \in Nat

VARIABLES
  lock,       \* CollectionHandle._lock: the holder, or Nobody
  open,       \* CollectionHandle._col is not None
  attached,   \* _col.db is not None
  appHandle,  \* app.state.handle is not None
  content,    \* the updates the collection file holds
  remote,     \* the updates the sync server's copy holds
  pc,         \* where each thread is
  op,         \* the request each thread serves or last served
  ticket,     \* the number of that request; it names its update
  seen,       \* what the body of an update has read
  reply,      \* the answer to the last request of each thread
  arrived,    \* how many requests have arrived
  lifespan,   \* where the shutdown half of app.lifespan is
  acked,      \* history: updates answered 200 and not since replaced
  torn        \* history: the last full sync failed half-way

handleVars == <<lock, open, attached, appHandle, lifespan>>
dataVars == <<content, remote, seen>>
threadVars == <<pc, op, ticket, reply, arrived>>
historyVars == <<acked, torn>>
vars == <<handleVars, dataVars, threadVars, historyVars>>

FullSync == {"full_upload", "full_download"}
Op == {"update", "query"} \union FullSync
Ticket == 0 .. MaxRequests

Inside == {"body", "computed", "detached", "transferred"}
Swapping == {"detached", "transferred"}

(* Somebody is between close_for_full_sync and reopen. *)
SwapUnderWay == \E t \in Threads : pc[t] \in Swapping

Init ==
  /\ lock = Nobody
  /\ open = TRUE
  /\ attached = TRUE
  /\ appHandle = TRUE
  /\ content = {}
  /\ remote \in SUBSET {0}            \* what other clients have put there
  /\ pc = [t \in Threads |-> "idle"]
  /\ op = [t \in Threads |-> "query"]
  /\ ticket = [t \in Threads |-> 0]
  /\ seen = [t \in Threads |-> {}]
  /\ reply = [t \in Threads |-> "none"]
  /\ arrived = 0
  /\ lifespan = "serving"
  /\ acked = {}
  /\ torn = FALSE

-----------------------------------------------------------------------------
(* Requests *)

(* deps.get_handle has found a handle; the endpoint goes on to locked(). *)
Arrive(t, o) ==
  /\ pc[t] = "idle"
  /\ arrived < MaxRequests
  /\ appHandle
  /\ arrived' = arrived + 1
  /\ ticket' = [ticket EXCEPT ![t] = arrived + 1]
  /\ op' = [op EXCEPT ![t] = o]
  /\ pc' = [pc EXCEPT ![t] = "waiting"]
  /\ reply' = [reply EXCEPT ![t] = "none"]
  /\ UNCHANGED <<handleVars, dataVars, acked, torn>>

(* deps.get_handle after the lifespan has dropped the handle: 503. *)
ArriveLate(t, o) ==
  /\ pc[t] = "idle"
  /\ arrived < MaxRequests
  /\ ~appHandle
  /\ arrived' = arrived + 1
  /\ ticket' = [ticket EXCEPT ![t] = arrived + 1]
  /\ op' = [op EXCEPT ![t] = o]
  /\ reply' = [reply EXCEPT ![t] = "unavailable"]
  /\ UNCHANGED <<handleVars, dataVars, pc, acked, torn>>

(* Mutant of LockFree: the lock is not looked at. *)
LockIgnored == TRUE

LockFree == lock = Nobody

(* locked(): take the lock and yield the collection. *)
Enter(t) ==
  /\ pc[t] = "waiting"
  /\ LockFree
  /\ open
  /\ lock' = t
  /\ pc' = [pc EXCEPT ![t] = "body"]
  /\ UNCHANGED <<open, attached, appHandle, lifespan, dataVars, op, ticket,
                 reply, arrived, historyVars>>

(* locked(): the collection is closed, CollectionUnavailable -> 503. *)
Refuse(t) ==
  /\ pc[t] = "waiting"
  /\ LockFree
  /\ ~open
  /\ pc' = [pc EXCEPT ![t] = "idle"]
  /\ reply' = [reply EXCEPT ![t] = "unavailable"]
  /\ UNCHANGED <<handleVars, dataVars, op, ticket, arrived, historyVars>>

(* Mutant of Leave: the lock is released only when the body succeeds. *)
LeaveHeldOnError(t, answer) ==
  /\ lock' = IF answer = "ok" THEN Nobody ELSE lock
  /\ pc' = [pc EXCEPT ![t] = "idle"]
  /\ reply' = [reply EXCEPT ![t] = answer]
  /\ UNCHANGED <<open, appHandle, lifespan, op, ticket, arrived>>

(* The `with` ends, normally or by an exception: the lock is released. *)
Leave(t, answer) ==
  /\ lock' = Nobody
  /\ pc' = [pc EXCEPT ![t] = "idle"]
  /\ reply' = [reply EXCEPT ![t] = answer]
  /\ UNCHANGED <<open, appHandle, lifespan, op, ticket, arrived>>

-----------------------------------------------------------------------------
(* Bodies *)

(* An update reads what it is about to change. *)
Read(t) ==
  /\ pc[t] = "body"
  /\ op[t] = "update"
  /\ seen' = [seen EXCEPT ![t] = content]
  /\ pc' = [pc EXCEPT ![t] = "computed"]
  /\ UNCHANGED <<handleVars, content, remote, op, ticket, reply, arrived,
                 historyVars>>

(* Mutant of Write: the change is filed under the wrong number. *)
WriteMisfiled(t) ==
  /\ pc[t] = "computed"
  /\ content' = seen[t] \union {ticket[t] + 1}
  /\ acked' = acked \union {ticket[t]}
  /\ Leave(t, "ok")
  /\ UNCHANGED <<attached, remote, seen, torn>>

(* It writes back what it read, changed. *)
Write(t) ==
  /\ pc[t] = "computed"
  /\ content' = seen[t] \union {ticket[t]}
  /\ acked' = acked \union {ticket[t]}
  /\ Leave(t, "ok")
  /\ UNCHANGED <<attached, remote, seen, torn>>

(* It is refused, before or after it read (404, 409, 422, ...): no write. *)
Reject(t) ==
  /\ pc[t] \in {"body", "computed"}
  /\ op[t] = "update"
  /\ Leave(t, "error")
  /\ UNCHANGED <<attached, dataVars, acked, torn>>

(* A query through col.db, which a failed full sync has left None. *)
Query(t) ==
  /\ pc[t] = "body"
  /\ op[t] = "query"
  /\ Leave(t, IF attached THEN "ok" ELSE "error")
  /\ UNCHANGED <<attached, dataVars, acked, torn>>

(* close_for_full_sync *)
Detach(t) ==
  /\ pc[t] = "body"
  /\ op[t] \in FullSync
  /\ attached' = FALSE
  /\ pc' = [pc EXCEPT ![t] = "detached"]
  /\ UNCHANGED <<lock, open, appHandle, lifespan, dataVars, op, ticket,
                 reply, arrived, historyVars>>

(* full_upload_or_download *)
Upload(t) ==
  /\ pc[t] = "detached"
  /\ op[t] = "full_upload"
  /\ remote' = content
  /\ pc' = [pc EXCEPT ![t] = "transferred"]
  /\ UNCHANGED <<handleVars, content, seen, op, ticket, reply, arrived,
                 historyVars>>

Download(t) ==
  /\ pc[t] = "detached"
  /\ op[t] = "full_download"
  /\ content' = remote
  /\ acked' = acked \intersect remote
  /\ pc' = [pc EXCEPT ![t] = "transferred"]
  /\ UNCHANGED <<handleVars, remote, seen, op, ticket, reply, arrived, torn>>

(* It raises (SyncError, NetworkError -> 502): nothing re-attaches. *)
TransferFails(t) ==
  /\ pc[t] = "detached"
  /\ torn' = TRUE
  /\ Leave(t, "error")
  /\ UNCHANGED <<attached, dataVars, acked>>

(* Mutant of Reopen: the collection is not re-attached. *)
LeaveDetached(t) ==
  /\ pc[t] = "transferred"
  /\ torn' = FALSE
  /\ Leave(t, "ok")
  /\ UNCHANGED <<attached, dataVars, acked>>

(* The server has taken the upload, but its answer is lost: it raises too. *)
UploadUnconfirmed(t) ==
  /\ pc[t] = "detached"
  /\ op[t] = "full_upload"
  /\ remote' = content
  /\ torn' = TRUE
  /\ Leave(t, "error")
  /\ UNCHANGED <<attached, content, seen, acked>>

(* reopen(after_full_sync=True) *)
Reopen(t) ==
  /\ pc[t] = "transferred"
  /\ attached' = TRUE
  /\ torn' = FALSE
  /\ Leave(t, "ok")
  /\ UNCHANGED <<dataVars, acked>>

-----------------------------------------------------------------------------
(* The shutdown half of app.lifespan.  It may begin while bodies run: a    *)
(* worker thread is not stopped by cancelling the task that awaits it.     *)

BeginShutdown ==
  /\ lifespan = "serving"
  /\ lifespan' = "closing"
  /\ UNCHANGED <<lock, open, attached, appHandle, dataVars, threadVars,
                 historyVars>>

(* CollectionHandle.close, which takes the lock. *)
CloseHandle ==
  /\ lifespan = "closing"
  /\ LockFree
  /\ open' = FALSE
  /\ attached' = FALSE
  /\ lifespan' = "closed"
  /\ UNCHANGED <<lock, appHandle, dataVars, threadVars, historyVars>>

(* app.state.handle = None *)
DropHandle ==
  /\ lifespan = "closed"
  /\ appHandle' = FALSE
  /\ lifespan' = "stopped"
  /\ UNCHANGED <<lock, open, attached, dataVars, threadVars, historyVars>>

(* The process has nothing left to do. *)
Stopped ==
  /\ lifespan = "stopped"
  /\ \A t \in Threads : pc[t] = "idle"
  /\ UNCHANGED vars

-----------------------------------------------------------------------------
Serve(t) ==
  \/ Enter(t)
  \/ Refuse(t)
  \/ Read(t)
  \/ Write(t)
  \/ Reject(t)
  \/ Query(t)
  \/ Detach(t)
  \/ Upload(t)
  \/ Download(t)
  \/ TransferFails(t)
  \/ UploadUnconfirmed(t)
  \/ Reopen(t)

Next ==
  \/ \E t \in Threads :
       \/ \E o \in Op : Arrive(t, o) \/ ArriveLate(t, o)
       \/ Serve(t)
  \/ BeginShutdown
  \/ CloseHandle
  \/ DropHandle
  \/ Stopped

(* A body runs to its end (backend calls return or raise, the network ones *)
(* by their timeouts), a thread that finds the lock free and nobody else   *)
(* wanting it gets it, and the event loop runs the lifespan.  The lock is  *)
(* not fair: no strong fairness is assumed, and what terminates the wait   *)
(* is that only finitely many requests arrive.  Nothing makes a request    *)
(* arrive or a shutdown begin.                                             *)
Fairness ==
  /\ \A t \in Threads : WF_vars(Serve(t))
  /\ WF_vars(CloseHandle)
  /\ WF_vars(DropHandle)

Spec == Init /\ [][Next]_vars

FairSpec == Spec /\ Fairness

-----------------------------------------------------------------------------
(* Properties *)

TypeOK ==
  /\ lock \in Threads \union {Nobody}
  /\ open \in BOOLEAN
  /\ attached \in BOOLEAN
  /\ appHandle \in BOOLEAN
  /\ content \in SUBSET Ticket
  /\ remote \in SUBSET Ticket
  /\ pc \in [Threads -> {"idle", "waiting"} \union Inside]
  /\ op \in [Threads -> Op]
  /\ ticket \in [Threads -> Ticket]
  /\ seen \in [Threads -> SUBSET Ticket]
  /\ reply \in [Threads -> {"none", "ok", "error", "unavailable"}]
  /\ arrived \in Ticket
  /\ lifespan \in {"serving", "closing", "closed", "stopped"}
  /\ acked \in SUBSET Ticket
  /\ torn \in BOOLEAN

(* Of all the threads only the one that holds the lock is in the body of a *)
(* `with handle.locked()` (collection_handle.py: _lock serializes access). *)
HolderOnlyInside ==
  \A t \in Threads : pc[t] \in Inside => lock = t

(* Nobody is inside the collection when it has been closed: close() waits  *)
(* for the body that is running and turns away the ones that come after,   *)
(* the autosync worker that outlives its cancelled task included.          *)
NoUseAfterClose ==
  \A t \in Threads : pc[t] \in Inside => open

(* The window of a full sync is seen by nobody else: a body that is not    *)
(* itself swapping finds the collection detached only if an earlier full   *)
(* sync failed half-way.                                                   *)
SwapIsInvisible ==
  \A t \in Threads :
    pc[t] \in Inside \ Swapping => attached \/ torn

(* An update that was answered 200 is in the collection until a full       *)
(* download replaces the collection                                        *)
(* (test_collection_handle.py: "no loss, no corruption").                  *)
NoLostUpdate == acked \subseteq content

(* Why the above hold, step after step: what an update has read is still   *)
(* what is there when it writes, and a collection that is open but detached*)
(* is in somebody's full sync or was left so by one.                       *)
SeenIsCurrent ==
  \A t \in Threads : pc[t] = "computed" => seen[t] = content

DetachedBySwap == open /\ ~attached => torn \/ SwapUnderWay

IInv ==
  /\ TypeOK
  /\ HolderOnlyInside
  /\ NoUseAfterClose
  /\ SeenIsCurrent
  /\ DetachedBySwap
  /\ NoLostUpdate

(* Every step is a step of the abstract collection, or changes none of it. *)
Abstract == INSTANCE SerialCollection WITH Update <- Ticket
RefinesSerialCollection == Abstract!Spec

(* Every request that waits for the lock is answered. *)
EveryRequestAnswered ==
  \A t \in Threads : (pc[t] # "idle") ~> (pc[t] = "idle")

(* A shutdown that has begun ends, with the collection closed, whatever    *)
(* the worker threads are doing when it begins.                            *)
ShutdownCompletes == (lifespan = "closing") ~> (lifespan = "stopped" /\ ~open)

(* collection_handle.py:60, "yield the open collection": a body finds the  *)
(* collection open unless it is the one that detached it.  The code leaves *)
(* it detached when a full sync raises.                                    *)
YieldsOpenCollection ==
  \A t \in Threads : pc[t] \in Inside \ Swapping => attached

=============================================================================
