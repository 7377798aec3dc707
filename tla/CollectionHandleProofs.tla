---------------------- MODULE CollectionHandleProofs ----------------------
(***************************************************************************)
(* Proofs about CollectionHandle, for any set of threads and any number of *)
(* requests.                                                               *)
(***************************************************************************)
EXTENDS CollectionHandle, TLAPS

(* What Next can do, as a list of actions, for the case splits below. *)
Step ==
  \/ \E t \in Threads, o \in Op : Arrive(t, o) \/ ArriveLate(t, o)
  \/ \E t \in Threads : Serve(t)
  \/ BeginShutdown
  \/ CloseHandle
  \/ DropHandle
  \/ Stopped

LEMMA NextIsStep == Next => Step
BY DEF Next, Step

-----------------------------------------------------------------------------
(* Type correctness, in two lemmas: what the proofs below cite.            *)
LEMMA InitTypeOK == Init => TypeOK
<1> USE MaxRequestsAssumption DEF MaxRequestsAssumption
<1>1. 0 \in Ticket
  BY DEF Ticket
<1>2. SUBSET {0} \subseteq SUBSET Ticket
  BY <1>1
<1>3. QED
  BY <1>1, <1>2 DEF Init, TypeOK, Op, Inside

LEMMA NextTypeOK == TypeOK /\ [Next]_vars => TypeOK'
<1> USE MaxRequestsAssumption DEF MaxRequestsAssumption
<1> SUFFICES ASSUME TypeOK, [Next]_vars
             PROVE  TypeOK'
  OBVIOUS
<1>1. ASSUME NEW t \in Threads, NEW o \in Op, Arrive(t, o)
      PROVE  TypeOK'
  BY <1>1 DEF Arrive, TypeOK, Ticket, Inside, SwapUnderWay, handleVars,
              dataVars
<1>2. ASSUME NEW t \in Threads, NEW o \in Op, ArriveLate(t, o)
      PROVE  TypeOK'
  BY <1>2 DEF ArriveLate, TypeOK, Ticket, handleVars, dataVars
<1>3. ASSUME NEW t \in Threads, Serve(t)
      PROVE  TypeOK'
  <2>1. CASE Enter(t)
    BY <2>1 DEF Enter, TypeOK, Inside, dataVars, historyVars
  <2>2. CASE Refuse(t)
    BY <2>2 DEF Refuse, TypeOK, handleVars, dataVars, historyVars
  <2>3. CASE Read(t)
    BY <2>3 DEF Read, TypeOK, Inside, handleVars, historyVars
  <2>4. CASE Write(t)
    BY <2>4 DEF Write, Leave, TypeOK
  <2>5. CASE Reject(t)
    BY <2>5 DEF Reject, Leave, TypeOK, dataVars
  <2>6. CASE Query(t)
    BY <2>6 DEF Query, Leave, TypeOK, dataVars
  <2>7. CASE Detach(t)
    BY <2>7 DEF Detach, TypeOK, Inside, dataVars, historyVars
  <2>8. CASE Upload(t)
    BY <2>8 DEF Upload, TypeOK, Inside, handleVars, historyVars
  <2>9. CASE Download(t)
    BY <2>9 DEF Download, TypeOK, Inside, handleVars
  <2>10. CASE TransferFails(t)
    BY <2>10 DEF TransferFails, Leave, TypeOK, dataVars
  <2>11. CASE UploadUnconfirmed(t)
    BY <2>11 DEF UploadUnconfirmed, Leave, TypeOK
  <2>12. CASE Reopen(t)
    BY <2>12 DEF Reopen, Leave, TypeOK, dataVars
  <2>13. QED
    BY <1>3, <2>1, <2>2, <2>3, <2>4, <2>5, <2>6, <2>7, <2>8, <2>9, <2>10,
       <2>11, <2>12 DEF Serve
<1>4. CASE BeginShutdown
  BY <1>4 DEF BeginShutdown, TypeOK, dataVars, threadVars, historyVars
<1>5. CASE CloseHandle
  BY <1>5 DEF CloseHandle, TypeOK, dataVars, threadVars, historyVars
<1>6. CASE DropHandle
  BY <1>6 DEF DropHandle, TypeOK, dataVars, threadVars, historyVars
<1>7. CASE UNCHANGED vars
  BY <1>7 DEF TypeOK, vars, handleVars, dataVars, threadVars, historyVars
<1>8. QED
  BY <1>1, <1>2, <1>3, <1>4, <1>5, <1>6, <1>7, NextIsStep DEF Step, Stopped

(* The variables hold values of their types: the bodies only ever write    *)
(* updates that a request brought, and answers that the code gives.        *)
THEOREM TypeCorrect == Spec => []TypeOK
BY InitTypeOK, NextTypeOK, PTL DEF Spec

-----------------------------------------------------------------------------
(* The inductive invariant.  Everything rests on the first two parts: the  *)
(* thread inside holds the lock, so a step of another thread changes       *)
(* neither what it has read nor whether the collection is open.            *)

LEMMA InitIInv == Init => IInv
<1> SUFFICES ASSUME Init, TypeOK
             PROVE  IInv
  BY InitTypeOK
<1> QED
  BY DEF Init, IInv, HolderOnlyInside, NoUseAfterClose, SeenIsCurrent,
         DetachedBySwap, NoLostUpdate, Inside

LEMMA NextIInv == IInv /\ [Next]_vars => IInv'
<1> SUFFICES ASSUME IInv, [Next]_vars, TypeOK'
             PROVE  IInv'
  BY NextTypeOK DEF IInv
<1> USE NobodyAssumption DEF NobodyAssumption, IInv, TypeOK, Inside,
        HolderOnlyInside, NoUseAfterClose, SeenIsCurrent, DetachedBySwap,
        NoLostUpdate, SwapUnderWay, Swapping, LockFree
<1>1. ASSUME NEW t \in Threads, NEW o \in Op, Arrive(t, o)
      PROVE  IInv'
  BY <1>1 DEF Arrive, handleVars, dataVars
<1>2. ASSUME NEW t \in Threads, NEW o \in Op, ArriveLate(t, o)
      PROVE  IInv'
  BY <1>2 DEF ArriveLate, handleVars, dataVars
<1>3. ASSUME NEW t \in Threads, Serve(t)
      PROVE  IInv'
  <2>1. CASE Enter(t)
    BY <2>1 DEF Enter, dataVars, historyVars
  <2>2. CASE Refuse(t)
    BY <2>2 DEF Refuse, handleVars, dataVars, historyVars
  <2>3. CASE Read(t)
    BY <2>3 DEF Read, handleVars, historyVars
  <2>4. CASE Write(t)
    BY <2>4 DEF Write, Leave
  <2>5. CASE Reject(t)
    BY <2>5 DEF Reject, Leave, dataVars
  <2>6. CASE Query(t)
    BY <2>6 DEF Query, Leave, dataVars
  <2>7. CASE Detach(t)
    BY <2>7 DEF Detach, dataVars, historyVars
  <2>8. CASE Upload(t)
    BY <2>8 DEF Upload, handleVars, historyVars
  <2>9. CASE Download(t)
    BY <2>9 DEF Download, handleVars
  <2>10. CASE TransferFails(t)
    BY <2>10 DEF TransferFails, Leave, dataVars
  <2>11. CASE UploadUnconfirmed(t)
    BY <2>11 DEF UploadUnconfirmed, Leave
  <2>12. CASE Reopen(t)
    BY <2>12 DEF Reopen, Leave, dataVars
  <2>13. QED
    BY <1>3, <2>1, <2>2, <2>3, <2>4, <2>5, <2>6, <2>7, <2>8, <2>9, <2>10,
       <2>11, <2>12 DEF Serve
<1>4. CASE BeginShutdown
  BY <1>4 DEF BeginShutdown, dataVars, threadVars, historyVars
<1>5. CASE CloseHandle
  BY <1>5 DEF CloseHandle, dataVars, threadVars, historyVars
<1>6. CASE DropHandle
  BY <1>6 DEF DropHandle, dataVars, threadVars, historyVars
<1>7. CASE UNCHANGED vars
  BY <1>7 DEF vars, handleVars, dataVars, threadVars, historyVars
<1>8. QED
  BY <1>1, <1>2, <1>3, <1>4, <1>5, <1>6, <1>7, NextIsStep DEF Step, Stopped

(* The inductive invariant holds in every state.                           *)
THEOREM Invariance == Spec => []IInv
BY InitIInv, NextIInv, PTL DEF Spec

(* The single-writer guarantee (collection_handle.py, locked): the bodies  *)
(* of two threads never overlap.                                           *)
THEOREM MutualExclusion ==
  Spec => [](\A t, u \in Threads :
               pc[t] \in Inside /\ pc[u] \in Inside => t = u)
<1>1. IInv => \A t, u \in Threads : pc[t] \in Inside /\ pc[u] \in Inside => t = u
  BY DEF IInv, HolderOnlyInside
<1>2. QED
  BY <1>1, Invariance, PTL

(* The lock's holder alone is inside a body.                               *)
THEOREM HolderOnlyInsideHolds == Spec => []HolderOnlyInside
BY Invariance, PTL DEF IInv

(* Nobody is inside the collection when close() has closed it.             *)
THEOREM NoUseAfterCloseHolds == Spec => []NoUseAfterClose
BY Invariance, PTL DEF IInv

(* An update that was answered 200 is in the collection until a full       *)
(* download replaces it.                                                   *)
THEOREM NoLostUpdateHolds == Spec => []NoLostUpdate
BY Invariance, PTL DEF IInv

(* A body that finds the collection detached is the one that detached it,  *)
(* or an earlier full sync failed half-way.                                *)
THEOREM SwapIsInvisibleHolds == Spec => []SwapIsInvisible
<1>1. IInv => SwapIsInvisible
  BY DEF IInv, TypeOK, HolderOnlyInside, NoUseAfterClose, DetachedBySwap,
         SwapIsInvisible, SwapUnderWay, Inside, Swapping
<1>2. QED
  BY <1>1, Invariance, PTL

-----------------------------------------------------------------------------
(* The handle implements the serial collection.                            *)

LEMMA InitRefines == Init => Abstract!Init
BY InitTypeOK DEF Init, Abstract!Init, TypeOK

LEMMA StepRefines == IInv /\ [Next]_vars => [Abstract!Next]_Abstract!vars
<1> SUFFICES ASSUME IInv, [Next]_vars
             PROVE  [Abstract!Next]_Abstract!vars
  OBVIOUS
<1> USE DEF Abstract!vars
<1>1. ASSUME NEW t \in Threads, NEW o \in Op, Arrive(t, o) \/ ArriveLate(t, o)
      PROVE  UNCHANGED Abstract!vars
  BY <1>1 DEF Arrive, ArriveLate, handleVars, dataVars
<1>2. ASSUME NEW t \in Threads, Serve(t)
      PROVE  [Abstract!Next]_Abstract!vars
  <2>1. CASE \/ Enter(t)
             \/ Refuse(t)
             \/ Read(t)
             \/ Reject(t)
             \/ Query(t)
             \/ Detach(t)
             \/ TransferFails(t)
             \/ Reopen(t)
    BY <2>1 DEF Enter, Refuse, Read, Reject, Query, Detach, TransferFails,
                Reopen, Leave, handleVars, dataVars
  <2>2. CASE Write(t)
    (* What it has read is what is there: it adds its own update, no more. *)
    <3>1. /\ ticket[t] \in Ticket
          /\ seen[t] = content
          /\ open
      BY <2>2 DEF Write, IInv, TypeOK, SeenIsCurrent, NoUseAfterClose, Inside
    <3>2. Abstract!Apply(ticket[t])
      BY <2>2, <3>1 DEF Write, Leave, Abstract!Apply
    <3>3. QED
      BY <3>1, <3>2 DEF Abstract!Next
  <2>3. CASE Upload(t) \/ UploadUnconfirmed(t)
    <3>1. open
      BY <2>3 DEF Upload, UploadUnconfirmed, IInv, NoUseAfterClose, Inside
    <3>2. Abstract!Publish
      BY <2>3, <3>1 DEF Upload, UploadUnconfirmed, Leave, Abstract!Publish,
                        handleVars
    <3>3. QED
      BY <3>2 DEF Abstract!Next
  <2>4. CASE Download(t)
    <3>1. open
      BY <2>4 DEF Download, IInv, NoUseAfterClose, Inside
    <3>2. Abstract!Adopt
      BY <2>4, <3>1 DEF Download, Abstract!Adopt, handleVars
    <3>3. QED
      BY <3>2 DEF Abstract!Next
  <2>5. QED
    BY <1>2, <2>1, <2>2, <2>3, <2>4 DEF Serve
<1>3. CASE CloseHandle
  <2>1. open \in BOOLEAN
    BY DEF IInv, TypeOK
  <2>2. CASE open
    BY <1>3, <2>2 DEF CloseHandle, dataVars, Abstract!Next, Abstract!Close
  <2>3. CASE ~open
    BY <1>3, <2>1, <2>3 DEF CloseHandle, dataVars
  <2>4. QED
    BY <2>2, <2>3
<1>4. CASE BeginShutdown \/ DropHandle \/ UNCHANGED vars
  BY <1>4 DEF BeginShutdown, DropHandle, vars, handleVars, dataVars
<1>5. QED
  BY <1>1, <1>2, <1>3, <1>4, NextIsStep DEF Step, Stopped

(* Every behaviour of the handle is one of the serial collection: an update*)
(* happens at its write, a full sync at its transfer, and nothing happens  *)
(* after the close.                                                        *)
THEOREM Refinement == Spec => RefinesSerialCollection
<1>1. Spec => Abstract!Init /\ [][Abstract!Next]_Abstract!vars
  BY InitRefines, StepRefines, Invariance, PTL DEF Spec
<1>2. QED
  BY <1>1 DEF RefinesSerialCollection, Abstract!Spec

=============================================================================
