-------------------------- MODULE AutosyncProofs --------------------------
(***************************************************************************)
(* Proofs about Autosync, for any notes and schema changes, with or without*)
(* credentials, and any number of failures.                                *)
(***************************************************************************)
EXTENDS Autosync, TLAPS

(* What a sync reports is one of the five answers of _REQUIRED.            *)
LEMMA SyncRequiredType == SyncRequired \in Required
<1> USE DEF SyncRequired, Required, FullRequired
<1>1. CASE InSync
  BY <1>1
<1>2. CASE SameSchema /\ ~InSync
  BY <1>2
<1>3. CASE ~SameSchema
  <2>1. ~InSync
    BY <1>3 DEF InSync
  <2>2. QED
    BY <1>3, <2>1
<1>4. QED
  BY <1>1, <1>2, <1>3

(* The helpers of the actions keep the types of what they change.          *)
LEMMA ExchangeType ==
  ASSUME TypeOK, Exchange
  PROVE  /\ notes' \in SUBSET Note /\ rNotes' \in SUBSET Note
         /\ UNCHANGED <<schema, pending, everSynced, rSchema>>
BY DEF TypeOK, Exchange, localVars, remoteVars

LEMMA MishapType ==
  ASSUME TypeOK, Mishap
  PROVE  mishaps' \in 0 .. MaxMishaps /\ UNCHANGED <<made, tears, policy>>
BY BoundsAssumption DEF BoundsAssumption, TypeOK, Mishap

LEMMA TearType ==
  ASSUME TypeOK, Tear
  PROVE  tears' \in 0 .. MaxTears /\ UNCHANGED <<made, mishaps, policy>>
BY BoundsAssumption DEF BoundsAssumption, TypeOK, Tear

(* Type correctness.                                                       *)
LEMMA InitTypeOK == Init => TypeOK
<1> SUFFICES ASSUME Init
             PROVE  TypeOK
  OBVIOUS
<1>1. 0 \in 0 .. MaxMishaps /\ 0 \in 0 .. MaxTears
  BY BoundsAssumption DEF BoundsAssumption
<1>2. /\ notes \in SUBSET Note
      /\ rNotes \in SUBSET Note
      /\ schema \in SUBSET Schema
      /\ rSchema \in SUBSET Schema
      /\ made \in SUBSET (Note \union Schema)
  BY DEF Init, Note, Schema
<1>3. QED
  BY <1>1, <1>2 DEF Init, TypeOK, Required

LEMMA NextTypeOK == TypeOK /\ [Next]_vars => TypeOK'
<1> USE DEF TypeOK
<1> SUFFICES ASSUME TypeOK, [Next]_vars
             PROVE  TypeOK'
  OBVIOUS
<1>1. CASE TickStep
  <2>1. CASE Wake
    BY <2>1 DEF Wake, localVars, remoteVars, loopVars, backupVars, lateVars,
           worldVars
  <2>2. CASE WakeFails
    BY <2>2, MishapType DEF WakeFails, localVars, remoteVars, loopVars,
           backupVars, lateVars
  <2>3. CASE SyncSettles
    BY <2>3, SyncRequiredType, ExchangeType DEF SyncSettles, localVars,
           remoteVars, backupVars, lateVars, worldVars
  <2>4. CASE SyncNeedsFull
    BY <2>4, SyncRequiredType DEF SyncNeedsFull, localVars, remoteVars,
           backupVars, lateVars, worldVars
  <2>5. CASE SyncUnauthorized
    BY <2>5 DEF SyncUnauthorized, localVars, remoteVars, loopVars,
           backupVars, lateVars, worldVars
  <2>6. CASE SyncFails
    BY <2>6, MishapType DEF SyncFails, localVars, remoteVars, loopVars,
           backupVars, lateVars
  <2>7. CASE CheckRaises
    BY <2>7 DEF CheckRaises, localVars, remoteVars, loopVars, backupVars,
           lateVars, worldVars
  <2>8. CASE DecideDownload
    BY <2>8 DEF DecideDownload, localVars, remoteVars, backupVars, worldVars
  <2>9. CASE DecideBlocked
    BY <2>9 DEF DecideBlocked, IsTransition, localVars, remoteVars,
           backupVars, lateVars, worldVars
  <2>10. CASE BackUp
    BY <2>10 DEF BackUp, localVars, remoteVars, loopVars, worldVars
  <2>11. CASE BackUpFails
    BY <2>11, MishapType DEF BackUpFails, localVars, remoteVars, loopVars
  <2>12. CASE AutoDownload
    BY <2>12 DEF AutoDownload, AdoptServer, remoteVars, loopVars, backupVars,
           lateVars, worldVars
  <2>13. CASE AutoDownloadFails
    BY <2>13, TearType DEF AutoDownloadFails, localVars, remoteVars,
           loopVars, backupVars, lateVars
  <2>14. CASE PostSync
    BY <2>14, SyncRequiredType, ExchangeType DEF PostSync, localVars,
           remoteVars, backupVars, lateVars, worldVars
  <2>15. CASE PostSyncFails
    <3>1. mishaps' \in 0 .. MaxMishaps /\ UNCHANGED <<made, tears, policy>>
      BY <2>15, MishapType DEF PostSyncFails, worldVars
    <3>2. QED
      BY <2>15, <3>1 DEF PostSyncFails, localVars, remoteVars, backupVars,
             lateVars, Required
  <2>16. QED
    BY <1>1, <2>1, <2>2, <2>3, <2>4, <2>5, <2>6, <2>7, <2>8, <2>9, <2>10, <2>11, <2>12, <2>13, <2>14, <2>15 DEF
           TickStep
<1>2. CASE UserStep
  <2>1. ASSUME NEW n \in LocalNotes, AddNote(n)
        PROVE  TypeOK'
    BY <2>1 DEF AddNote, Makes, remoteVars, loopVars, backupVars, Note,
           Schema
  <2>2. ASSUME NEW s \in LocalSchemas, ChangeSchema(s)
        PROVE  TypeOK'
    BY <2>2 DEF ChangeSchema, Makes, remoteVars, loopVars, backupVars, Note,
           Schema
  <2>3. CASE Login
    BY <2>3 DEF Login, localVars, remoteVars, loopVars, backupVars, lateVars,
           worldVars
  <2>4. CASE Logout
    BY <2>4, MishapType DEF Logout, localVars, remoteVars, loopVars,
           backupVars, lateVars
  <2>5. CASE UserSync
    BY <2>5, ExchangeType DEF UserSync, localVars, remoteVars, loopVars,
           backupVars, lateVars, worldVars
  <2>6. CASE UserFullUpload
    BY <2>6 DEF UserFullUpload, OverwriteServer, loopVars, backupVars,
           lateVars, worldVars
  <2>7. CASE UserFullDownload
    BY <2>7 DEF UserFullDownload, AdoptServer, remoteVars, loopVars,
           backupVars, lateVars, worldVars
  <2>8. CASE UserFullSyncFails
    BY <2>8, TearType DEF UserFullSyncFails, localVars, remoteVars, loopVars,
           backupVars, lateVars
  <2>9. QED
    BY <1>2, <2>1, <2>2, <2>3, <2>4, <2>5, <2>6, <2>7, <2>8 DEF UserStep
<1>3. CASE RemoteStep
  <2>1. ASSUME NEW n \in RemoteNotes, RemoteAddNote(n)
        PROVE  TypeOK'
    BY <2>1 DEF RemoteAddNote, Makes, localVars, loopVars, backupVars,
           lateVars, Note, Schema
  <2>2. ASSUME NEW s \in RemoteSchemas, RemoteChangeSchema(s)
        PROVE  TypeOK'
    BY <2>2 DEF RemoteChangeSchema, Makes, localVars, loopVars, backupVars,
           lateVars, Note, Schema
  <2>3. QED
    BY <1>3, <2>1, <2>2 DEF RemoteStep
<1>4. CASE UNCHANGED vars
  BY <1>4 DEF vars, localVars, remoteVars, loopVars, backupVars, lateVars,
         worldVars
<1>5. QED
  BY <1>1, <1>2, <1>3, <1>4 DEF Next

(* The variables hold values of their types: the requirement the loop      *)
(* remembers is always a name of the table _REQUIRED.                      *)
THEOREM TypeCorrect == Spec => []TypeOK
BY InitTypeOK, NextTypeOK, PTL DEF Spec

-----------------------------------------------------------------------------
(* The inductive invariant.                                                *)

LEMMA InitIInv == Init => IInv
BY InitTypeOK DEF Init, IInv, AlertsAtMostOnce

LEMMA NextIInv == IInv /\ [Next]_vars => IInv'
<1> SUFFICES ASSUME IInv, [Next]_vars, TypeOK'
             PROVE  IInv'
  BY NextTypeOK DEF IInv
<1> USE DEF IInv, TypeOK, AlertsAtMostOnce
<1>1. CASE TickStep
  <2>1. CASE Wake
    BY <2>1 DEF Wake, localVars, remoteVars, loopVars, backupVars, lateVars,
           worldVars
  <2>2. CASE WakeFails
    BY <2>2 DEF WakeFails, Mishap, localVars, remoteVars, loopVars,
           backupVars, lateVars
  <2>3. CASE SyncSettles
    BY <2>3 DEF SyncSettles, Exchange, localVars, remoteVars, backupVars,
           lateVars, worldVars
  <2>4. CASE SyncNeedsFull
    BY <2>4 DEF SyncNeedsFull, localVars, remoteVars, backupVars, lateVars,
           worldVars
  <2>5. CASE SyncUnauthorized
    BY <2>5 DEF SyncUnauthorized, localVars, remoteVars, loopVars,
           backupVars, lateVars, worldVars
  <2>6. CASE SyncFails
    BY <2>6 DEF SyncFails, Mishap, localVars, remoteVars, loopVars,
           backupVars, lateVars
  <2>7. CASE CheckRaises
    BY <2>7 DEF CheckRaises, localVars, remoteVars, loopVars, backupVars,
           lateVars, worldVars
  <2>8. CASE DecideDownload
    BY <2>8 DEF DecideDownload, localVars, remoteVars, backupVars, worldVars,
           MayDownload, SchemaChanged
  <2>9. CASE DecideBlocked
    (* Blocked on the same requirement as before: no transition, no alert.  *)
    <3>1. stuck = required => lastRequired = required
      BY <2>9 DEF Required, FullRequired
    <3>2. alerts' <= 1
      <4>1. CASE stuck = required
        BY <2>9, <3>1, <4>1 DEF DecideBlocked, IsTransition
      <4>2. CASE stuck # required
        BY <2>9, <4>2 DEF DecideBlocked, IsTransition
      <4>3. QED
        BY <4>1, <4>2
    <3>3. QED
      BY <2>9, <3>2 DEF DecideBlocked, localVars, remoteVars, backupVars,
             lateVars, worldVars
  <2>10. CASE BackUp
    BY <2>10 DEF BackUp, localVars, remoteVars, loopVars, worldVars
  <2>11. CASE BackUpFails
    BY <2>11 DEF BackUpFails, Mishap, localVars, remoteVars, loopVars
  <2>12. CASE AutoDownload
    BY <2>12 DEF AutoDownload, AdoptServer, remoteVars, loopVars, backupVars,
           lateVars, worldVars
  <2>13. CASE AutoDownloadFails
    BY <2>13 DEF AutoDownloadFails, Tear, localVars, remoteVars, loopVars,
           backupVars, lateVars
  <2>14. CASE PostSync
    BY <2>14 DEF PostSync, Exchange, localVars, remoteVars, backupVars,
           lateVars, worldVars
  <2>15. CASE PostSyncFails
    BY <2>15 DEF PostSyncFails, Mishap, localVars, remoteVars, backupVars,
           lateVars, worldVars
  <2>16. QED
    BY <1>1, <2>1, <2>2, <2>3, <2>4, <2>5, <2>6, <2>7, <2>8, <2>9, <2>10, <2>11, <2>12, <2>13, <2>14, <2>15 DEF
           TickStep
<1>2. CASE UserStep
  <2>1. ASSUME NEW n \in LocalNotes, AddNote(n)
        PROVE  IInv'
    BY <2>1 DEF AddNote, Makes, remoteVars, loopVars, backupVars
  <2>2. ASSUME NEW s \in LocalSchemas, ChangeSchema(s)
        PROVE  IInv'
    BY <2>2 DEF ChangeSchema, Makes, remoteVars, loopVars, backupVars
  <2>3. CASE Login
    BY <2>3 DEF Login, localVars, remoteVars, loopVars, backupVars, lateVars,
           worldVars
  <2>4. CASE Logout
    BY <2>4 DEF Logout, Mishap, localVars, remoteVars, loopVars, backupVars,
           lateVars
  <2>5. CASE UserSync
    BY <2>5 DEF UserSync, Exchange, localVars, remoteVars, loopVars,
           backupVars, lateVars, worldVars
  <2>6. CASE UserFullUpload
    BY <2>6 DEF UserFullUpload, OverwriteServer, loopVars, backupVars,
           lateVars, worldVars
  <2>7. CASE UserFullDownload
    BY <2>7 DEF UserFullDownload, AdoptServer, remoteVars, loopVars,
           backupVars, lateVars, worldVars
  <2>8. CASE UserFullSyncFails
    BY <2>8 DEF UserFullSyncFails, Tear, localVars, remoteVars, loopVars,
           backupVars, lateVars
  <2>9. QED
    BY <1>2, <2>1, <2>2, <2>3, <2>4, <2>5, <2>6, <2>7, <2>8 DEF UserStep
<1>3. CASE RemoteStep
  <2>1. ASSUME NEW n \in RemoteNotes, RemoteAddNote(n)
        PROVE  IInv'
    BY <2>1 DEF RemoteAddNote, Makes, localVars, loopVars, backupVars,
           lateVars
  <2>2. ASSUME NEW s \in RemoteSchemas, RemoteChangeSchema(s)
        PROVE  IInv'
    BY <2>2 DEF RemoteChangeSchema, Makes, localVars, loopVars, backupVars,
           lateVars
  <2>3. QED
    BY <1>3, <2>1, <2>2 DEF RemoteStep
<1>4. CASE UNCHANGED vars
  BY <1>4 DEF vars, localVars, remoteVars, loopVars, backupVars, lateVars,
         worldVars
<1>5. QED
  BY <1>1, <1>2, <1>3, <1>4 DEF Next

(* The inductive invariant holds in every state.                           *)
THEOREM Invariance == Spec => []IInv
BY InitIInv, NextIInv, PTL DEF Spec

(* While the loop stays blocked on one requirement it alerts at most once. *)
THEOREM AlertsAtMostOnceHolds == Spec => []AlertsAtMostOnce
BY Invariance, PTL DEF IInv

-----------------------------------------------------------------------------
(* What a tick may do to the two collections.                              *)

(* A schema change that an automatic download discards was made after the  *)
(* tick had looked, and a collection that has never synced is not          *)
(* overwritten.                                                            *)
THEOREM DiscardsOnlyLateSchemasHolds == Spec => DiscardsOnlyLateSchemas
<1>1. IInv /\ [Next]_vars
        => [AutoDownload => everSynced /\ pending \subseteq lateSchemas]_vars
  BY DEF IInv, AutoDownload
<1>2. QED
  BY <1>1, Invariance, PTL DEF Spec, DiscardsOnlyLateSchemas

(* What an automatic download takes away is in the backup of that tick, if *)
(* it has one, or was made after it.                                       *)
THEOREM BackupCoversDownloadHolds == Spec => BackupCoversDownload
<1>1. IInv /\ [Next]_vars
        => [AutoDownload /\ backedUp =>
              notes \ rNotes \subseteq backup \union lateNotes]_vars
  BY DEF IInv, AutoDownload
<1>2. QED
  BY <1>1, Invariance, PTL DEF Spec, BackupCoversDownload

(* No step of a tick takes a note from the server or changes its schema.   *)
THEOREM NeverAutoUploadsHolds == Spec => NeverAutoUploads
<1>1. TickStep => rNotes \subseteq rNotes' /\ rSchema' = rSchema
  <2> SUFFICES ASSUME TickStep
               PROVE  rNotes \subseteq rNotes' /\ rSchema' = rSchema
    OBVIOUS
  <2>1. CASE SyncSettles \/ PostSync
    BY <2>1 DEF SyncSettles, PostSync, Exchange, localVars, remoteVars
  <2>2. CASE AutoDownload
    BY <2>2 DEF AutoDownload, AdoptServer, remoteVars
  <2>3. CASE ~(SyncSettles \/ PostSync \/ AutoDownload)
    BY <2>3 DEF TickStep, Wake, WakeFails, SyncNeedsFull, SyncUnauthorized,
                SyncFails, CheckRaises, DecideDownload, DecideBlocked, BackUp,
                BackUpFails, AutoDownloadFails, PostSyncFails, remoteVars
  <2>4. QED
    BY <2>1, <2>2, <2>3
<1>2. QED
  BY <1>1, PTL DEF Spec, NeverAutoUploads

(* With the policy "off" no step of a tick takes anything from this        *)
(* collection.                                                             *)
THEOREM OffDiscardsNothingHolds == Spec => OffDiscardsNothing
<1>1. IInv /\ TickStep /\ policy = "off" =>
        notes \subseteq notes' /\ schema' = schema /\ pending' = pending
  <2> SUFFICES ASSUME IInv, TickStep, policy = "off"
               PROVE  /\ notes \subseteq notes'
                      /\ schema' = schema
                      /\ pending' = pending
    OBVIOUS
  <2>1. CASE SyncSettles \/ PostSync
    BY <2>1 DEF SyncSettles, PostSync, Exchange, localVars, remoteVars
  <2>2. ~AutoDownload
    BY DEF IInv, AutoDownload
  <2>3. CASE ~(SyncSettles \/ PostSync \/ AutoDownload)
    BY <2>3 DEF TickStep, Wake, WakeFails, SyncNeedsFull, SyncUnauthorized,
                SyncFails, CheckRaises, DecideDownload, DecideBlocked, BackUp,
                BackUpFails, AutoDownloadFails, PostSyncFails, localVars
  <2>4. QED
    BY <2>1, <2>2, <2>3
<1>2. QED
  BY <1>1, Invariance, PTL DEF Spec, OffDiscardsNothing

=============================================================================
