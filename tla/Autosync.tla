----------------------------- MODULE Autosync -----------------------------
(***************************************************************************)
(* One autosync tick (routers/sync.py, run_autosync) among the requests    *)
(* that edit the collection, the sync endpoints, and the other clients of  *)
(* the sync server.                                                        *)
(*                                                                         *)
(* Every body of `with handle.locked()` is one step here, which            *)
(* CollectionHandle.tla justifies (bodies exclude each other).  The tick   *)
(* is several bodies: between any two of them the lock is free, and        *)
(* whatever else the server does may happen.                               *)
(*                                                                         *)
(* A collection is the set of its notes and the set of schema changes it   *)
(* has been through.  What a sync compares and merges is the Anki library's*)
(* doing, modelled from what sync.py relies on.                            *)
(***************************************************************************)
EXTENDS Naturals

CONSTANTS
  LocalNotes, RemoteNotes,     \* notes made here, and by other clients
  LocalSchemas, RemoteSchemas, \* schema changes made here, and by others
  HasCredentials,              \* Settings.sync_username and sync_password
  MaxMishaps,  \* bound: failed calls that leave no trace, and logouts
  MaxTears     \* bound: full syncs that raise half-way

Note == LocalNotes \union RemoteNotes
Schema == LocalSchemas \union RemoteSchemas

ASSUME CredentialsAssumption == HasCredentials \in BOOLEAN
ASSUME BoundsAssumption == MaxMishaps \in Nat /\ MaxTears \in Nat

VARIABLES
  notes,        \* this collection: its notes,
  schema,       \*   its schema changes,
  pending,      \*   those of them made since the last full sync (scm > ls),
  everSynced,   \*   whether it has ever synced (ls # 0),
  attached,     \*   whether col.db is there
  rNotes,       \* the server's collection
  rSchema,
  auth,         \* handle.sync_auth is not None
  tick,         \* where run_autosync is
  required,     \* run_autosync's `required`
  lastRequired, \* handle.autosync_last_required
  backup,       \* notes in the backup this tick has taken
  backedUp,     \* whether it has one
  made,         \* all the notes and schema changes made so far, each once
  mishaps, tears,
  policy,       \* Settings.autosync_full, read once
  lateSchemas,  \* history: schema changes made since the tick's decision
  lateNotes,    \* history: notes made since the tick's backup
  stuck,        \* history: the requirement the last decision left blocked
  alerts        \* history: alerts raised since it became blocked on that one

localVars == <<notes, schema, pending, everSynced>>
remoteVars == <<rNotes, rSchema>>
loopVars == <<required, lastRequired, stuck, alerts>>
backupVars == <<backup, backedUp>>
lateVars == <<lateSchemas, lateNotes>>
worldVars == <<made, mishaps, tears, policy>>
vars == <<localVars, attached, remoteVars, auth, tick, loopVars, backupVars,
          lateVars, worldVars>>

FullRequired == {"full_sync", "full_download", "full_upload"}
Required == {"no_changes", "normal_sync"} \union FullRequired

Init ==
  /\ rNotes \in SUBSET RemoteNotes
  /\ rSchema \in SUBSET RemoteSchemas
  /\ everSynced \in BOOLEAN
  /\ notes = IF everSynced THEN rNotes ELSE {}
  /\ schema = IF everSynced THEN rSchema ELSE {}
  /\ pending = {}
  /\ attached = TRUE
  /\ auth \in BOOLEAN
  /\ tick = "asleep"
  /\ required = "no_changes"
  /\ lastRequired = "none"
  /\ backup = {}
  /\ backedUp = FALSE
  /\ made = rNotes \union rSchema
  /\ mishaps = 0
  /\ tears = 0
  /\ policy \in {"off", "download"}
  /\ lateSchemas = {}
  /\ lateNotes = {}
  /\ stuck = "none"
  /\ alerts = 0

-----------------------------------------------------------------------------
(* The sync protocol of the library and the server *)

SameSchema == everSynced /\ schema = rSchema
InSync == SameSchema /\ notes = rNotes

(* Mutant of SyncRequired: the table _REQUIRED misses FULL_UPLOAD. *)
SyncRequiredRaw ==
  IF SameSchema THEN "no_changes"
  ELSE IF rNotes = {} THEN "4" ELSE "full_sync"

(* What sync_collection reports.  An empty side is never offered as the    *)
(* one to overwrite the other with.                                        *)
SyncRequired ==
  LET uploadOk == notes # {} \/ rNotes = {}
      downloadOk == rNotes # {} \/ notes = {}
  IN  CASE InSync -> "no_changes"
        [] SameSchema /\ ~InSync -> "normal_sync"
        [] ~SameSchema /\ uploadOk /\ downloadOk -> "full_sync"
        [] ~SameSchema /\ ~downloadOk -> "full_upload"
        [] ~SameSchema /\ ~uploadOk -> "full_download"

(* sync_collection: merge what can be merged, or change nothing. *)
Exchange ==
  IF SameSchema
    THEN /\ notes' = notes \union rNotes
         /\ rNotes' = notes \union rNotes
         /\ UNCHANGED <<schema, pending, everSynced, rSchema>>
    ELSE UNCHANGED <<localVars, remoteVars>>

AdoptServer ==
  /\ notes' = rNotes
  /\ schema' = rSchema
  /\ pending' = {}
  /\ everSynced' = TRUE
  /\ UNCHANGED remoteVars

OverwriteServer ==
  /\ rNotes' = notes
  /\ rSchema' = schema
  /\ pending' = {}
  /\ everSynced' = TRUE
  /\ UNCHANGED <<notes, schema>>

Mishap ==
  /\ mishaps < MaxMishaps
  /\ mishaps' = mishaps + 1
  /\ UNCHANGED <<made, tears, policy>>

Tear ==
  /\ tears < MaxTears
  /\ tears' = tears + 1
  /\ UNCHANGED <<made, mishaps, policy>>

Makes(x) ==
  /\ x \notin made
  /\ made' = made \union {x}
  /\ UNCHANGED <<mishaps, tears, policy>>

-----------------------------------------------------------------------------
(* Other clients of the server *)

RemoteAddNote(n) ==
  /\ Makes(n)
  /\ rNotes' = rNotes \union {n}
  /\ UNCHANGED <<localVars, attached, rSchema, auth, tick, loopVars,
                 backupVars, lateVars>>

(* Another client changes the schema and full-uploads. *)
RemoteChangeSchema(s) ==
  /\ Makes(s)
  /\ rSchema' = rSchema \union {s}
  /\ UNCHANGED <<localVars, attached, rNotes, auth, tick, loopVars,
                 backupVars, lateVars>>

-----------------------------------------------------------------------------
(* Requests *)

AddNote(n) ==
  /\ Makes(n)
  /\ notes' = notes \union {n}
  /\ lateNotes' = IF tick = "download" THEN lateNotes \union {n} ELSE lateNotes
  /\ UNCHANGED <<schema, pending, everSynced, attached, remoteVars, auth,
                 tick, loopVars, backupVars, lateSchemas>>

ChangeSchema(s) ==
  /\ Makes(s)
  /\ schema' = schema \union {s}
  /\ pending' = pending \union {s}
  /\ lateSchemas' = IF tick \in {"backup", "download"}
                      THEN lateSchemas \union {s} ELSE lateSchemas
  /\ UNCHANGED <<notes, everSynced, attached, remoteVars, auth, tick,
                 loopVars, backupVars, lateNotes>>

Login ==
  /\ ~auth
  /\ auth' = TRUE
  /\ UNCHANGED <<localVars, attached, remoteVars, tick, loopVars, backupVars,
                 lateVars, worldVars>>

Logout ==
  /\ auth
  /\ Mishap
  /\ auth' = FALSE
  /\ UNCHANGED <<localVars, attached, remoteVars, tick, loopVars, backupVars,
                 lateVars>>

(* POST /sync: an incremental sync, which the loop's memory knows nothing of. *)
UserSync ==
  /\ auth
  /\ Exchange
  /\ UNCHANGED <<attached, auth, tick, loopVars, backupVars, lateVars,
                 worldVars>>

(* POST /sync/full-upload and /sync/full-download *)
UserFullUpload ==
  /\ auth
  /\ OverwriteServer
  /\ attached' = TRUE
  /\ UNCHANGED <<auth, tick, loopVars, backupVars, lateVars, worldVars>>

UserFullDownload ==
  /\ auth
  /\ AdoptServer
  /\ attached' = TRUE
  /\ UNCHANGED <<auth, tick, loopVars, backupVars, lateVars, worldVars>>

(* Either raises between close_for_full_sync and reopen. *)
UserFullSyncFails ==
  /\ auth
  /\ Tear
  /\ attached' = FALSE
  /\ UNCHANGED <<localVars, remoteVars, auth, tick, loopVars, backupVars,
                 lateVars>>

-----------------------------------------------------------------------------
(* run_autosync.  A tick without a token and without credentials is skipped*)
(* and changes nothing.                                                    *)

(* Mutant of Wake: without a token the tick is skipped, credentials or not. *)
WakeWithToken ==
  /\ tick = "asleep"
  /\ auth
  /\ tick' = "sync"
  /\ UNCHANGED <<localVars, attached, remoteVars, auth, loopVars, backupVars,
                 lateVars, worldVars>>

(* ensure_logged_in *)
Wake ==
  /\ tick = "asleep"
  /\ auth \/ HasCredentials
  /\ auth' = TRUE
  /\ tick' = "sync"
  /\ UNCHANGED <<localVars, attached, remoteVars, loopVars, backupVars,
                 lateVars, worldVars>>

(* The login fails: the next tick tries again. *)
WakeFails ==
  /\ tick = "asleep"
  /\ ~auth
  /\ HasCredentials
  /\ Mishap
  /\ UNCHANGED <<localVars, attached, remoteVars, auth, tick, loopVars,
                 backupVars, lateVars>>

(* _incremental_sync, when no full sync is required: the tick is done. *)
SyncSettles ==
  /\ tick = "sync"
  /\ auth
  /\ SyncRequired \notin FullRequired
  /\ Exchange
  /\ lastRequired' = SyncRequired
  /\ stuck' = "none"
  /\ alerts' = 0
  /\ tick' = "asleep"
  /\ UNCHANGED <<attached, auth, required, backupVars, lateVars, worldVars>>

(* _incremental_sync, when one is. *)
SyncNeedsFull ==
  /\ tick = "sync"
  /\ auth
  /\ SyncRequired \in FullRequired
  /\ required' = SyncRequired
  /\ tick' = "check"
  /\ UNCHANGED <<localVars, attached, remoteVars, auth, lastRequired, stuck,
                 alerts, backupVars, lateVars, worldVars>>

(* The tick raises and app._autosync_loop logs it: no token by now (401),  *)
SyncUnauthorized ==
  /\ tick \in {"sync", "download"}
  /\ ~auth
  /\ tick' = "asleep"
  /\ UNCHANGED <<localVars, attached, remoteVars, auth, loopVars, backupVars,
                 lateVars, worldVars>>

(* a sync that fails, *)
SyncFails ==
  /\ tick = "sync"
  /\ auth
  /\ Mishap
  /\ tick' = "asleep"
  /\ UNCHANGED <<localVars, attached, remoteVars, auth, loopVars, backupVars,
                 lateVars>>

(* or a collection whose col.db is None. *)
CheckRaises ==
  /\ tick = "check"
  /\ ~attached
  /\ tick' = "asleep"
  /\ UNCHANGED <<localVars, attached, remoteVars, auth, loopVars, backupVars,
                 lateVars, worldVars>>

(* scm > ls; a collection that has never synced has ls = 0. *)
SchemaChanged == pending # {} \/ ~everSynced

(* Mutants of MayDownload: one question less is asked. *)
MayDownloadAnySchema(r, changed) ==
  policy = "download" /\ r \in {"full_download", "full_sync"}

MayDownloadAnyPolicy(r, changed) ==
  ~changed /\ r \in {"full_download", "full_sync"}

(* _autosync_full_action(required, schema_changed, policy) = "download" *)
MayDownload(r, changed) ==
  /\ policy = "download"
  /\ ~changed
  /\ r \in {"full_download", "full_sync"}

(* Mutant of IsTransition: an alert per tick. *)
EveryTick == TRUE

IsTransition == lastRequired # required

(* The decision: adopt the server ... *)
DecideDownload ==
  /\ tick = "check"
  /\ attached
  /\ MayDownload(required, SchemaChanged)
  /\ lastRequired' = required
  /\ tick' = "backup"
  /\ lateSchemas' = {}
  /\ stuck' = "none"
  /\ alerts' = 0
  /\ UNCHANGED <<localVars, attached, remoteVars, auth, required, backupVars,
                 lateNotes, worldVars>>

(* ... or leave it for a manual call, with an alert on a transition. *)
DecideBlocked ==
  /\ tick = "check"
  /\ attached
  /\ ~MayDownload(required, SchemaChanged)
  /\ lastRequired' = required
  /\ stuck' = required
  /\ alerts' = (IF stuck = required THEN alerts ELSE 0)
               + (IF IsTransition THEN 1 ELSE 0)
  /\ tick' = "asleep"
  /\ UNCHANGED <<localVars, attached, remoteVars, auth, required, backupVars,
                 lateVars, worldVars>>

(* Mutant of BackUp: the last backup will do (create_backup, force=False). *)
BackUpUnlessThere ==
  /\ tick = "backup"
  /\ backup' = IF backedUp THEN backup ELSE notes
  /\ backedUp' = TRUE
  /\ lateNotes' = {}
  /\ tick' = "download"
  /\ UNCHANGED <<localVars, attached, remoteVars, auth, loopVars, lateSchemas,
                 worldVars>>

(* _local_backup *)
BackUp ==
  /\ tick = "backup"
  /\ backup' = notes
  /\ backedUp' = TRUE
  /\ lateNotes' = {}
  /\ tick' = "download"
  /\ UNCHANGED <<localVars, attached, remoteVars, auth, loopVars, lateSchemas,
                 worldVars>>

(* It fails: logged, and the overwrite still proceeds. *)
BackUpFails ==
  /\ tick = "backup"
  /\ Mishap
  /\ backup' = {}
  /\ backedUp' = FALSE
  /\ lateNotes' = {}
  /\ tick' = "download"
  /\ UNCHANGED <<localVars, attached, remoteVars, auth, loopVars, lateSchemas>>

(* Mutant of AutoDownload: upload=True. *)
AutoUpload ==
  /\ tick = "download"
  /\ auth
  /\ OverwriteServer
  /\ attached' = TRUE
  /\ tick' = "post"
  /\ UNCHANGED <<auth, loopVars, backupVars, lateVars, worldVars>>

(* _perform_full_download *)
AutoDownload ==
  /\ tick = "download"
  /\ auth
  /\ AdoptServer
  /\ attached' = TRUE
  /\ tick' = "post"
  /\ UNCHANGED <<auth, loopVars, backupVars, lateVars, worldVars>>

AutoDownloadFails ==
  /\ tick = "download"
  /\ auth
  /\ Tear
  /\ attached' = FALSE
  /\ tick' = "asleep"
  /\ UNCHANGED <<localVars, remoteVars, auth, loopVars, backupVars, lateVars>>

(* The sync after the download, then the notice that it was resolved. *)
PostSync ==
  /\ tick = "post"
  /\ auth
  /\ Exchange
  /\ lastRequired' = SyncRequired
  /\ tick' = "asleep"
  /\ UNCHANGED <<attached, auth, required, stuck, alerts, backupVars,
                 lateVars, worldVars>>

(* It fails (or there is no token left): taken for "no_changes". *)
PostSyncFails ==
  /\ tick = "post"
  /\ \/ ~auth /\ UNCHANGED worldVars
     \/ auth /\ Mishap
  /\ lastRequired' = "no_changes"
  /\ tick' = "asleep"
  /\ UNCHANGED <<localVars, attached, remoteVars, auth, required, stuck,
                 alerts, backupVars, lateVars>>

-----------------------------------------------------------------------------
TickStep ==
  \/ Wake
  \/ WakeFails
  \/ SyncSettles
  \/ SyncNeedsFull
  \/ SyncUnauthorized
  \/ SyncFails
  \/ CheckRaises
  \/ DecideDownload
  \/ DecideBlocked
  \/ BackUp
  \/ BackUpFails
  \/ AutoDownload
  \/ AutoDownloadFails
  \/ PostSync
  \/ PostSyncFails

UserStep ==
  \/ \E n \in LocalNotes : AddNote(n)
  \/ \E s \in LocalSchemas : ChangeSchema(s)
  \/ Login
  \/ Logout
  \/ UserSync
  \/ UserFullUpload
  \/ UserFullDownload
  \/ UserFullSyncFails

RemoteStep ==
  \/ \E n \in RemoteNotes : RemoteAddNote(n)
  \/ \E s \in RemoteSchemas : RemoteChangeSchema(s)

Next == TickStep \/ UserStep \/ RemoteStep

(* app._autosync_loop keeps running ticks, and a tick gets on: its calls   *)
(* return or raise.  Users and other clients may do nothing at all.        *)
Fairness == WF_vars(TickStep)

Spec == Init /\ [][Next]_vars

FairSpec == Spec /\ Fairness

-----------------------------------------------------------------------------
(* Properties *)

TypeOK ==
  /\ notes \in SUBSET Note
  /\ schema \in SUBSET Schema
  /\ pending \in SUBSET LocalSchemas
  /\ everSynced \in BOOLEAN
  /\ attached \in BOOLEAN
  /\ rNotes \in SUBSET Note
  /\ rSchema \in SUBSET Schema
  /\ auth \in BOOLEAN
  /\ tick \in {"asleep", "sync", "check", "backup", "download", "post"}
  /\ required \in Required
  /\ lastRequired \in Required \union {"none"}
  /\ backup \in SUBSET Note
  /\ backedUp \in BOOLEAN
  /\ made \in SUBSET (Note \union Schema)
  /\ mishaps \in 0 .. MaxMishaps
  /\ tears \in 0 .. MaxTears
  /\ policy \in {"off", "download"}
  /\ lateSchemas \in SUBSET LocalSchemas
  /\ lateNotes \in SUBSET LocalNotes
  /\ stuck \in Required \union {"none"}
  /\ alerts \in Nat

(* The most that can be said of _autosync_full_action's promise: a schema  *)
(* change that an automatic download discards was made after the tick had  *)
(* looked, and a collection that has never synced is never overwritten.    *)
DiscardsOnlyLateSchemas ==
  [][AutoDownload => everSynced /\ pending \subseteq lateSchemas]_vars

(* What an automatic download takes away is in the backup the tick took,   *)
(* unless that backup failed or the note was made after it                 *)
(* (sync.py:104 _local_backup).                                            *)
BackupCoversDownload ==
  [][AutoDownload /\ backedUp =>
       notes \ rNotes \subseteq backup \union lateNotes]_vars

(* "Auto-upload is never a policy" (README, config.py): no step of a tick  *)
(* takes a note from the server or changes its schema, whatever requests   *)
(* and other clients do in between.                                        *)
NeverAutoUploads ==
  [][TickStep => rNotes \subseteq rNotes' /\ rSchema' = rSchema]_vars

(* With the policy "off" no step of a tick takes anything from this        *)
(* collection ("so there's no silent data loss").                          *)
OffDiscardsNothing ==
  [][TickStep /\ policy = "off" =>
       notes \subseteq notes' /\ schema' = schema /\ pending' = pending]_vars

(* "once per transition (never per tick)": while the loop stays blocked on *)
(* one requirement it raises one alert at most, however many ticks fail in *)
(* between.                                                                *)
AlertsAtMostOnce == alerts <= 1

(* Why the above hold, step after step: a decision to download stands on a *)
(* look at the schema that only later changes can have outdated, a backup  *)
(* misses only later notes, and the loop remembers what it is blocked on.  *)
IInv ==
  /\ TypeOK
  /\ tick \in {"backup", "download"} =>
       policy = "download" /\ everSynced /\ pending \subseteq lateSchemas
  /\ tick = "download" /\ backedUp =>
       notes \ rNotes \subseteq backup \union lateNotes
  /\ stuck # "none" => lastRequired = stuck
  /\ tick \in {"backup", "download", "post"} => stuck = "none"
  /\ AlertsAtMostOnce

(* Once requests and other clients have stopped, and unless a full sync has*)
(* left the collection detached for good, the loop ends in sync, or blocked*)
(* with the decision left to the user.                                     *)
Settles == <>[]attached => <>[](InSync \/ stuck # "none")

(* README.md:175, "so nothing local-only is discarded": the notes that an  *)
(* automatic download replaces are all on the server.                      *)
NothingLocalOnlyDiscarded ==
  [][AutoDownload => notes \subseteq rNotes]_vars

(* sync.py:97, "no local-only schema change is ever silently discarded":   *)
(* an automatic download never replaces an un-synced schema change.        *)
NoSchemaChangeDiscarded ==
  [][AutoDownload => ~SchemaChanged]_vars

(* sync.py:139, "blocked states fire the optional notifier once per        *)
(* transition": a loop that is blocked has said so.                        *)
BlockedIsAlerted == stuck # "none" => alerts >= 1

=============================================================================
