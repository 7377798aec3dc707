--------------------------- MODULE RemoteBackups ---------------------------
(***************************************************************************)
(* POST /sync/backup-remote: each call downloads the server's collection   *)
(* into a throwaway collection of its own, named after the second the call *)
(* is made in, and then prunes the folder to the newest Keep backups.      *)
(* Nothing here takes the writer lock, so calls overlap at every step; and *)
(* calls of the same second share a file, which none of them has open while*)
(* it downloads.                                                           *)
(*                                                                         *)
(* A backup stands for its .anki2 file and the sidecar files next to it,   *)
(* and is known by its stamp.  A file's content is the version of the      *)
(* server's collection it holds, or Blank: a collection that was created,  *)
(* and into which nothing has been downloaded.                             *)
(***************************************************************************)
EXTENDS Naturals, FiniteSets

CONSTANTS
  Threads,      \* request workers
  Keep,         \* REMOTE_BACKUP_KEEP
  MaxClock,     \* bound: the seconds that pass
  MaxVersions   \* bound: the versions of the server's collection

ASSUME KeepAssumption == Keep \in Nat \ {0}
ASSUME BoundsAssumption == MaxClock \in Nat \ {0} /\ MaxVersions \in Nat \ {0}

VARIABLES
  clock,     \* the second it is
  server,    \* the version of the server's collection
  files,     \* the backups in the folder
  content,   \* what each of them holds
  pc,        \* where each call is
  path,      \* the backup a call makes
  linked,    \* the calls whose open file is the one in the folder
  fetched,   \* what a call has downloaded, and not put in place yet
  doomed,    \* what a call has listed to remove
  first      \* history: what the server had at each second's first call, or 0

worldVars == <<clock, server>>
callVars == <<path, first>>
folderVars == <<files, content>>
vars == <<worldVars, folderVars, pc, linked, fetched, doomed, callVars>>

Blank == 0
Stamp == 1 .. MaxClock
Version == 0 .. MaxVersions

Newer(s) == {g \in files : g > s}

(* The exclusive lock that the library has on a file while it is open; a   *)
(* file that has been unlinked or replaced no longer answers to its name.  *)
Locked(t) == \E u \in linked \ {t} : path[u] = path[t]

(* Opening a collection creates the file, or takes the one that is there.  *)
OpenFile(t) ==
  /\ ~Locked(t)
  /\ files' = files \union {path[t]}
  /\ content' = [content EXCEPT ![path[t]] = IF path[t] \in files THEN @ ELSE Blank]
  /\ linked' = linked \union {t}

Init ==
  /\ clock = 1
  /\ server = 1
  /\ files = {}
  /\ content = [s \in Stamp |-> Blank]
  /\ pc = [t \in Threads |-> "idle"]
  /\ path = [t \in Threads |-> 1]
  /\ linked = {}
  /\ fetched = [t \in Threads |-> Blank]
  /\ doomed = [t \in Threads |-> {}]
  /\ first = [s \in Stamp |-> 0]

Goto(t, place) == pc' = [pc EXCEPT ![t] = place]

-----------------------------------------------------------------------------
(* The world *)

Tick ==
  /\ clock < MaxClock
  /\ clock' = clock + 1
  /\ UNCHANGED <<server, folderVars, pc, linked, fetched, doomed, callVars>>

(* Somebody syncs with the server, or overwrites it. *)
ServerChanges ==
  /\ server < MaxVersions
  /\ server' = server + 1
  /\ UNCHANGED <<clock, folderVars, pc, linked, fetched, doomed, callVars>>

-----------------------------------------------------------------------------
(* backup_remote *)

(* The call names its file after the time. *)
Start(t) ==
  /\ pc[t] = "idle"
  /\ path' = [path EXCEPT ![t] = clock]
  /\ first' = [first EXCEPT ![clock] = IF @ = 0 THEN server ELSE @]
  /\ Goto(t, "named")
  /\ UNCHANGED <<worldVars, folderVars, linked, fetched, doomed>>

(* Collection(path) ... *)
Open(t) ==
  /\ pc[t] = "named"
  /\ OpenFile(t)
  /\ Goto(t, "open")
  /\ UNCHANGED <<worldVars, fetched, doomed, callVars>>

(* ... or DBError, if another call of the same second has the file open.   *)
OpenFails(t) ==
  /\ pc[t] = "named"
  /\ Locked(t)
  /\ Goto(t, "idle")
  /\ UNCHANGED <<worldVars, folderVars, linked, fetched, doomed, callVars>>

(* The file is closed for as long as the download takes ... *)
Release(t) ==
  /\ pc[t] = "open"
  /\ linked' = linked \ {t}
  /\ Goto(t, "released")
  /\ UNCHANGED <<worldVars, folderVars, fetched, doomed, callVars>>

(* ... into a temporary file, of what the server has now.                  *)
Fetch(t) ==
  /\ pc[t] = "released"
  /\ fetched' = [fetched EXCEPT ![t] = server]
  /\ Goto(t, "fetched")
  /\ UNCHANGED <<worldVars, folderVars, linked, doomed, callVars>>

(* It is renamed over the path, whatever has become of the file there.     *)
Replace(t) ==
  /\ pc[t] = "fetched"
  /\ files' = files \union {path[t]}
  /\ content' = [content EXCEPT ![path[t]] = fetched[t]]
  /\ linked' = {u \in linked : path[u] # path[t]}
  /\ fetched' = [fetched EXCEPT ![t] = Blank]
  /\ Goto(t, "replaced")
  /\ UNCHANGED <<worldVars, doomed, callVars>>

(* Mutants of DownloadFails: the failure is logged, and the call goes on;  *)
(* the call never returns.                                                 *)
DownloadFailsQuietly(t) ==
  /\ pc[t] \in {"released", "fetched"}
  /\ fetched' = [fetched EXCEPT ![t] = Blank]
  /\ Goto(t, "replaced")
  /\ UNCHANGED <<worldVars, folderVars, linked, doomed, callVars>>

DownloadHangs(t) ==
  /\ pc[t] \in {"released", "fetched"}
  /\ Goto(t, "retrying")
  /\ UNCHANGED <<worldVars, folderVars, linked, fetched, doomed, callVars>>

(* The download, or the check of what came, raises.                        *)
DownloadFails(t) ==
  /\ pc[t] \in {"released", "fetched"}
  /\ fetched' = [fetched EXCEPT ![t] = Blank]
  /\ Goto(t, "failed")
  /\ UNCHANGED <<worldVars, folderVars, linked, doomed, callVars>>

(* Either way the path is opened again ... *)
Reopen(t) ==
  /\ OpenFile(t)
  /\ \/ pc[t] = "replaced" /\ Goto(t, "downloaded")
     \/ pc[t] = "failed" /\ Goto(t, "raising")
  /\ UNCHANGED <<worldVars, fetched, doomed, callVars>>

(* ... unless another call has it open, which raises. *)
ReopenFails(t) ==
  /\ pc[t] \in {"replaced", "failed"}
  /\ Locked(t)
  /\ Goto(t, "idle")
  /\ UNCHANGED <<worldVars, folderVars, linked, fetched, doomed, callVars>>

(* The collection is closed; the call that raises leaves its file, and     *)
(* prunes nothing.                                                         *)
Close(t) ==
  /\ \/ pc[t] = "downloaded" /\ Goto(t, "closed")
     \/ pc[t] = "raising" /\ Goto(t, "idle")
  /\ linked' = linked \ {t}
  /\ UNCHANGED <<worldVars, folderVars, fetched, doomed, callVars>>

-----------------------------------------------------------------------------
(* _prune_remote_backups *)

(* Mutants of Surplus: one backup too few is kept; the list is reversed. *)
SurplusOffByOne == {s \in files : Cardinality(Newer(s)) >= Keep - 1}
SurplusReversed == {s \in files : Cardinality({g \in files : g < s}) >= Keep}

(* All but the newest Keep. *)
Surplus == {s \in files : Cardinality(Newer(s)) >= Keep}

List(t) ==
  /\ pc[t] = "closed"
  /\ doomed' = [doomed EXCEPT ![t] = Surplus]
  /\ Goto(t, "pruning")
  /\ UNCHANGED <<worldVars, folderVars, linked, fetched, callVars>>

IsOldest(s, S) == s \in S /\ \A r \in S : s <= r

(* The files of the oldest are globbed; there may be none left ... *)
Skip(t) ==
  /\ pc[t] = "pruning"
  /\ \E s \in doomed[t] :
       /\ IsOldest(s, doomed[t])
       /\ s \notin files
       /\ doomed' = [doomed EXCEPT ![t] = @ \ {s}]
  /\ UNCHANGED <<worldVars, folderVars, pc, linked, fetched, callVars>>

Find(t) ==
  /\ pc[t] = "pruning"
  /\ \E s \in doomed[t] : IsOldest(s, doomed[t]) /\ s \in files
  /\ Goto(t, "removing")
  /\ UNCHANGED <<worldVars, folderVars, linked, fetched, doomed, callVars>>

(* ... and removed, ... *)
Remove(t) ==
  /\ pc[t] = "removing"
  /\ \E s \in doomed[t] :
       /\ IsOldest(s, doomed[t])
       /\ s \in files
       /\ files' = files \ {s}
       /\ linked' = {u \in linked : path[u] # s}
       /\ doomed' = [doomed EXCEPT ![t] = @ \ {s}]
  /\ Goto(t, "pruning")
  /\ UNCHANGED <<worldVars, content, fetched, callVars>>

(* ... or, if another call has just done so, FileNotFoundError is raised. *)
RemoveFails(t) ==
  /\ pc[t] = "removing"
  /\ \E s \in doomed[t] : IsOldest(s, doomed[t]) /\ s \notin files
  /\ doomed' = [doomed EXCEPT ![t] = {}]
  /\ Goto(t, "idle")
  /\ UNCHANGED <<worldVars, folderVars, linked, fetched, callVars>>

(* 200, with the path of the backup. *)
Answer(t) ==
  /\ pc[t] = "pruning"
  /\ doomed[t] = {}
  /\ Goto(t, "idle")
  /\ UNCHANGED <<worldVars, folderVars, linked, fetched, doomed, callVars>>

-----------------------------------------------------------------------------
Step(t) ==
  \/ Start(t)
  \/ Open(t)
  \/ OpenFails(t)
  \/ Release(t)
  \/ Fetch(t)
  \/ Replace(t)
  \/ DownloadFails(t)
  \/ Reopen(t)
  \/ ReopenFails(t)
  \/ Close(t)
  \/ List(t)
  \/ Skip(t)
  \/ Find(t)
  \/ Remove(t)
  \/ RemoveFails(t)
  \/ Answer(t)

Next ==
  \/ Tick
  \/ ServerChanges
  \/ \E t \in Threads : Step(t)

Spec == Init /\ [][Next]_vars

-----------------------------------------------------------------------------
(* Properties *)

TypeOK ==
  /\ clock \in Stamp
  /\ server \in Version
  /\ files \in SUBSET Stamp
  /\ content \in [Stamp -> Version]
  /\ pc \in [Threads -> {"idle", "named", "open", "released", "fetched",
                         "replaced", "downloaded", "failed", "raising",
                         "closed", "pruning", "removing"}]
  /\ path \in [Threads -> Stamp]
  /\ linked \in SUBSET Threads
  /\ fetched \in [Threads -> Version]
  /\ doomed \in [Threads -> SUBSET Stamp]
  /\ first \in [Stamp -> Version]

(* Keep newer backups are there: this one is none of the newest.           *)
Outdated(s) == Cardinality(Newer(s)) >= Keep

(* However calls overlap, and whatever another one has removed since a call*)
(* made its list, a backup goes only while Keep newer ones stay            *)
(* (_prune_remote_backups, "Keep the newest `keep`").                      *)
PruneKeepsNewest ==
  [][\A s \in files \ files' :
       Cardinality({g \in files' : g > s}) >= Keep]_vars

(* What a call owes: its backup is there, and holds what the server had    *)
(* when the first call of that second was made, or something later; unless *)
(* Keep newer backups have come in the meantime.                           *)
Possessed(s) ==
  \/ s \in files /\ content[s] >= first[s]
  \/ Outdated(s)

(* Whatever the calls it overlaps do, those of the same second included,   *)
(* which may open, replace and re-create its file, and those that prune a  *)
(* file it has not finished with, a call that is answered 200 leaves no    *)
(* blank or missing file, and none older than its second (sync.py:292,     *)
(* "Possession, not inference").  A later call of a second may find its    *)
(* download replaced by that of an earlier one.                            *)
AnsweredIsPossessed ==
  [][\A t \in Threads : Answer(t) => Possessed(path[t])]_vars

(* Why the above hold, step after step: what a list dooms stays outdated,  *)
(* what a call is about to put in place is recent enough, and so is what   *)
(* it has put in place, or what has replaced that.                         *)
IInv ==
  /\ TypeOK
  /\ \A t \in Threads : \A s \in doomed[t] : Outdated(s)
  /\ server # 0
  /\ \A s \in Stamp : first[s] <= server
  /\ \A t \in Threads : pc[t] # "idle" => first[path[t]] # 0
  /\ \A t \in Threads : pc[t] = "fetched" => fetched[t] >= first[path[t]]
  /\ \A t \in Threads :
       pc[t] \in {"replaced", "downloaded", "closed", "pruning", "removing"} =>
         Possessed(path[t])

(* sync.py:296, "Keeps the newest REMOTE_BACKUP_KEEP backups": a backup    *)
(* that holds a collection of the server's goes only while Keep newer ones *)
(* that do stay.  The blank files of calls that failed are counted too.    *)
KeepsNewestBackups ==
  [][\A s \in files \ files' : content[s] # Blank =>
       Cardinality({g \in files' : g > s /\ content[g] # Blank}) >= Keep]_vars

=============================================================================
