--------------------------- MODULE SyncAuthStore ---------------------------
(***************************************************************************)
(* The sync token: the object in memory (handle.sync_auth), the sidecar    *)
(* file it is persisted to, and the threads that log in, log out, and      *)
(* follow the server to a new endpoint.  None of this is under the writer  *)
(* lock: save_sync_auth and clear_sync_auth run outside `with locked()`,   *)
(* so their steps interleave, and the process may die between any two.     *)
(*                                                                         *)
(* A token is the number of the login that minted it; its endpoint is kept *)
(* apart, because an incremental sync changes it in place, in the object   *)
(* that handle.sync_auth and other threads may share.                      *)
(***************************************************************************)
EXTENDS Naturals

CONSTANTS
  Threads,         \* request workers and the autosync worker
  Shards,          \* sync server endpoints
  HasCredentials,  \* Settings.sync_username and sync_password
  MaxLogins,       \* bound: logins
  MaxMoves,        \* bound: endpoint changes
  MaxRestarts      \* bound: restarts, orderly or by a crash

ASSUME ShardsAssumption == Shards # {}
ASSUME CredentialsAssumption == HasCredentials \in BOOLEAN
ASSUME BoundsAssumption ==
  MaxLogins \in Nat /\ MaxMoves \in Nat /\ MaxRestarts \in Nat

VARIABLES
  mem,        \* handle.sync_auth: a token, or 0 for None
  endpoint,   \* SyncAuth.endpoint of each token's object
  file,       \* the sidecar file's name: nothing, or what it holds
  pc,         \* where each thread is
  op,         \* what it is doing there, or did last
  held,       \* the SyncAuth object a thread works with
  data,       \* the JSON a thread is about to write
  linked,     \* whether the file a thread has open still has its name
  logins, moves, restarts,
  wanted,     \* history: somebody asked to log in since the last logout
  alone,      \* history: no other request overlapped this thread's
  serial,     \* history: no two requests have ever overlapped
  apart       \* history: no logout has ever overlapped a login or a sync

opVars == <<held, data, linked>>
boundVars == <<logins, moves, restarts>>
overlapVars == <<alone, serial, apart>>
vars == <<mem, endpoint, file, pc, op, opVars, boundVars, wanted, overlapVars>>

Token == 0 .. MaxLogins          \* 0: none
Json == [token : Token, endpoint : Shards]

(* The file's name stands for nothing, an empty file, garbled JSON, or a   *)
(* whole token.                                                            *)
Absent(f) == f.kind = "absent"
Readable(f) == f.kind = "whole"
File == [kind : {"absent", "empty", "garbled", "whole"}, json : Json]

Quiet == \A t \in Threads : pc[t] = "idle"

Init ==
  /\ mem = 0
  /\ \E e \in Shards :
       /\ endpoint = [k \in Token |-> e]
       /\ file = [kind |-> "absent", json |-> [token |-> 0, endpoint |-> e]]
  /\ pc = [t \in Threads |-> "idle"]
  /\ op = [t \in Threads |-> "logout"]
  /\ held = [t \in Threads |-> 0]
  /\ data = [t \in Threads |-> file.json]
  /\ linked = [t \in Threads |-> FALSE]
  /\ logins = 0
  /\ moves = 0
  /\ restarts = 0
  /\ wanted = FALSE
  /\ alone = [t \in Threads |-> FALSE]
  /\ serial = TRUE
  /\ apart = TRUE

-----------------------------------------------------------------------------
Goto(t, place) == pc' = [pc EXCEPT ![t] = place]

LoggingOut == {"remove", "forget"}

(* Thread t starts on o: it is alone if all others are idle, and whoever is*)
(* under way is alone no more.                                             *)
Starts(t, o) ==
  /\ pc[t] = "idle"
  /\ op' = [op EXCEPT ![t] = o]
  /\ alone' = [u \in Threads |-> u = t /\ \A v \in Threads \ {t} : pc[v] = "idle"]
  /\ serial' = (serial /\ Quiet)
  /\ apart' = (apart /\ \A u \in Threads :
                 pc[u] # "idle" => (pc[u] \in LoggingOut <=> o = "logout"))

(* POST /login; ensure_logged_in, which asks only if there is no token. *)
StartLogin(t) ==
  /\ Goto(t, "login")
  /\ Starts(t, "login")
  /\ wanted' = TRUE
  /\ UNCHANGED <<mem, endpoint, file, opVars, boundVars>>

EnsureLoggedIn(t) ==
  /\ HasCredentials
  /\ mem = 0
  /\ StartLogin(t)

(* sync_login: the server mints a token ... *)
MintToken(t) ==
  /\ pc[t] = "login"
  /\ logins < MaxLogins
  /\ logins' = logins + 1
  /\ held' = [held EXCEPT ![t] = logins + 1]
  /\ Goto(t, "open")
  /\ UNCHANGED <<mem, endpoint, file, data, linked, moves, restarts, op,
                 wanted, overlapVars>>

(* ... or refuses. *)
LoginFails(t) ==
  /\ pc[t] = "login"
  /\ Goto(t, "idle")
  /\ UNCHANGED <<mem, endpoint, file, op, opVars, boundVars, wanted, overlapVars>>

(* The token a thread works with, as JSON. *)
Current(t) == [token |-> held[t], endpoint |-> endpoint[held[t]]]

(* Mutant of OpenFile: without O_TRUNC. *)
OpenFileKept(t) ==
  /\ pc[t] = "open"
  /\ data' = [data EXCEPT ![t] = Current(t)]
  /\ file' = [file EXCEPT !.kind = IF Absent(file) THEN "empty" ELSE @]
  /\ linked' = [linked EXCEPT ![t] = TRUE]
  /\ Goto(t, "write")
  /\ UNCHANGED <<mem, endpoint, held, boundVars, op, wanted, overlapVars>>

(* save_sync_auth: json.dumps, then os.open with O_CREAT and O_TRUNC. *)
OpenFile(t) ==
  /\ pc[t] = "open"
  /\ data' = [data EXCEPT ![t] = Current(t)]
  /\ file' = [file EXCEPT !.kind = "empty"]
  /\ linked' = [linked EXCEPT ![t] = TRUE]
  /\ Goto(t, "write")
  /\ UNCHANGED <<mem, endpoint, held, boundVars, op, wanted, overlapVars>>

(* f.write, from the start of the file.  Over what another thread has      *)
(* written since the truncation it leaves that one's tail, if it is longer.*)
WriteFile(t) ==
  /\ pc[t] = "write"
  /\ \E kind \in {"whole", "garbled"} :
       /\ kind = "garbled" => linked[t] /\ file.kind \in {"whole", "garbled"}
       /\ file' = IF linked[t] THEN [kind |-> kind, json |-> data[t]] ELSE file
  /\ Goto(t, "chmod")
  /\ UNCHANGED <<mem, endpoint, op, opVars, boundVars, wanted, overlapVars>>

(* Mutant of Chmod: an exception nobody lets out. *)
ChmodHangs(t) ==
  /\ pc[t] = "chmod"
  /\ Goto(t, IF Absent(file) THEN "raised" ELSE "publish")
  /\ UNCHANGED <<mem, endpoint, file, op, opVars, boundVars, wanted, overlapVars>>

(* os.chmod, by name: FileNotFoundError if the name has gone. *)
Chmod(t) ==
  /\ pc[t] = "chmod"
  /\ Goto(t, IF Absent(file) THEN "idle" ELSE "publish")
  /\ UNCHANGED <<mem, endpoint, file, op, opVars, boundVars, wanted, overlapVars>>

(* self.sync_auth = auth *)
Publish(t) ==
  /\ pc[t] = "publish"
  /\ mem' = held[t]
  /\ Goto(t, "idle")
  /\ UNCHANGED <<endpoint, file, op, opVars, boundVars, wanted, overlapVars>>

-----------------------------------------------------------------------------
(* _incremental_sync: `_auth` reads the token (401 without one: no step),  *)
StartSync(t) ==
  /\ mem # 0
  /\ held' = [held EXCEPT ![t] = mem]
  /\ Goto(t, "syncing")
  /\ Starts(t, "sync")
  /\ UNCHANGED <<mem, endpoint, file, data, linked, boundVars, wanted>>

(* the sync fails, or hands back no other endpoint, *)
SyncStays(t) ==
  /\ pc[t] = "syncing"
  /\ Goto(t, "idle")
  /\ UNCHANGED <<mem, endpoint, file, op, opVars, boundVars, wanted, overlapVars>>

(* Mutant of SyncMoves: the object takes the new endpoint, nothing is saved. *)
SyncMovesUnsaved(t) ==
  /\ pc[t] = "syncing"
  /\ moves < MaxMoves
  /\ moves' = moves + 1
  /\ \E e \in Shards \ {endpoint[held[t]]} :
       endpoint' = [endpoint EXCEPT ![held[t]] = e]
  /\ Goto(t, "idle")
  /\ UNCHANGED <<mem, file, op, opVars, logins, restarts, wanted, overlapVars>>

(* or hands back a new one, which the object takes and which is saved. *)
SyncMoves(t) ==
  /\ pc[t] = "syncing"
  /\ moves < MaxMoves
  /\ moves' = moves + 1
  /\ \E e \in Shards \ {endpoint[held[t]]} :
       endpoint' = [endpoint EXCEPT ![held[t]] = e]
  /\ Goto(t, "open")
  /\ UNCHANGED <<mem, file, op, opVars, logins, restarts, wanted, overlapVars>>

-----------------------------------------------------------------------------
(* Mutant of StartLogout: the file is left where it is. *)
StartLogoutInMemory(t) ==
  /\ Goto(t, "forget")
  /\ Starts(t, "logout")
  /\ UNCHANGED <<mem, endpoint, file, opVars, boundVars, wanted>>

(* POST /logout: clear_sync_auth asks whether the file exists, *)
StartLogout(t) ==
  /\ Goto(t, IF Absent(file) THEN "forget" ELSE "remove")
  /\ Starts(t, "logout")
  /\ UNCHANGED <<mem, endpoint, file, opVars, boundVars, wanted>>

(* removes it (FileNotFoundError if another logout has), *)
RemoveFile(t) ==
  /\ pc[t] = "remove"
  /\ ~Absent(file)
  /\ file' = [file EXCEPT !.kind = "absent"]
  /\ linked' = [u \in Threads |-> FALSE]
  /\ Goto(t, "forget")
  /\ UNCHANGED <<mem, endpoint, held, data, boundVars, op, wanted, overlapVars>>

RemoveFails(t) ==
  /\ pc[t] = "remove"
  /\ Absent(file)
  /\ Goto(t, "idle")
  /\ UNCHANGED <<mem, endpoint, file, op, opVars, boundVars, wanted, overlapVars>>

(* and drops the token in memory. *)
Forget(t) ==
  /\ pc[t] = "forget"
  /\ mem' = 0
  /\ wanted' = \E u \in Threads : op[u] = "login" /\ pc[u] # "idle"
  /\ Goto(t, "idle")
  /\ UNCHANGED <<endpoint, file, op, opVars, boundVars, overlapVars>>

-----------------------------------------------------------------------------
(* _load_auth *)
Load == IF Readable(file) THEN file.json.token ELSE 0

(* The process ends, wherever its threads are, and another one starts. *)
Restart ==
  /\ restarts < MaxRestarts
  /\ restarts' = restarts + 1
  /\ mem' = Load
  /\ endpoint' = IF Readable(file)
                   THEN [endpoint EXCEPT ![Load] = file.json.endpoint]
                   ELSE endpoint
  /\ pc' = [t \in Threads |-> "idle"]
  /\ UNCHANGED <<file, op, opVars, logins, moves, wanted, overlapVars>>

-----------------------------------------------------------------------------
Step(t) ==
  \/ StartLogin(t)
  \/ EnsureLoggedIn(t)
  \/ MintToken(t)
  \/ LoginFails(t)
  \/ OpenFile(t)
  \/ WriteFile(t)
  \/ Chmod(t)
  \/ Publish(t)
  \/ StartSync(t)
  \/ SyncStays(t)
  \/ SyncMoves(t)
  \/ StartLogout(t)
  \/ RemoveFile(t)
  \/ RemoveFails(t)
  \/ Forget(t)

Next ==
  \/ \E t \in Threads : Step(t)
  \/ Restart

Spec == Init /\ [][Next]_vars

-----------------------------------------------------------------------------
(* Properties *)

TypeOK ==
  /\ mem \in Token
  /\ endpoint \in [Token -> Shards]
  /\ file \in File
  /\ pc \in [Threads -> {"idle", "login", "open", "write", "chmod", "publish",
                         "syncing", "remove", "forget"}]
  /\ op \in [Threads -> {"login", "sync", "logout"}]
  /\ held \in [Threads -> Token]
  /\ data \in [Threads -> Json]
  /\ linked \in [Threads -> BOOLEAN]
  /\ logins \in Token
  /\ moves \in 0 .. MaxMoves
  /\ restarts \in 0 .. MaxRestarts
  /\ wanted \in BOOLEAN
  /\ alone \in [Threads -> BOOLEAN]
  /\ serial \in BOOLEAN
  /\ apart \in BOOLEAN

Saving == {"open", "write", "chmod", "publish"}

(* Why the next four hold, step after step.  A request that is alone finds *)
(* the file as its own steps have left it.                                 *)
AloneInv ==
  \A t \in Threads : alone[t] /\ pc[t] # "idle" =>
    /\ \A u \in Threads \ {t} : pc[u] = "idle"
    /\ pc[t] = "write" => linked[t] /\ file.kind = "empty"
    /\ pc[t] = "write" => data[t] = Current(t)
    /\ pc[t] \in {"chmod", "publish"} =>
         Readable(file) /\ file.json = Current(t)
    /\ pc[t] = "forget" => Absent(file)

(* As long as no two have overlapped, memory and file agree except during  *)
(* a save or a logout.                                                     *)
SerialInv == serial =>
  /\ \A t \in Threads : pc[t] # "idle" => alone[t]
  /\ \A t \in Threads : pc[t] \in Saving \union {"syncing"} => held[t] # 0
  /\ \A t \in Threads : pc[t] = "syncing" => held[t] = mem
  /\ (\A t \in Threads : pc[t] \notin Saving \union {"forget"}) =>
       IF mem = 0 THEN ~Readable(file)
       ELSE Readable(file) /\ file.json = [token |-> mem, endpoint |-> endpoint[mem]]
  /\ Readable(file) => file.json.token # 0

(* As long as no logout has overlapped a login or a sync, several logouts  *)
(* at once find the file gone when they drop the token, and until somebody *)
(* asks to log in again there is nothing to find and nobody to bring it    *)
(* back.                                                                   *)
ApartInv == apart =>
  /\ (\E t \in Threads : pc[t] \in LoggingOut) =>
       \A t \in Threads : pc[t] \in LoggingOut \union {"idle"}
  /\ \A t \in Threads : pc[t] = "forget" => Absent(file)
  /\ ~wanted =>
       /\ mem = 0
       /\ ~Readable(file)
       /\ \A t \in Threads : pc[t] \in LoggingOut \union {"idle"}

IInv == TypeOK /\ AloneInv /\ SerialInv /\ ApartInv

(* Whatever earlier requests have done to each other, and wherever a crash *)
(* has cut one off, a save that overlaps no other request leaves in the    *)
(* file exactly the token it puts in memory (save_sync_auth).              *)
SerialSaveAgrees ==
  [][\A t \in Threads : Publish(t) /\ alone[t] =>
       Readable(file) /\ file.json = Current(t)]_vars

(* Likewise a logout that overlaps no other request leaves no file.        *)
SerialLogoutForgets ==
  [][\A t \in Threads : Forget(t) /\ alone[t] => Absent(file)]_vars

(* test_sync.py:101, "a fresh process (same settings) loads the token from *)
(* disk", with the endpoint the server was using: true of a restart between*)
(* requests, wherever earlier restarts have cut one off, as long as no two *)
(* requests have overlapped.                                               *)
SerialRestartKeepsLogin ==
  [][Restart /\ Quiet /\ serial =>
       mem' = mem /\ (mem # 0 => endpoint'[mem] = endpoint[mem])]_vars

(* Once a logout has been answered there is no token, neither in memory    *)
(* nor on disk, until somebody asks to log in: whatever saves have done to *)
(* each other and crashes have cut off, and however many logouts overlap,  *)
(* as long as no logout has overlapped a login or a sync.                  *)
ApartLogoutSticks == apart /\ ~wanted /\ Quiet => mem = 0 /\ ~Readable(file)

(* test_sync.py:107, test_logout_clears_persisted_auth, of requests that   *)
(* may overlap.  A sync that is told to use another endpoint brings back   *)
(* the token of a user who logged out meanwhile.                           *)
LogoutSticks == ~wanted /\ Quiet => mem = 0 /\ ~Readable(file)

=============================================================================
