------------------------ MODULE RemoteBackupsProofs ------------------------
(***************************************************************************)
(* Proofs about RemoteBackups, for any threads, any number of backups kept,*)
(* and any number of seconds and server versions.                          *)
(***************************************************************************)
EXTENDS RemoteBackups, FiniteSetTheorems, TLAPS

LEMMA StampsAreNaturals == Stamp \subseteq Nat /\ IsFiniteSet(Stamp)
BY FS_Interval, BoundsAssumption DEF BoundsAssumption, Stamp

(* The folder is finite, and so is any part of it.                         *)
LEMMA PartsAreFinite ==
  ASSUME NEW F \in SUBSET Stamp, NEW G, G \subseteq F
  PROVE  IsFiniteSet(G) /\ Cardinality(G) \in Nat
BY StampsAreNaturals, FS_Subset, FS_CardinalityType

LEMMA LargerPart ==
  ASSUME NEW F \in SUBSET Stamp, NEW G \in SUBSET F, NEW H \in SUBSET G,
         Cardinality(H) >= Keep
  PROVE  Cardinality(G) >= Keep
<1>1. IsFiniteSet(G) /\ Cardinality(G) \in Nat /\ Cardinality(H) \in Nat
  BY PartsAreFinite
<1>2. Cardinality(H) <= Cardinality(G)
  BY <1>1, FS_Subset
<1>3. QED
  BY <1>1, <1>2, KeepAssumption DEF KeepAssumption

(* A backup that is outdated stays so when another one comes in ...        *)
LEMMA OutdatedByMore ==
  ASSUME TypeOK', files \subseteq files', NEW s \in Stamp, Outdated(s)
  PROVE  Outdated(s)'
<1>1. Newer(s) \subseteq Newer(s)' /\ Newer(s)' \subseteq files'
  BY DEF Newer
<1>2. Cardinality(Newer(s)) >= Keep
  BY DEF Outdated
<1>3. Cardinality(Newer(s)') >= Keep
  BY <1>1, <1>2, LargerPart DEF TypeOK
<1>4. QED
  BY <1>3 DEF Outdated

(* ... and when one that is outdated itself is removed: those newer than   *)
(* that one are enough.                                                    *)
LEMMA OutdatedByFewer ==
  ASSUME TypeOK, TypeOK', NEW r \in files, Outdated(r), files' = files \ {r},
         NEW s \in Stamp, Outdated(s)
  PROVE  Outdated(s)'
<1> r \in Nat /\ s \in Nat /\ files \subseteq Nat
  BY StampsAreNaturals DEF TypeOK
<1>1. CASE s >= r
  <2>1. Newer(s)' = Newer(s)
    BY <1>1 DEF Newer
  <2>2. QED
    BY <2>1 DEF Outdated
<1>2. CASE s < r
  <2>1. Newer(r) \subseteq Newer(s)' /\ Newer(s)' \subseteq files'
    <3>1. ASSUME NEW g \in files, g > r
          PROVE  g \in files' /\ g > s
      BY <1>2, <3>1
    <3>2. QED
      BY <3>1 DEF Newer
  <2>2. Cardinality(Newer(r)) >= Keep
    BY DEF Outdated
  <2>3. Cardinality(Newer(s)') >= Keep
    BY <2>1, <2>2, LargerPart DEF TypeOK
  <2>4. QED
    BY <2>3 DEF Outdated
<1>3. QED
  BY <1>1, <1>2

-----------------------------------------------------------------------------
(* Type correctness.                                                       *)

LEMMA InitTypeOK == Init => TypeOK
BY BoundsAssumption DEF BoundsAssumption, Init, TypeOK, Stamp, Version, Blank

(* What opening a file leaves in the folder.                               *)
LEMMA OpenedFile ==
  ASSUME TypeOK, NEW t \in Threads, OpenFile(t)
  PROVE  /\ files' \in SUBSET Stamp /\ content' \in [Stamp -> Version]
         /\ files \subseteq files' /\ path[t] \in files'
         /\ \A s \in files : content'[s] = content[s]
         /\ linked' \in SUBSET Threads
<1> USE DEF TypeOK, OpenFile
<1>1. path[t] \in Stamp /\ content[path[t]] \in Version /\ Blank \in Version
  BY BoundsAssumption DEF BoundsAssumption, Version, Blank
<1>2. content' \in [Stamp -> Version] /\ \A s \in files : content'[s] = content[s]
  <2>1. CASE path[t] \in files
    BY <1>1, <2>1
  <2>2. CASE path[t] \notin files
    BY <1>1, <2>2
  <2>3. QED
    BY <2>1, <2>2
<1>3. QED
  BY <1>1, <1>2

LEMMA NextTypeOK == TypeOK /\ [Next]_vars => TypeOK'
<1> SUFFICES ASSUME TypeOK, [Next]_vars
             PROVE  TypeOK'
  OBVIOUS
<1> USE BoundsAssumption
    DEF BoundsAssumption, TypeOK, Stamp, Version, Blank, Goto, worldVars,
        folderVars, callVars
<1>1. CASE Tick
  BY <1>1 DEF Tick
<1>2. CASE ServerChanges
  <2>1. server' \in Version
    BY <1>2 DEF ServerChanges
  <2>2. QED
    BY <1>2, <2>1 DEF ServerChanges
<1>3. ASSUME NEW t \in Threads, Step(t)
      PROVE  TypeOK'
  <2>1. CASE Start(t)
    BY <2>1 DEF Start
  <2>2. CASE Open(t)
    BY <2>2, OpenedFile DEF Open
  <2>3. CASE OpenFails(t) \/ Release(t) \/ ReopenFails(t) \/ Close(t)
    BY <2>3 DEF OpenFails, Release, ReopenFails, Close
  <2>4. CASE Fetch(t) \/ DownloadFails(t)
    <3>1. PICK v \in Version : fetched' = [fetched EXCEPT ![t] = v]
      BY <2>4 DEF Fetch, DownloadFails
    <3>2. fetched' \in [Threads -> Version]
      BY <3>1
    <3>3. pc' = [pc EXCEPT ![t] = "fetched"] \/ pc' = [pc EXCEPT ![t] = "failed"]
      BY <2>4 DEF Fetch, DownloadFails
    <3>4. QED
      BY <2>4, <3>2, <3>3 DEF Fetch, DownloadFails
  <2>5. CASE Replace(t)
    <3>1. path[t] \in Stamp /\ fetched[t] \in Version /\ 0 \in Version
      OBVIOUS
    <3>2. content' \in [Stamp -> Version] /\ fetched' \in [Threads -> Version]
      BY <2>5, <3>1 DEF Replace
    <3>3. linked' \in SUBSET Threads /\ files' \in SUBSET Stamp
      BY <2>5, <3>1 DEF Replace
    <3>4. QED
      BY <2>5, <3>2, <3>3 DEF Replace
  <2>6. CASE Reopen(t)
    BY <2>6, OpenedFile DEF Reopen
  <2>7. CASE List(t)
    BY <2>7 DEF List, Surplus
  <2>8. CASE Skip(t) \/ Find(t)
    BY <2>8 DEF Skip, Find
  <2>9. CASE Remove(t)
    BY <2>9 DEF Remove
  <2>10. CASE RemoveFails(t) \/ Answer(t)
    BY <2>10 DEF RemoveFails, Answer
  <2>11. QED
    BY <1>3, <2>1, <2>2, <2>3, <2>4, <2>5, <2>6, <2>7, <2>8, <2>9, <2>10 DEF Step
<1>4. CASE UNCHANGED vars
  BY <1>4 DEF vars
<1>5. QED
  BY <1>1, <1>2, <1>3, <1>4 DEF Next

(* The variables hold values of their types.                               *)
THEOREM TypeCorrect == Spec => []TypeOK
BY InitTypeOK, NextTypeOK, PTL DEF Spec

-----------------------------------------------------------------------------
(* The inductive invariant.                                                *)

LEMMA InitIInv == Init => IInv
BY InitTypeOK DEF Init, IInv, Stamp

(* The steps that take nothing from the folder, and blank no file in it.   *)
LEMMA NothingLost ==
  ASSUME TypeOK, TypeOK', files \subseteq files', UNCHANGED first,
         \A s \in files : content'[s] = content[s]
  PROVE  \A s \in Stamp : /\ Outdated(s) => Outdated(s)'
                          /\ Possessed(s) => Possessed(s)'
<1> SUFFICES ASSUME NEW s \in Stamp
             PROVE  /\ Outdated(s) => Outdated(s)'
                    /\ Possessed(s) => Possessed(s)'
  OBVIOUS
<1>1. Outdated(s) => Outdated(s)'
  BY OutdatedByMore
<1>2. QED
  BY <1>1 DEF Possessed

LEMMA FolderUnchanged ==
  ASSUME UNCHANGED folderVars, NEW s
  PROVE  /\ Outdated(s)' = Outdated(s)
         /\ UNCHANGED first => Possessed(s)' = Possessed(s)
BY DEF Outdated, Newer, Possessed, folderVars

LEMMA NextIInv == IInv /\ [Next]_vars => IInv'
<1> SUFFICES ASSUME IInv, [Next]_vars, TypeOK, TypeOK'
             PROVE  IInv'
  BY NextTypeOK DEF IInv
<1> USE DEF IInv, Goto, worldVars, callVars
<1>nat. /\ server \in Nat
        /\ \A s \in Stamp : first[s] \in Nat /\ content[s] \in Nat
        /\ \A t \in Threads : fetched[t] \in Nat
  BY BoundsAssumption DEF BoundsAssumption, TypeOK, Version
<1>1. CASE Tick
  BY <1>1, FolderUnchanged DEF Tick
<1>2. CASE ServerChanges
  BY <1>2, <1>nat, FolderUnchanged DEF ServerChanges, TypeOK
<1>3. ASSUME NEW t \in Threads, Step(t)
      PROVE  IInv'
  <2>1. CASE Start(t)
    <3>1. pc' = [pc EXCEPT ![t] = "named"] /\ path' = [path EXCEPT ![t] = clock]
          /\ UNCHANGED <<server, files, content, fetched, doomed>>
      BY <2>1 DEF Start, folderVars
    <3>2. \A s \in Stamp : first'[s] = IF s = clock /\ first[s] = 0
                                      THEN server ELSE first[s]
      BY <2>1 DEF Start, TypeOK
    <3>3. server # 0 /\ clock \in Stamp
      BY DEF TypeOK
    <3>4. \A s \in Stamp : first[s] # 0 => first'[s] = first[s]
      BY <3>2
    <3>5. \A s \in Stamp : Outdated(s)' = Outdated(s)
      BY <3>1, FolderUnchanged DEF folderVars
    <3>6. \A s \in Stamp : first[s] # 0 => (Possessed(s)' = Possessed(s))
      BY <3>1, <3>4, <3>5 DEF Possessed
    <3>7. \A u \in Threads \ {t} : path'[u] = path[u] /\ pc'[u] = pc[u]
      BY <3>1 DEF TypeOK
    <3>8. path'[t] = clock /\ pc'[t] = "named"
      BY <3>1 DEF TypeOK
    <3>9. server' # 0 /\ \A s \in Stamp : first'[s] <= server'
      BY <3>1, <3>2, <1>nat
    <3>10. \A u \in Threads : pc'[u] # "idle" => first'[path'[u]] # 0
      BY <3>2, <3>3, <3>4, <3>7, <3>8 DEF TypeOK
    <3>11. \A u \in Threads : pc'[u] = "fetched" => fetched'[u] >= first'[path'[u]]
      BY <3>1, <3>4, <3>7, <3>8 DEF TypeOK
    <3>12. \A u \in Threads :
             pc'[u] \in {"replaced", "downloaded", "closed", "pruning", "removing"} =>
               Possessed(path[u])' /\ path'[u] = path[u]
      BY <3>4, <3>6, <3>7, <3>8 DEF TypeOK
    <3>13. \A u \in Threads : \A s \in doomed'[u] : Outdated(s)'
      BY <3>1, <3>5 DEF TypeOK
    <3>14. QED
      BY <3>9, <3>10, <3>11, <3>12, <3>13
  <2>2. CASE Open(t)
    BY <2>2, OpenedFile, NothingLost DEF Open, TypeOK
  <2>3. CASE OpenFails(t) \/ Release(t) \/ ReopenFails(t)
    BY <2>3, FolderUnchanged DEF OpenFails, Release, ReopenFails, TypeOK
  <2>4. CASE Fetch(t)
    <3>1. server >= first[path[t]]
      BY <1>nat DEF TypeOK
    <3>2. pc' = [pc EXCEPT ![t] = "fetched"] /\ fetched' = [fetched EXCEPT ![t] = server]
          /\ UNCHANGED <<server, folderVars, doomed, path, first>>
      BY <2>4 DEF Fetch
    <3>3. \A u \in Threads : pc'[u] = "fetched" => fetched'[u] >= first[path[u]]
      BY <3>1, <3>2 DEF TypeOK
    <3>4. QED
      BY <2>4, <3>2, <3>3, FolderUnchanged DEF Fetch, TypeOK
  <2>5. CASE DownloadFails(t)
    BY <2>5, FolderUnchanged DEF DownloadFails, TypeOK
  <2>6. CASE Replace(t)
    <3>1. files \subseteq files' /\ path[t] \in files'
      BY <2>6 DEF Replace
    <3>2. \A s \in Stamp : Outdated(s) => Outdated(s)'
      BY <3>1, OutdatedByMore
    <3>3. \A s \in Stamp : content'[s] = IF s = path[t] THEN fetched[t] ELSE content[s]
      BY <2>6 DEF Replace, TypeOK
    <3>4. pc' = [pc EXCEPT ![t] = "replaced"] /\ fetched' = [fetched EXCEPT ![t] = Blank]
          /\ UNCHANGED <<server, doomed, path, first>>
      BY <2>6 DEF Replace
    <3>5. fetched[t] >= first[path[t]]
      BY <2>6 DEF Replace
    <3>6. Possessed(path[t])'
      BY <3>1, <3>3, <3>4, <3>5 DEF Possessed, TypeOK
    <3>7. \A s \in Stamp : Possessed(s) => Possessed(s)'
      BY <3>1, <3>2, <3>3, <3>4, <3>5 DEF Possessed
    <3>8. \A u \in Threads \ {t} : pc'[u] = pc[u] /\ fetched'[u] = fetched[u]
      BY <3>4 DEF TypeOK
    <3>9. pc'[t] = "replaced" /\ pc[t] = "fetched"
      BY <2>6, <3>4 DEF Replace, TypeOK
    <3>10. \A u \in Threads : pc'[u] = "fetched" => fetched'[u] >= first'[path'[u]]
      BY <3>4, <3>8, <3>9
    <3>11. \A u \in Threads : pc'[u] # "idle" => first'[path'[u]] # 0
      BY <3>4, <3>8, <3>9
    <3>12. \A u \in Threads :
             pc'[u] \in {"replaced", "downloaded", "closed", "pruning", "removing"} =>
               Possessed(path[u])'
      BY <3>4, <3>6, <3>7, <3>8, <3>9 DEF TypeOK
    <3>13. \A u \in Threads : \A s \in doomed'[u] : Outdated(s)'
      BY <3>2, <3>4 DEF TypeOK
    <3>14. \A s \in Stamp : first'[s] <= server'
      BY <3>4
    <3>15. server' # 0
      BY <3>4
    <3>16. QED
      BY <3>10, <3>11, <3>12, <3>13, <3>14, <3>15
  <2>7. CASE Reopen(t)
    BY <2>7, OpenedFile, NothingLost DEF Reopen, TypeOK
  <2>8. CASE Close(t)
    BY <2>8, FolderUnchanged DEF Close, TypeOK
  <2>9. CASE List(t)
    BY <2>9, FolderUnchanged DEF List, Surplus, Outdated, TypeOK
  <2>10. CASE Skip(t) \/ Find(t)
    BY <2>10, FolderUnchanged DEF Skip, Find, TypeOK
  <2>11. CASE Remove(t)
    <3>1. PICK r \in doomed[t] :
            /\ r \in files
            /\ files' = files \ {r}
            /\ doomed' = [doomed EXCEPT ![t] = @ \ {r}]
      BY <2>11 DEF Remove
    <3>2. Outdated(r)
      BY <3>1
    <3>3. \A s \in Stamp : Outdated(s) => Outdated(s)'
      BY <3>1, <3>2, OutdatedByFewer
    <3>4. pc' = [pc EXCEPT ![t] = "pruning"]
          /\ UNCHANGED <<server, content, path, fetched, first>>
      BY <2>11 DEF Remove
    <3>5. \A s \in Stamp : Possessed(s) => Possessed(s)'
      BY <3>1, <3>2, <3>3, <3>4 DEF Possessed
    <3>6. \A u \in Threads : doomed'[u] \subseteq doomed[u]
      BY <3>1 DEF TypeOK
    <3>7. pc[t] = "removing"
      BY <2>11 DEF Remove
    <3>8. QED
      BY <3>3, <3>4, <3>5, <3>6, <3>7 DEF TypeOK
  <2>12. CASE RemoveFails(t) \/ Answer(t)
    BY <2>12, FolderUnchanged DEF RemoveFails, Answer, TypeOK
  <2>13. QED
    BY <1>3, <2>1, <2>2, <2>3, <2>4, <2>5, <2>6, <2>7, <2>8, <2>9, <2>10, <2>11,
       <2>12 DEF Step
<1>4. CASE UNCHANGED vars
  BY <1>4, FolderUnchanged DEF vars
<1>5. QED
  BY <1>1, <1>2, <1>3, <1>4 DEF Next

(* The inductive invariant holds in every state.                           *)
THEOREM Invariance == Spec => []IInv
BY InitIInv, NextIInv, PTL DEF Spec

-----------------------------------------------------------------------------
(* However calls overlap, a backup is removed only while Keep newer ones   *)
(* stay.                                                                   *)
THEOREM PruneKeepsNewestHolds == Spec => PruneKeepsNewest
<1>1. IInv /\ [Next]_vars => [\A s \in files \ files' :
        Cardinality({g \in files' : g > s}) >= Keep]_vars
  <2> SUFFICES ASSUME IInv, [Next]_vars, NEW s \in files \ files'
               PROVE  Cardinality({g \in files' : g > s}) >= Keep
    OBVIOUS
  <2>1. PICK t \in Threads : Remove(t)
    BY DEF Next, vars, folderVars, worldVars, callVars, Tick, ServerChanges, Step,
           Start, OpenFile, Open, OpenFails, Release, Fetch, Replace, DownloadFails,
           Reopen, ReopenFails, Close, List, Skip, Find, RemoveFails, Answer
  <2>2. s \in doomed[t] /\ files' = files \ {s}
    BY <2>1 DEF Remove
  <2>3. Cardinality(Newer(s)) >= Keep
    BY <2>2 DEF IInv, Outdated
  <2>4. {g \in files' : g > s} = Newer(s)
    <3>1. s \in Nat
      BY StampsAreNaturals DEF IInv, TypeOK
    <3>2. QED
      BY <2>2, <3>1 DEF Newer
  <2>5. QED
    BY <2>3, <2>4
<1>2. QED
  BY <1>1, Invariance, PTL DEF Spec, PruneKeepsNewest

(* A call that is answered 200 has a backup that is at least as new as the *)
(* server's collection was when the first call of its second was made,     *)
(* unless Keep newer backups have come in the meantime.                    *)
THEOREM AnsweredIsPossessedHolds == Spec => AnsweredIsPossessed
<1>1. IInv /\ [Next]_vars =>
        [\A t \in Threads : Answer(t) => Possessed(path[t])]_vars
  BY DEF IInv, Answer
<1>2. QED
  BY <1>1, Invariance, PTL DEF Spec, AnsweredIsPossessed

=============================================================================
