----------------------- MODULE SyncAuthStoreProofs -----------------------
(***************************************************************************)
(* Proofs about SyncAuthStore, for any threads, endpoints, and number of   *)
(* logins, endpoint changes and restarts.                                  *)
(***************************************************************************)
EXTENDS SyncAuthStore, TLAPS

(* What a restart loads is a token; none, if the file is not readable.     *)
LEMMA LoadType ==
  ASSUME TypeOK
  PROVE  Load \in Token /\ file.json.endpoint \in Shards
BY BoundsAssumption DEF BoundsAssumption, TypeOK, Load, File, Json, Token

(* Type correctness.                                                       *)
LEMMA InitTypeOK == Init => TypeOK
<1> SUFFICES ASSUME Init
             PROVE  TypeOK
  OBVIOUS
<1>1. 0 \in Token /\ 0 \in 0 .. MaxMoves /\ 0 \in 0 .. MaxRestarts
  BY BoundsAssumption DEF BoundsAssumption, Token
<1>2. PICK e \in Shards :
        /\ endpoint = [k \in Token |-> e]
        /\ file = [kind |-> "absent", json |-> [token |-> 0, endpoint |-> e]]
  BY DEF Init
<1>3. file.json = [token |-> 0, endpoint |-> e] /\ file.json \in Json
  BY <1>1, <1>2 DEF Json
<1>4. file \in File
  BY <1>2, <1>3 DEF File
<1>5. QED
  BY <1>1, <1>2, <1>3, <1>4 DEF Init, TypeOK

LEMMA NextTypeOK == TypeOK /\ [Next]_vars => TypeOK'
<1> SUFFICES ASSUME TypeOK, [Next]_vars
             PROVE  TypeOK'
  OBVIOUS
<1> USE BoundsAssumption DEF BoundsAssumption, TypeOK, Token, File, Json
<1>1. ASSUME NEW t \in Threads, Step(t)
      PROVE  TypeOK'
  <2>1. CASE StartLogin(t)
    BY <2>1 DEF StartLogin, Goto, Starts, opVars, boundVars, overlapVars
  <2>2. CASE EnsureLoggedIn(t)
    BY <2>2 DEF EnsureLoggedIn, StartLogin, Goto, Starts, opVars, boundVars, overlapVars
  <2>3. CASE MintToken(t)
    BY <2>3 DEF MintToken, Goto, overlapVars
  <2>4. CASE LoginFails(t)
    BY <2>4 DEF LoginFails, Goto, opVars, boundVars, overlapVars
  <2>5. CASE OpenFile(t)
    BY <2>5 DEF OpenFile, Goto, Current, boundVars, overlapVars
  <2>6. CASE WriteFile(t)
    BY <2>6 DEF WriteFile, Goto, opVars, boundVars, overlapVars
  <2>7. CASE Chmod(t)
    BY <2>7 DEF Chmod, Goto, Absent, opVars, boundVars, overlapVars
  <2>8. CASE Publish(t)
    BY <2>8 DEF Publish, Goto, opVars, boundVars, overlapVars
  <2>9. CASE StartSync(t)
    BY <2>9 DEF StartSync, Goto, Starts, boundVars, overlapVars
  <2>10. CASE SyncStays(t)
    BY <2>10 DEF SyncStays, Goto, opVars, boundVars, overlapVars
  <2>11. CASE SyncMoves(t)
    BY <2>11 DEF SyncMoves, Goto, opVars, overlapVars
  <2>12. CASE StartLogout(t)
    BY <2>12 DEF StartLogout, Goto, Starts, Absent, opVars, boundVars, overlapVars
  <2>13. CASE RemoveFile(t)
    BY <2>13 DEF RemoveFile, Goto, Absent, boundVars, overlapVars
  <2>14. CASE RemoveFails(t)
    BY <2>14 DEF RemoveFails, Goto, Absent, opVars, boundVars, overlapVars
  <2>15. CASE Forget(t)
    BY <2>15 DEF Forget, Goto, opVars, boundVars, overlapVars
  <2>16. QED
    BY <1>1, <2>1, <2>2, <2>3, <2>4, <2>5, <2>6, <2>7, <2>8,
       <2>9, <2>10, <2>11, <2>12, <2>13, <2>14, <2>15 DEF Step
<1>2. CASE Restart
  BY <1>2, LoadType DEF Restart, opVars, overlapVars
<1>3. CASE UNCHANGED vars
  BY <1>3 DEF vars, opVars, boundVars, overlapVars
<1>4. QED
  BY <1>1, <1>2, <1>3 DEF Next

(* The variables hold values of their types: in particular what the file   *)
(* holds is one token's JSON or is not readable.                           *)
THEOREM TypeCorrect == Spec => []TypeOK
BY InitTypeOK, NextTypeOK, PTL DEF Spec

-----------------------------------------------------------------------------
(* The inductive invariant.                                                *)

LEMMA InitIInv == Init => IInv
BY InitTypeOK DEF Init, IInv, AloneInv, SerialInv, ApartInv, Readable, Saving, LoggingOut

(* Of two requests under way at most one is alone: the one that starts.    *)
LEMMA StartsAlone ==
  ASSUME NEW t \in Threads, NEW o, Starts(t, o)
  PROVE  \A u \in Threads : alone'[u] =>
           u = t /\ \A v \in Threads \ {t} : pc[v] = "idle"
BY DEF Starts

(* A request that overlaps nothing so far is alone.                        *)
LEMMA StartsSerial ==
  ASSUME TypeOK, NEW t \in Threads, NEW o, Starts(t, o)
  PROVE  serial' => /\ serial
                    /\ \A u \in Threads : pc[u] = "idle"
                    /\ alone'[t]
BY DEF Starts, Quiet

LEMMA NextAlone == TypeOK /\ AloneInv /\ [Next]_vars => AloneInv'
<1> SUFFICES ASSUME TypeOK, AloneInv, [Next]_vars, TypeOK'
             PROVE  AloneInv'
  BY NextTypeOK
<1> USE DEF AloneInv, TypeOK, File, Readable, Absent, Current
<1>1. ASSUME NEW t \in Threads, Step(t)
      PROVE  AloneInv'
  <2>1. CASE StartLogin(t)
    <3>1. Starts(t, "login")
      BY <2>1 DEF StartLogin
    <3>2. \A u \in Threads : alone'[u] =>
            u = t /\ \A v \in Threads \ {t} : pc[v] = "idle"
      BY <3>1, StartsAlone
    <3>3. QED
      BY <2>1, <3>2 DEF StartLogin, Goto, opVars, boundVars
  <2>2. CASE EnsureLoggedIn(t)
    <3>1. Starts(t, "login")
      BY <2>2 DEF EnsureLoggedIn, StartLogin
    <3>2. \A u \in Threads : alone'[u] =>
            u = t /\ \A v \in Threads \ {t} : pc[v] = "idle"
      BY <3>1, StartsAlone
    <3>3. QED
      BY <2>2, <3>2 DEF EnsureLoggedIn, StartLogin, Goto, opVars, boundVars
  <2>3. CASE MintToken(t)
    BY <2>3 DEF MintToken, Goto, overlapVars
  <2>4. CASE LoginFails(t)
    BY <2>4 DEF LoginFails, Goto, opVars, boundVars, overlapVars
  <2>5. CASE OpenFile(t)
    BY <2>5 DEF OpenFile, Goto, boundVars, overlapVars
  <2>6. CASE WriteFile(t)
    BY <2>6 DEF WriteFile, Goto, opVars, boundVars, overlapVars
  <2>7. CASE Chmod(t)
    BY <2>7 DEF Chmod, Goto, opVars, boundVars, overlapVars
  <2>8. CASE Publish(t)
    BY <2>8 DEF Publish, Goto, opVars, boundVars, overlapVars
  <2>9. CASE StartSync(t)
    <3>1. Starts(t, "sync")
      BY <2>9 DEF StartSync
    <3>2. \A u \in Threads : alone'[u] =>
            u = t /\ \A v \in Threads \ {t} : pc[v] = "idle"
      BY <3>1, StartsAlone
    <3>3. QED
      BY <2>9, <3>2 DEF StartSync, Goto, opVars, boundVars
  <2>10. CASE SyncStays(t)
    BY <2>10 DEF SyncStays, Goto, opVars, boundVars, overlapVars
  <2>11. CASE SyncMoves(t)
    BY <2>11 DEF SyncMoves, Goto, opVars, overlapVars
  <2>12. CASE StartLogout(t)
    <3>1. Starts(t, "logout")
      BY <2>12 DEF StartLogout
    <3>2. \A u \in Threads : alone'[u] =>
            u = t /\ \A v \in Threads \ {t} : pc[v] = "idle"
      BY <3>1, StartsAlone
    <3>3. QED
      BY <2>12, <3>2 DEF StartLogout, Goto, opVars, boundVars
  <2>13. CASE RemoveFile(t)
    BY <2>13 DEF RemoveFile, Goto, boundVars, overlapVars
  <2>14. CASE RemoveFails(t)
    BY <2>14 DEF RemoveFails, Goto, opVars, boundVars, overlapVars
  <2>15. CASE Forget(t)
    BY <2>15 DEF Forget, Goto, opVars, boundVars, overlapVars
  <2>16. QED
    BY <1>1, <2>1, <2>2, <2>3, <2>4, <2>5, <2>6, <2>7, <2>8,
       <2>9, <2>10, <2>11, <2>12, <2>13, <2>14, <2>15 DEF Step
<1>2. CASE Restart
  BY <1>2 DEF Restart, opVars, overlapVars
<1>3. CASE UNCHANGED vars
  BY <1>3 DEF vars, opVars, boundVars, overlapVars
<1>4. QED
  BY <1>1, <1>2, <1>3 DEF Next

LEMMA NextSerial == IInv /\ [Next]_vars => SerialInv'
<1> SUFFICES ASSUME IInv, [Next]_vars, TypeOK', AloneInv', serial'
             PROVE  SerialInv'
  BY NextTypeOK, NextAlone DEF IInv, SerialInv
<1> USE DEF IInv, AloneInv, SerialInv, TypeOK, Token, File, Json, Readable,
            Absent, Current, Saving
<1>1. ASSUME NEW t \in Threads, Step(t)
      PROVE  SerialInv'
  <2>1. CASE StartLogin(t)
    <3>1. Starts(t, "login")
      BY <2>1 DEF StartLogin
    <3>2. /\ serial
          /\ \A u \in Threads : pc[u] = "idle"
          /\ alone'[t]
      BY <3>1, StartsSerial
    <3>3. QED
      BY <2>1, <3>2 DEF StartLogin, Goto, opVars, boundVars
  <2>2. CASE EnsureLoggedIn(t)
    <3>1. Starts(t, "login")
      BY <2>2 DEF EnsureLoggedIn, StartLogin
    <3>2. /\ serial
          /\ \A u \in Threads : pc[u] = "idle"
          /\ alone'[t]
      BY <3>1, StartsSerial
    <3>3. QED
      BY <2>2, <3>2 DEF EnsureLoggedIn, StartLogin, Goto, opVars, boundVars
  <2>3. CASE MintToken(t)
    BY <2>3 DEF MintToken, Goto, overlapVars
  <2>4. CASE LoginFails(t)
    BY <2>4 DEF LoginFails, Goto, opVars, boundVars, overlapVars
  <2>5. CASE OpenFile(t)
    BY <2>5 DEF OpenFile, Goto, boundVars, overlapVars
  <2>6. CASE WriteFile(t)
    (* Alone, it writes all of its JSON into an empty file.                 *)
    <3>1. serial /\ pc[t] = "write" /\ alone[t]
      BY <2>6 DEF WriteFile, overlapVars
    <3>2. held[t] # 0
      BY <3>1
    <3>3. file' = [kind |-> "whole", json |-> data[t]]
      BY <2>6, <3>1 DEF WriteFile
    <3>4. data[t] = [token |-> held[t], endpoint |-> endpoint[held[t]]]
      BY <3>1
    <3>5. file'.json.token # 0
      BY <3>2, <3>3, <3>4
    <3>6. pc'[t] = "chmod" /\ \A u \in Threads : pc'[u] = pc[u] \/ u = t
      BY <2>6 DEF WriteFile, Goto
    <3>7. QED
      BY <2>6, <3>1, <3>2, <3>5, <3>6 DEF WriteFile, opVars, overlapVars
  <2>7. CASE Chmod(t)
    BY <2>7 DEF Chmod, Goto, opVars, boundVars, overlapVars
  <2>8. CASE Publish(t)
    BY <2>8 DEF Publish, Goto, opVars, boundVars, overlapVars
  <2>9. CASE StartSync(t)
    <3>1. Starts(t, "sync")
      BY <2>9 DEF StartSync
    <3>2. /\ serial
          /\ \A u \in Threads : pc[u] = "idle"
          /\ alone'[t]
      BY <3>1, StartsSerial
    <3>3. QED
      BY <2>9, <3>2 DEF StartSync, Goto, opVars, boundVars
  <2>10. CASE SyncStays(t)
    BY <2>10 DEF SyncStays, Goto, opVars, boundVars, overlapVars
  <2>11. CASE SyncMoves(t)
    BY <2>11 DEF SyncMoves, Goto, opVars, overlapVars
  <2>12. CASE StartLogout(t)
    <3>1. Starts(t, "logout")
      BY <2>12 DEF StartLogout
    <3>2. /\ serial
          /\ \A u \in Threads : pc[u] = "idle"
          /\ alone'[t]
      BY <3>1, StartsSerial
    <3>3. QED
      BY <2>12, <3>2 DEF StartLogout, Goto, opVars, boundVars
  <2>13. CASE RemoveFile(t)
    BY <2>13 DEF RemoveFile, Goto, boundVars, overlapVars
  <2>14. CASE RemoveFails(t)
    BY <2>14 DEF RemoveFails, Goto, opVars, boundVars, overlapVars
  <2>15. CASE Forget(t)
    (* Alone, it has found the file gone. *)
    <3>1. serial /\ pc[t] = "forget" /\ alone[t] /\ mem' = 0 /\ file' = file
      BY <2>15 DEF Forget, overlapVars
    <3>2. Absent(file) /\ \A u \in Threads \ {t} : pc[u] = "idle"
      BY <3>1
    <3>3. ~Readable(file') /\ \A u \in Threads : pc'[u] = "idle"
      BY <2>15, <3>1, <3>2 DEF Forget, Goto
    <3>4. QED
      BY <3>1, <3>3
  <2>16. QED
    BY <1>1, <2>1, <2>2, <2>3, <2>4, <2>5, <2>6, <2>7, <2>8,
       <2>9, <2>10, <2>11, <2>12, <2>13, <2>14, <2>15 DEF Step
<1>2. CASE Restart
  BY <1>2 DEF Restart, Load, opVars, overlapVars
<1>3. CASE UNCHANGED vars
  BY <1>3 DEF vars, opVars, boundVars, overlapVars
<1>4. QED
  BY <1>1, <1>2, <1>3 DEF Next

(* A login or a sync that keeps apart from the logouts finds none of them  *)
(* under way, and a logout finds nothing else.                             *)
LEMMA StartsApart ==
  ASSUME TypeOK, NEW t \in Threads, NEW o, Starts(t, o), apart'
  PROVE  /\ apart /\ pc[t] = "idle"
         /\ \A u \in Threads :
              pc[u] # "idle" => (pc[u] \in LoggingOut <=> o = "logout")
BY DEF Starts

LEMMA NextApart == TypeOK /\ ApartInv /\ [Next]_vars => ApartInv'
<1> SUFFICES ASSUME TypeOK, ApartInv, [Next]_vars, TypeOK', apart'
             PROVE  ApartInv'
  BY NextTypeOK DEF ApartInv
<1> USE DEF ApartInv, TypeOK, File, Readable, Absent, LoggingOut
<1>1. ASSUME NEW t \in Threads, Step(t)
      PROVE  ApartInv'
  <2>1. CASE StartLogin(t)
    <3>1. Starts(t, "login")
      BY <2>1 DEF StartLogin
    <3>2. apart /\ \A u \in Threads : pc[u] \notin LoggingOut
      BY <3>1, StartsApart
    <3>3. QED
      BY <2>1, <3>2 DEF StartLogin, Goto
  <2>2. CASE EnsureLoggedIn(t)
    <3>1. Starts(t, "login")
      BY <2>2 DEF EnsureLoggedIn, StartLogin
    <3>2. apart /\ \A u \in Threads : pc[u] \notin LoggingOut
      BY <3>1, StartsApart
    <3>3. QED
      BY <2>2, <3>2 DEF EnsureLoggedIn, StartLogin, Goto
  <2>3. CASE MintToken(t)
    BY <2>3 DEF MintToken, Goto, overlapVars
  <2>4. CASE LoginFails(t)
    BY <2>4 DEF LoginFails, Goto, overlapVars
  <2>5. CASE OpenFile(t)
    BY <2>5 DEF OpenFile, Goto, overlapVars
  <2>6. CASE WriteFile(t)
    <3>1. apart /\ wanted /\ wanted' /\ pc'[t] = "chmod"
          /\ \A u \in Threads : pc[u] \notin LoggingOut
      BY <2>6 DEF WriteFile, Goto, overlapVars
    <3>2. \A u \in Threads : pc'[u] \notin LoggingOut
      BY <2>6, <3>1 DEF WriteFile, Goto
    <3>3. QED
      BY <3>1, <3>2
  <2>7. CASE Chmod(t)
    BY <2>7 DEF Chmod, Goto, overlapVars
  <2>8. CASE Publish(t)
    BY <2>8 DEF Publish, Goto, overlapVars
  <2>9. CASE StartSync(t)
    <3>1. Starts(t, "sync")
      BY <2>9 DEF StartSync
    <3>2. apart /\ \A u \in Threads : pc[u] \notin LoggingOut
      BY <3>1, StartsApart
    <3>3. wanted
      BY <2>9, <3>2 DEF StartSync
    <3>4. QED
      BY <2>9, <3>2, <3>3 DEF StartSync, Goto
  <2>10. CASE SyncStays(t)
    BY <2>10 DEF SyncStays, Goto, overlapVars
  <2>11. CASE SyncMoves(t)
    BY <2>11 DEF SyncMoves, Goto, overlapVars
  <2>12. CASE StartLogout(t)
    <3>1. Starts(t, "logout")
      BY <2>12 DEF StartLogout
    <3>2. apart /\ \A u \in Threads : pc[u] \in LoggingOut \union {"idle"}
      BY <3>1, StartsApart
    <3>3. QED
      BY <2>12, <3>2 DEF StartLogout, Goto
  <2>13. CASE RemoveFile(t)
    BY <2>13 DEF RemoveFile, Goto, overlapVars
  <2>14. CASE RemoveFails(t)
    BY <2>14 DEF RemoveFails, Goto, overlapVars
  <2>15. CASE Forget(t)
    BY <2>15 DEF Forget, Goto, overlapVars
  <2>16. QED
    BY <1>1, <2>1, <2>2, <2>3, <2>4, <2>5, <2>6, <2>7, <2>8,
       <2>9, <2>10, <2>11, <2>12, <2>13, <2>14, <2>15 DEF Step
<1>2. CASE Restart
  BY <1>2 DEF Restart, Load, overlapVars
<1>3. CASE UNCHANGED vars
  BY <1>3 DEF vars, overlapVars
<1>4. QED
  BY <1>1, <1>2, <1>3 DEF Next

LEMMA NextIInv == IInv /\ [Next]_vars => IInv'
BY NextTypeOK, NextAlone, NextSerial, NextApart DEF IInv

(* The inductive invariant holds in every state.                           *)
THEOREM Invariance == Spec => []IInv
BY InitIInv, NextIInv, PTL DEF Spec

(* A save that overlaps no other request leaves in the file exactly the    *)
(* token it puts in memory, whatever came before it.                       *)
THEOREM SerialSaveAgreesHolds == Spec => SerialSaveAgrees
<1>1. IInv /\ [Next]_vars
        => [\A t \in Threads : Publish(t) /\ alone[t] =>
              Readable(file) /\ file.json = Current(t)]_vars
  BY DEF IInv, AloneInv, Publish
<1>2. QED
  BY <1>1, Invariance, PTL DEF Spec, SerialSaveAgrees

(* A logout that overlaps no other request leaves no file.                 *)
THEOREM SerialLogoutForgetsHolds == Spec => SerialLogoutForgets
<1>1. IInv /\ [Next]_vars
        => [\A t \in Threads : Forget(t) /\ alone[t] => Absent(file)]_vars
  BY DEF IInv, AloneInv, Forget
<1>2. QED
  BY <1>1, Invariance, PTL DEF Spec, SerialLogoutForgets

(* As long as no two requests have overlapped, a restart between requests  *)
(* brings back the token that was in use, with its endpoint.               *)
THEOREM SerialRestartKeepsLoginHolds == Spec => SerialRestartKeepsLogin
<1>1. IInv /\ [Next]_vars
        => [Restart /\ Quiet /\ serial =>
              mem' = mem /\ (mem # 0 => endpoint'[mem] = endpoint[mem])]_vars
  <2> SUFFICES ASSUME IInv, Restart, Quiet, serial
               PROVE  mem' = mem /\ (mem # 0 => endpoint'[mem] = endpoint[mem])
    OBVIOUS
  <2>1. IF mem = 0 THEN ~Readable(file)
        ELSE Readable(file)
             /\ file.json = [token |-> mem, endpoint |-> endpoint[mem]]
    BY DEF IInv, SerialInv, Quiet, Saving
  <2>2. CASE mem = 0
    BY <2>1, <2>2 DEF Restart, Load
  <2>3. CASE mem # 0
    BY <2>1, <2>3 DEF Restart, Load, IInv, TypeOK
  <2>4. QED
    BY <2>2, <2>3
<1>2. QED
  BY <1>1, Invariance, PTL DEF Spec, SerialRestartKeepsLogin

(* A logout sticks until somebody asks to log in, whatever else has        *)
(* overlapped, as long as no logout has overlapped a login or a sync.      *)
THEOREM ApartLogoutSticksHolds == Spec => []ApartLogoutSticks
<1>1. IInv => ApartLogoutSticks
  BY DEF IInv, ApartInv, ApartLogoutSticks
<1>2. QED
  BY <1>1, Invariance, PTL

=============================================================================
