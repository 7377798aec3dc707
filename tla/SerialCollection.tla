------------------------- MODULE SerialCollection -------------------------
(***************************************************************************)
(* What CollectionHandle promises, without saying how: one collection on   *)
(* which every update takes effect in a single step (no update is computed *)
(* from a state that another one has since replaced), which a full sync    *)
(* replaces or publishes as a whole, and which nothing touches once it has *)
(* been closed.  CollectionHandle.tla is shown to implement it.            *)
(***************************************************************************)
CONSTANT Update   \* the updates that requests can make

VARIABLES
  open,      \* the collection is open
  content,   \* the updates the collection holds
  remote     \* the updates the sync server's copy holds

vars == <<open, content, remote>>

Init ==
  /\ open = TRUE
  /\ content = {}
  /\ remote \in SUBSET Update

(* One request's update, all of it or none of it. *)
Apply(u) ==
  /\ open
  /\ content' = content \union {u}
  /\ UNCHANGED <<open, remote>>

(* A full download: the server's copy takes the place of this one. *)
Adopt ==
  /\ open
  /\ content' = remote
  /\ UNCHANGED <<open, remote>>

(* A full upload: this copy takes the place of the server's. *)
Publish ==
  /\ open
  /\ remote' = content
  /\ UNCHANGED <<open, content>>

Close ==
  /\ open
  /\ open' = FALSE
  /\ UNCHANGED <<content, remote>>

Next ==
  \/ \E u \in Update : Apply(u)
  \/ Adopt
  \/ Publish
  \/ Close

Spec == Init /\ [][Next]_vars

=============================================================================
