------------------------ MODULE MCCollectionHandle ------------------------
(* CollectionHandle for TLC, which is given its constants by the .cfg      *)
(* files.  Liveness is checked, so the threads are not declared symmetric. *)
EXTENDS CollectionHandle

=============================================================================
