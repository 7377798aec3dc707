---------------------------- MODULE MCAutosync ----------------------------
(* Autosync for TLC, which is given its constants by the .cfg files.       *)
EXTENDS Autosync

=============================================================================
