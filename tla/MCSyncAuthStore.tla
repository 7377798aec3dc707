-------------------------- MODULE MCSyncAuthStore --------------------------
(* SyncAuthStore for TLC: the threads are interchangeable.                 *)
EXTENDS SyncAuthStore, TLC

ThreadSymmetry == Permutations(Threads)

=============================================================================
