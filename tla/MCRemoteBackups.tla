-------------------------- MODULE MCRemoteBackups --------------------------
(* RemoteBackups for TLC: the threads are interchangeable.                 *)
EXTENDS RemoteBackups, TLC

ThreadSymmetry == Permutations(Threads)

=============================================================================
