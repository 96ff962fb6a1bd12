-------------------------- MODULE MCSyncScheduler --------------------------
(* Small instances of SyncScheduler for TLC; the configurations choose the actors. *)
EXTENDS SyncScheduler, TLC

LogSymmetry == Permutations(Logs)
=============================================================================
