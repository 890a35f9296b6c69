---------------------------- MODULE MCSleepLock ----------------------------
(* Three processes competing for one sleep lock. *)
EXTENDS SleepLock, TLC

Symmetry == Permutations(Procs)
============================================================================
