------------------------------ MODULE MCInode -------------------------------
(* Inodes and cache entries enough for files that are open and unlinked. *)
EXTENDS Inode, TLC

Symmetry == Permutations(Procs) \cup Permutations(Names) \cup Permutations(Inums)
=============================================================================
