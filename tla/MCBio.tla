------------------------------- MODULE MCBio --------------------------------
(* A cache of fewer buffers than blocks. *)
EXTENDS Bio, TLC

Symmetry == Permutations(Procs) \cup Permutations(Blocks) \cup Permutations(Data)
=============================================================================
