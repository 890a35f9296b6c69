------------------------------ MODULE MCBlocks -----------------------------
(* Two processes, the root directory and one file, on a disk with six data   *)
(* blocks whose bits are in two blocks of the bitmap.                         *)
EXTENDS Blocks, TLC

Symmetry == Permutations(Procs)
============================================================================
