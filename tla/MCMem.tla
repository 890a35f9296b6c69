------------------------------- MODULE MCMem -------------------------------
(* Small machines: four pages of user memory, two units to a page. *)
EXTENDS Mem, TLC

IncrementsVal == {-9, -4, 3}
Symmetry == Permutations(Procs \ {initproc})
============================================================================
