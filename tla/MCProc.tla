------------------------------- MODULE MCProc -------------------------------
(* Small instances of the process table.  The slots are scanned in order, so *)
(* only the CPUs are interchangeable.                                        *)
EXTENDS Proc, TLC

Symmetry == Permutations(CPUs)
=============================================================================
