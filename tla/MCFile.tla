------------------------------- MODULE MCFile ------------------------------
(* Two processes with two descriptors each share three open files. *)
EXTENDS File, TLC

ModesVal == {{}}
Symmetry == Permutations(Slots)
============================================================================
