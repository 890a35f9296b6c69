------------------------------- MODULE MCPipe -------------------------------
(* A pipe of two bytes whose counters wrap around at four. *)
EXTENDS Pipe, TLC

Symmetry == Permutations(Procs) \cup Permutations(Bytes)
=============================================================================
