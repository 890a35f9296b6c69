------------------------------- MODULE MCLog -------------------------------
(* Two processes, two blocks, and a log with room for both. *)
EXTENDS Log
============================================================================
