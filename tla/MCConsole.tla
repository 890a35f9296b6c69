------------------------------ MODULE MCConsole ----------------------------
(* One answer is right for both questions; names of two letters fill the buffer. *)
EXTENDS Console

AnswerVal == <<"a">>
============================================================================
