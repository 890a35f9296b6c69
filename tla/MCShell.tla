------------------------------- MODULE MCShell -----------------------------
(* All lines of up to three characters and some longer ones, then a simple command. *)
EXTENDS Shell

Chars == symbols \cup {Space, Letter}

Longer ==
  { <<"a", "|", "a", "|", "a">>,
    <<"a", "|", "a", "&", ";", "a">>,
    <<"(", "a", "|", "a", ")", "|", "a">>,
    <<"(", "a", ";", "a", ")", "|", "a">>,
    <<"(", "a", "&", ")", "|", "a">>,
    <<"a", "<", "a", ">", "a", "a", "|", "a">>,
    <<"(", "a", "|", "a", ">", "a", ")", "<", "a", "a">>,
    <<"a", ">", ">", "a">>,
    <<"a", ">", "a", ">", "a", "a">>,
    <<"a", "a", " ", "a">>,
    <<"a", " ", "a", " ", "a">>,
    <<"(", "a", ")", "a">>,
    <<"a", "(", "a", ")">>,
    <<"a", ">", "|", "a">>,
    <<"a", "&", ";", "a">>,
    <<"(", "(", "a", ")", "|", "(", "a", ")", ")">>,
    <<"a", "|", "a", " ", ">", "a", "<", "a", ";", "a">> }

FirstLinesVal == UNION {[1 .. n -> Chars] : n \in 0 .. 3} \cup Longer
LaterLinesVal == {<<Letter>>}
============================================================================
