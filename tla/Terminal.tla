------------------------------ MODULE Terminal -----------------------------
(***************************************************************************)
(* What the console promises its readers: a line can be edited until it is *)
(* complete, and then is read once, in order, and never changes again.     *)
(***************************************************************************)
EXTENDS Naturals, Sequences

CONSTANTS Letters, NL, EOT, Room

VARIABLES line,   \* what is being typed
          ready   \* what can be read

vars == <<line, ready>>

Init == line = << >> /\ ready = << >>

Erase == line' = (IF line = << >> THEN line ELSE SubSeq(line, 1, Len(line) - 1)) /\ UNCHANGED ready
EraseAll == line' = << >> /\ UNCHANGED ready

\* A character is added, and is lost when there is no room.
Add(c) ==
  LET all == Append(line, c) IN
  /\ Len(line) + Len(ready) < Room
  /\ IF c \in {NL, EOT} \/ Len(all) + Len(ready) = Room
     THEN line' = << >> /\ ready' = ready \o all
     ELSE line' = all /\ UNCHANGED ready

\* One read takes no more than a line.
Take(k) ==
  /\ k <= Len(ready) /\ \A i \in 1 .. k - 1 : ready[i] \notin {NL, EOT}
  /\ ready' = SubSeq(ready, k + 1, Len(ready))
  /\ UNCHANGED line

Next == Erase \/ EraseAll \/ (\E c \in Letters \cup {NL, EOT} : Add(c)) \/ (\E k \in 1 .. Room : Take(k))

Spec == Init /\ [][Next]_vars
============================================================================
