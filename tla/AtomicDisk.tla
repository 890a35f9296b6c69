----------------------------- MODULE AtomicDisk -----------------------------
(***************************************************************************)
(* What the logging layer promises its callers (the head comment of log.c  *)
(* and the commit point of write_head): operations write blocks, the disk  *)
(* moves from one quiescent contents of the blocks to a later one in a     *)
(* single step, and a crash falls back to the last of them.                *)
(***************************************************************************)
CONSTANTS Procs, Blocks, Data, Blank

VARIABLES
  durable,    \* contents that a reboot will find
  current,    \* contents that readers see now
  active      \* processes between begin_op and end_op

vars == <<durable, current, active>>

Init ==
  /\ durable = [b \in Blocks |-> Blank]
  /\ current = durable
  /\ active = {}

BeginOp(p) ==
  /\ p \notin active
  /\ active' = active \cup {p}
  /\ UNCHANGED <<durable, current>>

Write(p, b, d) ==
  /\ p \in active
  /\ current' = [current EXCEPT ![b] = d]
  /\ UNCHANGED <<durable, active>>

EndOp(p) ==
  /\ p \in active
  /\ active' = active \ {p}
  /\ UNCHANGED <<durable, current>>

\* Only complete operations become durable, and all of them at once.
Commit ==
  /\ active = {}
  /\ durable' = current
  /\ UNCHANGED <<current, active>>

Crash ==
  /\ current' = durable
  /\ active' = {}
  /\ UNCHANGED durable

Next ==
  \/ \E p \in Procs : BeginOp(p) \/ EndOp(p)
  \/ \E p \in Procs, b \in Blocks, d \in Data : Write(p, b, d)
  \/ Commit
  \/ Crash

Spec == Init /\ [][Next]_vars
=============================================================================
