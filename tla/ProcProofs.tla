----------------------------- MODULE ProcProofs ----------------------------
(***************************************************************************)
(* Proofs about the process table, for any number of slots and CPUs, and   *)
(* about the sleep lock that sleep() and wakeup() carry, for any set of    *)
(* processes.                                                              *)
(*                                                                         *)
(* IInv is the inductive invariant.  It adds to the properties of Proc     *)
(* that a slot which fork has taken belongs to one fork (ForkInv), that    *)
(* init lives and a free slot has no parent (ParentInv), that pids grow    *)
(* (PidInv), on which channel wait() sleeps (WaitInv), and where in the    *)
(* ring each of the last exits is (HistInv).  LockInv is that of the lock, *)
(* whose state is apart from that of the table.                            *)
(***************************************************************************)
EXTENDS Proc, TLAPS

InFork(p) == pc[p] \in {"fork_copy", "fork_run"}

\* The slot that a fork has taken is EMBRYO, and is the slot of no other fork.
ForkInv ==
  \A p \in Slots : InFork(p) =>
    /\ state[p] \in {"RUNNABLE", "RUNNING"}
    /\ np[p] \in Slots
    /\ state[np[p]] = "EMBRYO"
    /\ parent[np[p]] = IF pc[p] = "fork_run" THEN p ELSE 0
    /\ \A q \in Slots : InFork(q) /\ np[q] = np[p] => q = p

\* init lives for ever, and whoever else lives has a parent that does.
ParentInv ==
  /\ Live(initproc) /\ state[initproc] # "ZOMBIE"
  /\ pc[initproc] # "exit_close"
  /\ parent[initproc] = 0
  /\ \A p \in Slots : state[p] = "UNUSED" => parent[p] = 0
  /\ \A p \in Slots \ {initproc} :
       Live(p) => /\ parent[p] \in Slots /\ parent[p] # p
                  /\ Live(parent[p]) /\ state[parent[p]] # "ZOMBIE"

\* No pid has been given out twice.
PidInv == PidsUnique /\ \A p \in Slots : pid[p] < nextpid

\* Whoever sleeps in wait() sleeps on its own address, and has to.
WaitInv ==
  \A p \in Slots : state[p] = "SLEEPING" /\ pc[p] = "wait"
    => chan[p] = p /\ Children(p) # {} /\ Zombies(p) = {} /\ ~killed[p]

\* The entry of the ring k places before the next one to be written
Back(k) == IF history_index >= k THEN history_index - k ELSE history_index - k + MAX_HISTORY

\* Going back through the ring is going back through the exits.
HistInv ==
  /\ history_count = IF Len(exited) < MAX_HISTORY THEN Len(exited) ELSE MAX_HISTORY
  /\ history_count < MAX_HISTORY => history_index = history_count
  /\ \A j \in 0 .. history_count - 1 :
       process_history[Back(j + 1)] = exited[Len(exited) - j]

IInv ==
  TypeOK /\ RunningOnOneCPU /\ ForkInv /\ ParentInv /\ PidInv /\ WaitInv /\ HistInv

----------------------------------------------------------------------------

\* The slots, with 0 for none, and init among them.
LEMMA SlotFacts ==
  /\ initproc \in Slots /\ 0 \notin Slots /\ Slots \subseteq Nat
  /\ 0 .. NPROC = Slots \cup {0}
  BY TableAssumption DEF Slots, initproc

\* The names of states and of locations.
LEMMA NameFacts ==
  /\ \A s \in {"UNUSED", "EMBRYO", "SLEEPING", "RUNNABLE", "RUNNING", "ZOMBIE"} : s \in States
  /\ \A l \in {"none", "forkret", "user", "fork_copy", "fork_run", "presleep", "sleep",
               "exit_close", "wait", "zombie"} : l \in Locations
  BY DEF States, Locations

\* The entry after x of a ring of length M (exit).
LEMMA RingNext ==
  ASSUME NEW M \in Nat \ {0}, NEW x \in 0 .. M - 1
  PROVE  (x + 1) % M = IF x + 1 = M THEN 0 ELSE x + 1
  OBVIOUS

\* The entry i - 1 places after x (sys_gethistory).
LEMMA RingRead ==
  ASSUME NEW M \in Nat \ {0}, NEW x \in 0 .. M - 1, NEW i \in 1 .. M
  PROVE  (x + i - 1) % M = IF x + i - 1 < M THEN x + i - 1 ELSE x + i - 1 - M
  OBVIOUS

\* The last n elements of a sequence.
LEMMA Suffix ==
  ASSUME NEW S, NEW s \in Seq(S), NEW n \in Nat, n <= Len(s)
  PROVE  SubSeq(s, Len(s) - n + 1, Len(s)) = [i \in 1 .. n |-> s[Len(s) - n + i]]
  OBVIOUS

\* userinit() establishes the invariant.
LEMMA InitInv == Init => IInv
<1> SUFFICES ASSUME Init PROVE IInv
  OBVIOUS
<1>1. TypeOK /\ RunningOnOneCPU /\ ForkInv /\ ParentInv /\ PidInv /\ WaitInv
  BY TableAssumption, HistoryAssumption
  DEF Init, TypeOK, RunningOnOneCPU, ForkInv, InFork, ParentInv, PidInv, PidsUnique,
      WaitInv, Live, Slots, initproc, States, Locations, Children, Zombies
<1>2. HistInv
  BY HistoryAssumption DEF Init, HistInv
<1> QED
  BY <1>1, <1>2 DEF IInv

\* Every step keeps the types: in particular fork's np is a slot when it is used.
LEMMA TypeStep ==
  ASSUME TypeOK, ForkInv, [Next]_vars
  PROVE  TypeOK'
<1>1. CASE UNCHANGED vars
  BY <1>1 DEF vars, TypeOK
<1>2. ASSUME NEW c \in CPUs, SchedAcquire(c)
      PROVE  TypeOK'
  <2>1. scan' \in [CPUs -> 1 .. NPROC + 1]
    BY <1>2, TableAssumption DEF SchedAcquire, TypeOK
  <2> QED
    BY <2>1, <1>2 DEF SchedAcquire, tab, hist, TypeOK
<1>3. ASSUME NEW c \in CPUs, SchedRelease(c)
      PROVE  TypeOK'
  BY <1>3 DEF SchedRelease, tab, hist, TypeOK
<1>4. ASSUME NEW c \in CPUs, NEW p \in Slots, ExitBegin(c, p)
      PROVE  TypeOK'
  <2>1. history_index' \in 0 .. MAX_HISTORY - 1 /\ history_count' \in 0 .. MAX_HISTORY
    BY <1>4, HistoryAssumption, SMTT(30) DEF ExitBegin, TypeOK
  <2>2. process_history' \in [0 .. MAX_HISTORY - 1 -> Nat] /\ exited' \in Seq(Nat)
    BY <1>4, HistoryAssumption, SMTT(30) DEF ExitBegin, TypeOK
  <2> QED
    BY <2>1, <2>2, <1>4, NameFacts, Zenon DEF ExitBegin, tab, TypeOK
<1> USE SlotFacts, NameFacts, HistoryAssumption DEF TypeOK, ForkInv, InFork
<1>5. ASSUME NEW c \in CPUs, NEW q \in Slots, SchedRun(c, q)
      PROVE  TypeOK'
  <2>1. scan' \in [CPUs -> 1 .. NPROC + 1]
    BY <1>5, TableAssumption DEF SchedRun, TypeOK, Slots
  <2>2. pc' \in [Slots -> Locations]
    BY <1>5, NameFacts DEF SchedRun, TypeOK, Resumed
  <2> QED
    BY <2>1, <2>2, <1>5, SlotFacts, NameFacts, Zenon DEF SchedRun, hist, TypeOK
<1>6. ASSUME NEW c \in CPUs, NEW p \in Slots, Yield(c, p)
      PROVE  TypeOK'
  BY <1>6, Zenon DEF Yield, Calls, At, Sched, hist
<1>7. ASSUME NEW c \in CPUs, NEW p \in Slots, ForkFail(c, p)
      PROVE  TypeOK'
  BY <1>7, Zenon DEF ForkFail, hist
<1>8. ASSUME NEW c \in CPUs, NEW p \in Slots, ForkCopy(c, p)
      PROVE  TypeOK'
  BY <1>8, Zenon DEF ForkCopy, hist
<1>9. ASSUME NEW c \in CPUs, NEW p \in Slots, ForkRun(c, p)
      PROVE  TypeOK'
  BY <1>9, Zenon DEF ForkRun, At, hist
<1>10. ASSUME NEW c \in CPUs, NEW p \in Slots, ExitZombie(c, p)
      PROVE  TypeOK'
  BY <1>10, Zenon DEF ExitZombie, At, Sched, Wakeup1, hist
<1>11. ASSUME NEW c \in CPUs, NEW p \in Slots, WaitFail(c, p)
      PROVE  TypeOK'
  BY <1>11, Zenon DEF WaitFail, Children, Zombies, tab, hist
<1>12. ASSUME NEW c \in CPUs, NEW p \in Slots, WaitSleep(c, p)
      PROVE  TypeOK'
  BY <1>12, Zenon DEF WaitSleep, InWait, Calls, At, Sched, Children, Zombies, hist
<1>13. ASSUME NEW c \in CPUs, NEW p \in Slots, NEW z \in Slots, WaitReap(c, p, z)
      PROVE  TypeOK'
  BY <1>13, Zenon DEF WaitReap, InWait, Calls, At, First, Children, Zombies, hist
<1>14. ASSUME NEW c \in CPUs, NEW p \in Slots, SleepCheck(c, p)
      PROVE  TypeOK'
  BY <1>14, Zenon DEF SleepCheck, Calls, At, tab, hist
<1>15. ASSUME NEW c \in CPUs, NEW p \in Slots, NEW n \in Slots, ForkAlloc(c, p, n)
      PROVE  TypeOK'
  <2>1. nextpid' \in Nat /\ pid' \in [Slots -> Nat]
    BY <1>15 DEF ForkAlloc, TypeOK
  <2>2. np' \in [Slots -> 0 .. NPROC]
    BY <1>15, SlotFacts DEF ForkAlloc, TypeOK
  <2> QED
    BY <2>1, <2>2, <1>15, NameFacts, Zenon DEF ForkAlloc, hist, TypeOK
<1>16. ASSUME NEW c \in CPUs, NEW p \in Slots, NEW ch \in Chans, Sleep(c, p, ch)
      PROVE  TypeOK'
  BY <1>16, Zenon DEF Sleep, At, Sched, hist
<1>17. ASSUME NEW c \in CPUs, NEW p \in Slots, NEW k \in KillPids, NEW q \in Slots, Kill(c, p, k, q)
      PROVE  TypeOK'
  BY <1>17, Zenon DEF Kill, Calls, At, First, hist
<1>18. ASSUME NEW ch \in Chans, Wakeup(ch)
      PROVE  TypeOK'
  BY <1>18, Zenon DEF Wakeup, Wakeup1, hist
<1> HIDE DEF TypeOK, ForkInv, InFork
<1> QED
  BY <1>1, <1>2, <1>3, <1>4, <1>5, <1>6, <1>7, <1>8, <1>9, <1>10, <1>11, <1>12, <1>13,
     <1>14, <1>15, <1>16, <1>17, <1>18, Zenon
  DEF Next, SchedStep, Finish, Call

\* A scheduler switches to a slot that is on no CPU, and sched() leaves none behind.
LEMMA OneCPUStep ==
  ASSUME TypeOK, RunningOnOneCPU, ForkInv, [Next]_vars
  PROVE  RunningOnOneCPU'
<1>1. CASE UNCHANGED vars
  BY <1>1 DEF vars, RunningOnOneCPU
<1>2. ASSUME NEW c \in CPUs, SchedAcquire(c)
      PROVE  RunningOnOneCPU'
  BY <1>2 DEF SchedAcquire, tab, hist, RunningOnOneCPU
<1>3. ASSUME NEW c \in CPUs, SchedRelease(c)
      PROVE  RunningOnOneCPU'
  BY <1>3 DEF SchedRelease, tab, hist, RunningOnOneCPU
<1>4. /\ state \in [Slots -> States]
      /\ proc \in [CPUs -> Slots \cup {0}]
      /\ pc \in [Slots -> Locations]
  BY SlotFacts DEF TypeOK
<1> USE <1>4, SlotFacts DEF RunningOnOneCPU, ForkInv, InFork
<1>5. ASSUME NEW c \in CPUs, NEW q \in Slots, SchedRun(c, q)
      PROVE  RunningOnOneCPU'
  BY <1>5 DEF SchedRun, hist, First, Ahead, Resumed
<1>6. ASSUME NEW c \in CPUs, NEW p \in Slots, Yield(c, p)
      PROVE  RunningOnOneCPU'
  BY <1>6 DEF Yield, Calls, At, Sched, hist
<1>7. ASSUME NEW c \in CPUs, NEW p \in Slots, ForkFail(c, p)
      PROVE  RunningOnOneCPU'
  BY <1>7 DEF ForkFail, hist
<1>8. ASSUME NEW c \in CPUs, NEW p \in Slots, ForkCopy(c, p)
      PROVE  RunningOnOneCPU'
  BY <1>8 DEF ForkCopy, hist
<1>9. ASSUME NEW c \in CPUs, NEW p \in Slots, ForkRun(c, p)
      PROVE  RunningOnOneCPU'
  BY <1>9 DEF ForkRun, At, hist
<1>10. ASSUME NEW c \in CPUs, NEW p \in Slots, ExitZombie(c, p)
      PROVE  RunningOnOneCPU'
  BY <1>10 DEF ExitZombie, At, Sched, Wakeup1, hist
<1>11. ASSUME NEW c \in CPUs, NEW p \in Slots, WaitFail(c, p)
      PROVE  RunningOnOneCPU'
  BY <1>11 DEF WaitFail, Children, Zombies, tab, hist
<1>12. ASSUME NEW c \in CPUs, NEW p \in Slots, WaitSleep(c, p)
      PROVE  RunningOnOneCPU'
  BY <1>12 DEF WaitSleep, InWait, Calls, At, Sched, Children, Zombies, hist
<1>13. ASSUME NEW c \in CPUs, NEW p \in Slots, NEW z \in Slots, WaitReap(c, p, z)
      PROVE  RunningOnOneCPU'
  BY <1>13 DEF WaitReap, InWait, Calls, At, First, Children, Zombies, hist
<1>14. ASSUME NEW c \in CPUs, NEW p \in Slots, SleepCheck(c, p)
      PROVE  RunningOnOneCPU'
  BY <1>14 DEF SleepCheck, Calls, At, tab, hist
<1>15. ASSUME NEW c \in CPUs, NEW p \in Slots, ExitBegin(c, p)
      PROVE  RunningOnOneCPU'
  BY <1>15 DEF ExitBegin, At, tab
<1>16. ASSUME NEW c \in CPUs, NEW p \in Slots, NEW n \in Slots, ForkAlloc(c, p, n)
      PROVE  RunningOnOneCPU'
  BY <1>16, SMTT(30) DEF ForkAlloc, Calls, At, First, hist
<1>17. ASSUME NEW c \in CPUs, NEW p \in Slots, NEW ch \in Chans, Sleep(c, p, ch)
      PROVE  RunningOnOneCPU'
  BY <1>17 DEF Sleep, At, Sched, hist
<1>18. ASSUME NEW c \in CPUs, NEW p \in Slots, NEW k \in KillPids, NEW q \in Slots, Kill(c, p, k, q)
      PROVE  RunningOnOneCPU'
  BY <1>18 DEF Kill, Calls, At, First, hist
<1>19. ASSUME NEW ch \in Chans, Wakeup(ch)
      PROVE  RunningOnOneCPU'
  BY <1>19 DEF Wakeup, Wakeup1, hist
<1> HIDE DEF RunningOnOneCPU, ForkInv, InFork
<1> QED
  BY <1>1, <1>2, <1>3, <1>4, <1>5, <1>6, <1>7, <1>8, <1>9, <1>10, <1>11, <1>12, <1>13,
     <1>14, <1>15, <1>16, <1>17, <1>18, <1>19, Zenon
  DEF Next, SchedStep, Finish, Call

\* Nobody else touches a slot that fork has taken, though fork works on it without
\* ptable.lock.
LEMMA ForkStep ==
  ASSUME TypeOK, RunningOnOneCPU, ForkInv, ParentInv, [Next]_vars
  PROVE  ForkInv'
<1>1. CASE UNCHANGED vars
  BY <1>1 DEF vars, ForkInv, InFork
<1>2. ASSUME NEW c \in CPUs, SchedAcquire(c)
      PROVE  ForkInv'
  BY <1>2 DEF SchedAcquire, tab, hist, ForkInv, InFork
<1>3. ASSUME NEW c \in CPUs, SchedRelease(c)
      PROVE  ForkInv'
  BY <1>3 DEF SchedRelease, tab, hist, ForkInv, InFork
<1>4. /\ state \in [Slots -> States]
      /\ proc \in [CPUs -> Slots \cup {0}]
      /\ pc \in [Slots -> Locations]
      /\ np \in [Slots -> Slots \cup {0}]
      /\ parent \in [Slots -> Slots \cup {0}]
  BY SlotFacts, SMTT(30) DEF TypeOK
<1> USE <1>4, SlotFacts DEF RunningOnOneCPU, ForkInv, InFork, ParentInv
<1>5. ASSUME NEW c \in CPUs, NEW q \in Slots, SchedRun(c, q)
      PROVE  ForkInv'
  BY <1>5 DEF SchedRun, hist, First, Ahead, Resumed
<1>6. ASSUME NEW c \in CPUs, NEW p \in Slots, Yield(c, p)
      PROVE  ForkInv'
  BY <1>6 DEF Yield, Calls, At, Sched, hist
<1>7. ASSUME NEW c \in CPUs, NEW p \in Slots, ForkFail(c, p)
      PROVE  ForkInv'
  BY <1>7, SMTT(30) DEF ForkFail, hist
<1>8. ASSUME NEW c \in CPUs, NEW p \in Slots, ForkCopy(c, p)
      PROVE  ForkInv'
  BY <1>8, SMTT(30) DEF ForkCopy, hist
<1>9. ASSUME NEW c \in CPUs, NEW p \in Slots, ForkRun(c, p)
      PROVE  ForkInv'
  BY <1>9 DEF ForkRun, At, hist
<1>10. ASSUME NEW c \in CPUs, NEW p \in Slots, ExitZombie(c, p)
      PROVE  ForkInv'
  BY <1>10, SMTT(30) DEF ExitZombie, At, Sched, Wakeup1, hist
<1>11. ASSUME NEW c \in CPUs, NEW p \in Slots, WaitFail(c, p)
      PROVE  ForkInv'
  BY <1>11 DEF WaitFail, Children, Zombies, tab, hist
<1>12. ASSUME NEW c \in CPUs, NEW p \in Slots, WaitSleep(c, p)
      PROVE  ForkInv'
  BY <1>12 DEF WaitSleep, InWait, Calls, At, Sched, Children, Zombies, hist
<1>13. ASSUME NEW c \in CPUs, NEW p \in Slots, NEW z \in Slots, WaitReap(c, p, z)
      PROVE  ForkInv'
  BY <1>13 DEF WaitReap, InWait, Calls, At, First, Children, Zombies, hist
<1>14. ASSUME NEW c \in CPUs, NEW p \in Slots, SleepCheck(c, p)
      PROVE  ForkInv'
  BY <1>14 DEF SleepCheck, Calls, At, tab, hist
<1>15. ASSUME NEW c \in CPUs, NEW p \in Slots, ExitBegin(c, p)
      PROVE  ForkInv'
  BY <1>15, SMTT(30) DEF ExitBegin, At, tab
<1>16. ASSUME NEW c \in CPUs, NEW p \in Slots, NEW n \in Slots, ForkAlloc(c, p, n)
      PROVE  ForkInv'
  BY <1>16 DEF ForkAlloc, Calls, At, First, hist
<1>17. ASSUME NEW c \in CPUs, NEW p \in Slots, NEW ch \in Chans, Sleep(c, p, ch)
      PROVE  ForkInv'
  BY <1>17 DEF Sleep, At, Sched, hist
<1>18. ASSUME NEW c \in CPUs, NEW p \in Slots, NEW k \in KillPids, NEW q \in Slots, Kill(c, p, k, q)
      PROVE  ForkInv'
  BY <1>18, SMTT(30) DEF Kill, Calls, At, First, hist
<1>19. ASSUME NEW ch \in Chans, Wakeup(ch)
      PROVE  ForkInv'
  BY <1>19 DEF Wakeup, Wakeup1, hist
<1> HIDE DEF RunningOnOneCPU, ForkInv, InFork, ParentInv
<1> QED
  BY <1>1, <1>2, <1>3, <1>4, <1>5, <1>6, <1>7, <1>8, <1>9, <1>10, <1>11, <1>12, <1>13,
     <1>14, <1>15, <1>16, <1>17, <1>18, <1>19, Zenon
  DEF Next, SchedStep, Finish, Call

\* exit() hands the children to init before it becomes a zombie.
LEMMA ParentStep ==
  ASSUME TypeOK, RunningOnOneCPU, ForkInv, ParentInv, [Next]_vars
  PROVE  ParentInv'
<1>1. CASE UNCHANGED vars
  BY <1>1 DEF vars, ParentInv, Live
<1>2. ASSUME NEW c \in CPUs, SchedAcquire(c)
      PROVE  ParentInv'
  BY <1>2 DEF SchedAcquire, tab, hist, ParentInv, Live
<1>3. ASSUME NEW c \in CPUs, SchedRelease(c)
      PROVE  ParentInv'
  BY <1>3 DEF SchedRelease, tab, hist, ParentInv, Live
<1>4. /\ state \in [Slots -> States]
      /\ proc \in [CPUs -> Slots \cup {0}]
      /\ pc \in [Slots -> Locations]
      /\ np \in [Slots -> Slots \cup {0}]
      /\ parent \in [Slots -> Slots \cup {0}]
  BY SlotFacts DEF TypeOK
<1> USE <1>4, SlotFacts DEF RunningOnOneCPU, ForkInv, InFork, ParentInv, Live
<1>5. ASSUME NEW c \in CPUs, NEW q \in Slots, SchedRun(c, q)
      PROVE  ParentInv'
  BY <1>5, SMTT(30) DEF SchedRun, hist, First, Ahead, Resumed
<1>6. ASSUME NEW c \in CPUs, NEW p \in Slots, Yield(c, p)
      PROVE  ParentInv'
  BY <1>6 DEF Yield, Calls, At, Sched, hist
<1>7. ASSUME NEW c \in CPUs, NEW p \in Slots, ForkFail(c, p)
      PROVE  ParentInv'
  BY <1>7 DEF ForkFail, hist
<1>8. ASSUME NEW c \in CPUs, NEW p \in Slots, ForkCopy(c, p)
      PROVE  ParentInv'
  BY <1>8, SMTT(30) DEF ForkCopy, hist
<1>9. ASSUME NEW c \in CPUs, NEW p \in Slots, ForkRun(c, p)
      PROVE  ParentInv'
  BY <1>9, SMTT(30) DEF ForkRun, At, hist
<1>10. ASSUME NEW c \in CPUs, NEW p \in Slots, ExitZombie(c, p)
      PROVE  ParentInv'
  BY <1>10, SMTT(30) DEF ExitZombie, At, Sched, Wakeup1, hist
<1>11. ASSUME NEW c \in CPUs, NEW p \in Slots, WaitFail(c, p)
      PROVE  ParentInv'
  BY <1>11 DEF WaitFail, Children, Zombies, tab, hist
<1>12. ASSUME NEW c \in CPUs, NEW p \in Slots, WaitSleep(c, p)
      PROVE  ParentInv'
  BY <1>12 DEF WaitSleep, InWait, Calls, At, Sched, Children, Zombies, hist
<1>13. ASSUME NEW c \in CPUs, NEW p \in Slots, NEW z \in Slots, WaitReap(c, p, z)
      PROVE  ParentInv'
  BY <1>13, SMTT(30) DEF WaitReap, InWait, Calls, At, First, Children, Zombies, hist
<1>14. ASSUME NEW c \in CPUs, NEW p \in Slots, SleepCheck(c, p)
      PROVE  ParentInv'
  BY <1>14 DEF SleepCheck, Calls, At, tab, hist
<1>15. ASSUME NEW c \in CPUs, NEW p \in Slots, ExitBegin(c, p)
      PROVE  ParentInv'
  BY <1>15 DEF ExitBegin, At, tab
<1>16. ASSUME NEW c \in CPUs, NEW p \in Slots, NEW n \in Slots, ForkAlloc(c, p, n)
      PROVE  ParentInv'
  BY <1>16, SMTT(30) DEF ForkAlloc, Calls, At, First, hist
<1>17. ASSUME NEW c \in CPUs, NEW p \in Slots, NEW ch \in Chans, Sleep(c, p, ch)
      PROVE  ParentInv'
  BY <1>17 DEF Sleep, At, Sched, hist
<1>18. ASSUME NEW c \in CPUs, NEW p \in Slots, NEW k \in KillPids, NEW q \in Slots, Kill(c, p, k, q)
      PROVE  ParentInv'
  BY <1>18, SMTT(30) DEF Kill, Calls, At, First, hist
<1>19. ASSUME NEW ch \in Chans, Wakeup(ch)
      PROVE  ParentInv'
  BY <1>19, SMTT(30) DEF Wakeup, Wakeup1, hist
<1> HIDE DEF RunningOnOneCPU, ForkInv, InFork, ParentInv, Live
<1> QED
  BY <1>1, <1>2, <1>3, <1>4, <1>5, <1>6, <1>7, <1>8, <1>9, <1>10, <1>11, <1>12, <1>13,
     <1>14, <1>15, <1>16, <1>17, <1>18, <1>19, Zenon
  DEF Next, SchedStep, Finish, Call

\* allocproc's pid is larger than all others.
LEMMA PidStep ==
  ASSUME TypeOK, RunningOnOneCPU, ForkInv, PidInv, [Next]_vars
  PROVE  PidInv'
<1>1. CASE UNCHANGED vars
  BY <1>1 DEF vars, PidInv, PidsUnique
<1>2. ASSUME NEW c \in CPUs, SchedAcquire(c)
      PROVE  PidInv'
  BY <1>2 DEF SchedAcquire, tab, hist, PidInv, PidsUnique
<1>3. ASSUME NEW c \in CPUs, SchedRelease(c)
      PROVE  PidInv'
  BY <1>3 DEF SchedRelease, tab, hist, PidInv, PidsUnique
<1>4. /\ state \in [Slots -> States]
      /\ pid \in [Slots -> Nat]
      /\ proc \in [CPUs -> Slots \cup {0}]
      /\ np \in [Slots -> Slots \cup {0}]
      /\ nextpid \in Nat
      /\ pc \in [Slots -> Locations]
  BY SlotFacts, SMTT(30) DEF TypeOK
<1> USE <1>4, SlotFacts DEF RunningOnOneCPU, ForkInv, InFork, PidInv, PidsUnique
<1>5. ASSUME NEW c \in CPUs, NEW q \in Slots, SchedRun(c, q)
      PROVE  PidInv'
  BY <1>5 DEF SchedRun, hist, First, Ahead, Resumed
<1>6. ASSUME NEW c \in CPUs, NEW p \in Slots, Yield(c, p)
      PROVE  PidInv'
  BY <1>6 DEF Yield, Calls, At, Sched, hist
<1>7. ASSUME NEW c \in CPUs, NEW p \in Slots, ForkFail(c, p)
      PROVE  PidInv'
  BY <1>7, SMTT(30) DEF ForkFail, hist
<1>8. ASSUME NEW c \in CPUs, NEW p \in Slots, ForkCopy(c, p)
      PROVE  PidInv'
  BY <1>8 DEF ForkCopy, hist
<1>9. ASSUME NEW c \in CPUs, NEW p \in Slots, ForkRun(c, p)
      PROVE  PidInv'
  BY <1>9 DEF ForkRun, At, hist
<1>10. ASSUME NEW c \in CPUs, NEW p \in Slots, ExitZombie(c, p)
      PROVE  PidInv'
  BY <1>10, SMTT(30) DEF ExitZombie, At, Sched, Wakeup1, hist
<1>11. ASSUME NEW c \in CPUs, NEW p \in Slots, WaitFail(c, p)
      PROVE  PidInv'
  BY <1>11 DEF WaitFail, Children, Zombies, tab, hist
<1>12. ASSUME NEW c \in CPUs, NEW p \in Slots, WaitSleep(c, p)
      PROVE  PidInv'
  BY <1>12 DEF WaitSleep, InWait, Calls, At, Sched, Children, Zombies, hist
<1>13. ASSUME NEW c \in CPUs, NEW p \in Slots, NEW z \in Slots, WaitReap(c, p, z)
      PROVE  PidInv'
  BY <1>13, SMTT(30) DEF WaitReap, InWait, Calls, At, First, Children, Zombies, hist
<1>14. ASSUME NEW c \in CPUs, NEW p \in Slots, SleepCheck(c, p)
      PROVE  PidInv'
  BY <1>14 DEF SleepCheck, Calls, At, tab, hist
<1>15. ASSUME NEW c \in CPUs, NEW p \in Slots, ExitBegin(c, p)
      PROVE  PidInv'
  BY <1>15, SMTT(30) DEF ExitBegin, At, tab
<1>16. ASSUME NEW c \in CPUs, NEW p \in Slots, NEW n \in Slots, ForkAlloc(c, p, n)
      PROVE  PidInv'
  BY <1>16 DEF ForkAlloc, Calls, At, First, hist
<1>17. ASSUME NEW c \in CPUs, NEW p \in Slots, NEW ch \in Chans, Sleep(c, p, ch)
      PROVE  PidInv'
  BY <1>17 DEF Sleep, At, Sched, hist
<1>18. ASSUME NEW c \in CPUs, NEW p \in Slots, NEW k \in KillPids, NEW q \in Slots, Kill(c, p, k, q)
      PROVE  PidInv'
  BY <1>18, SMTT(30) DEF Kill, Calls, At, First, hist
<1>19. ASSUME NEW ch \in Chans, Wakeup(ch)
      PROVE  PidInv'
  BY <1>19, SMTT(30) DEF Wakeup, Wakeup1, hist
<1> HIDE DEF RunningOnOneCPU, ForkInv, InFork, PidInv, PidsUnique
<1> QED
  BY <1>1, <1>2, <1>3, <1>4, <1>5, <1>6, <1>7, <1>8, <1>9, <1>10, <1>11, <1>12, <1>13,
     <1>14, <1>15, <1>16, <1>17, <1>18, <1>19, Zenon
  DEF Next, SchedStep, Finish, Call

\* Whoever becomes a zombie, or is killed, has woken the one that waits.
LEMMA WaitStep ==
  ASSUME TypeOK, RunningOnOneCPU, ForkInv, ParentInv, WaitInv, [Next]_vars
  PROVE  WaitInv'
<1>1. CASE UNCHANGED vars
  BY <1>1 DEF vars, WaitInv, Children, Zombies
<1>2. ASSUME NEW c \in CPUs, SchedAcquire(c)
      PROVE  WaitInv'
  BY <1>2 DEF SchedAcquire, tab, hist, WaitInv, Children, Zombies
<1>3. ASSUME NEW c \in CPUs, SchedRelease(c)
      PROVE  WaitInv'
  BY <1>3 DEF SchedRelease, tab, hist, WaitInv, Children, Zombies
<1>4. /\ state \in [Slots -> States]
      /\ proc \in [CPUs -> Slots \cup {0}]
      /\ pc \in [Slots -> Locations]
      /\ np \in [Slots -> Slots \cup {0}]
      /\ parent \in [Slots -> Slots \cup {0}]
      /\ chan \in [Slots -> Chans \cup Slots \cup {0}]
      /\ killed \in [Slots -> BOOLEAN]
  BY SlotFacts, SMTT(30) DEF TypeOK
<1> USE <1>4, SlotFacts, ChanAssumption
        DEF RunningOnOneCPU, ForkInv, InFork, ParentInv, WaitInv, Live, Children,
            Zombies
<1>5. ASSUME NEW c \in CPUs, NEW q \in Slots, SchedRun(c, q)
      PROVE  WaitInv'
  BY <1>5, SMTT(30) DEF SchedRun, hist, First, Ahead, Resumed
<1>6. ASSUME NEW c \in CPUs, NEW p \in Slots, Yield(c, p)
      PROVE  WaitInv'
  BY <1>6 DEF Yield, Calls, At, Sched, hist
<1>7. ASSUME NEW c \in CPUs, NEW p \in Slots, ForkFail(c, p)
      PROVE  WaitInv'
  BY <1>7 DEF ForkFail, hist
<1>8. ASSUME NEW c \in CPUs, NEW p \in Slots, ForkCopy(c, p)
      PROVE  WaitInv'
  BY <1>8, SMTT(30) DEF ForkCopy, hist
<1>9. ASSUME NEW c \in CPUs, NEW p \in Slots, ForkRun(c, p)
      PROVE  WaitInv'
  BY <1>9 DEF ForkRun, At, hist
<1>10. ASSUME NEW c \in CPUs, NEW p \in Slots, ExitZombie(c, p)
      PROVE  WaitInv'
  BY <1>10, SMTT(30) DEF ExitZombie, At, Sched, Wakeup1, hist
<1>11. ASSUME NEW c \in CPUs, NEW p \in Slots, WaitFail(c, p)
      PROVE  WaitInv'
  BY <1>11, SMTT(30) DEF WaitFail, Children, Zombies, tab, hist
<1>12. ASSUME NEW c \in CPUs, NEW p \in Slots, WaitSleep(c, p)
      PROVE  WaitInv'
  BY <1>12 DEF WaitSleep, InWait, Calls, At, Sched, Children, Zombies, hist
<1>13. ASSUME NEW c \in CPUs, NEW p \in Slots, NEW z \in Slots, WaitReap(c, p, z)
      PROVE  WaitInv'
  BY <1>13, SMTT(30) DEF WaitReap, InWait, Calls, At, First, Children, Zombies, hist
<1>14. ASSUME NEW c \in CPUs, NEW p \in Slots, SleepCheck(c, p)
      PROVE  WaitInv'
  BY <1>14, SMTT(30) DEF SleepCheck, Calls, At, tab, hist
<1>15. ASSUME NEW c \in CPUs, NEW p \in Slots, ExitBegin(c, p)
      PROVE  WaitInv'
  BY <1>15 DEF ExitBegin, At, tab
<1>16. ASSUME NEW c \in CPUs, NEW p \in Slots, NEW n \in Slots, ForkAlloc(c, p, n)
      PROVE  WaitInv'
  BY <1>16, SMTT(30) DEF ForkAlloc, Calls, At, First, hist
<1>17. ASSUME NEW c \in CPUs, NEW p \in Slots, NEW ch \in Chans, Sleep(c, p, ch)
      PROVE  WaitInv'
  BY <1>17, SMTT(30) DEF Sleep, At, Sched, hist
<1>18. ASSUME NEW c \in CPUs, NEW p \in Slots, NEW k \in KillPids, NEW q \in Slots, Kill(c, p, k, q)
      PROVE  WaitInv'
  BY <1>18 DEF Kill, Calls, At, First, hist
<1>19. ASSUME NEW ch \in Chans, Wakeup(ch)
      PROVE  WaitInv'
  BY <1>19 DEF Wakeup, Wakeup1, hist
<1> HIDE DEF RunningOnOneCPU, ForkInv, InFork, ParentInv, WaitInv, Live, Children, Zombies
<1> QED
  BY <1>1, <1>2, <1>3, <1>4, <1>5, <1>6, <1>7, <1>8, <1>9, <1>10, <1>11, <1>12, <1>13,
     <1>14, <1>15, <1>16, <1>17, <1>18, <1>19, Zenon
  DEF Next, SchedStep, Finish, Call

\* exit() overwrites the oldest entry, and every other one moves one place back.
LEMMA HistStep ==
  ASSUME TypeOK, HistInv, [Next]_vars
  PROVE  HistInv'
<1>1. ASSUME NEW c \in CPUs, NEW p \in Slots, ExitBegin(c, p)
      PROVE  HistInv'
  <2> DEFINE L == Len(exited)
  <2>1. /\ pid[p] \in Nat /\ exited \in Seq(Nat) /\ L \in Nat
        /\ process_history \in [0 .. MAX_HISTORY - 1 -> Nat]
        /\ history_count \in 0 .. MAX_HISTORY
        /\ history_index \in 0 .. MAX_HISTORY - 1
        /\ MAX_HISTORY \in Nat \ {0}
    BY HistoryAssumption DEF TypeOK
  <2>2. history_index' = IF history_index + 1 = MAX_HISTORY THEN 0 ELSE history_index + 1
    <3>1. (history_index + 1) % MAX_HISTORY
            = IF history_index + 1 = MAX_HISTORY THEN 0 ELSE history_index + 1
      BY <2>1, RingNext, Zenon
    <3> QED
      BY <1>1, <3>1, Zenon DEF ExitBegin
  <2>3. /\ Len(exited') = L + 1 /\ exited'[L + 1] = pid[p]
        /\ \A i \in 1 .. L : exited'[i] = exited[i]
    BY <1>1, <2>1 DEF ExitBegin
  <2>4. history_count' = IF history_count < MAX_HISTORY THEN history_count + 1
                                                       ELSE history_count
    BY <1>1 DEF ExitBegin
  <2>5. /\ history_count' = IF L + 1 < MAX_HISTORY THEN L + 1 ELSE MAX_HISTORY
        /\ history_count' < MAX_HISTORY => history_index' = history_count'
    BY <2>1, <2>2, <2>4, SMTT(30) DEF HistInv
  <2>6. process_history'[history_index] = pid[p]
    BY <1>1, <2>1 DEF ExitBegin
  <2>7. \A i \in 0 .. MAX_HISTORY - 1 : i # history_index =>
          process_history'[i] = process_history[i]
    BY <1>1, <2>1 DEF ExitBegin
  <2>8. ASSUME NEW j \in 0 .. history_count' - 1
        PROVE  process_history'[Back(j + 1)'] = exited'[L + 1 - j]
    <3>1. CASE j = 0
      <4>1. Back(j + 1)' = history_index
        BY <3>1, <2>1, <2>2 DEF Back
      <4> QED
        BY <4>1, <3>1, <2>1, <2>3, <2>6
    <3>2. CASE j # 0
      <4>1. j - 1 \in 0 .. history_count - 1 /\ j < MAX_HISTORY /\ history_count <= L
        BY <3>2, <2>1, <2>4, <2>8 DEF HistInv
      <4>2. /\ Back(j + 1)' = Back(j) /\ Back(j) # history_index
            /\ Back(j) \in 0 .. MAX_HISTORY - 1
        BY <4>1, <2>1, <2>2, SMTT(30) DEF Back
      <4>3. process_history[Back((j - 1) + 1)] = exited[L - (j - 1)]
        BY <4>1 DEF HistInv
      <4>4. (j - 1) + 1 = j /\ L - (j - 1) = L + 1 - j /\ L + 1 - j \in 1 .. L
        BY <4>1, <3>2, <2>1
      <4> QED
        BY <4>2, <4>3, <4>4, <2>3, <2>7
    <3> QED
      BY <3>1, <3>2, SMTT(30)
  <2> QED
    BY <2>3, <2>5, <2>8 DEF HistInv
<1>2. CASE UNCHANGED hist
  BY <1>2, SMTT(30) DEF hist, HistInv, Back
<1>3. [Next]_vars => UNCHANGED hist \/ \E c \in CPUs, p \in Slots : ExitBegin(c, p)
  <2>1. ASSUME NEW c \in CPUs, NEW p \in Slots, Yield(c, p) \/ Finish(c, p)
        PROVE  UNCHANGED hist
    BY <2>1, SMTT(30)
    DEF Yield, Finish, ForkFail, ForkCopy, ForkRun, ExitZombie, WaitFail,
                WaitSleep, WaitReap
  <2>2. ASSUME NEW c \in CPUs, NEW p \in Slots, Call(c, p)
        PROVE  UNCHANGED hist \/ ExitBegin(c, p)
    BY <2>2, Zenon DEF Call, SleepCheck, ForkAlloc, Sleep, Kill
  <2>3. ASSUME NEW c \in CPUs, SchedStep(c)
        PROVE  UNCHANGED hist
    BY <2>3 DEF SchedStep, SchedAcquire, SchedRelease, SchedRun
  <2>4. ASSUME NEW ch \in Chans, Wakeup(ch)
        PROVE  UNCHANGED hist
    BY <2>4 DEF Wakeup
  <2>5. CASE UNCHANGED vars
    BY <2>5 DEF vars, hist
  <2> QED
    BY <2>1, <2>2, <2>3, <2>4, <2>5, SMTT(30) DEF Next
<1> QED
  BY <1>1, <1>2, <1>3


\* The invariant of the table and of the history holds in every behaviour.
THEOREM Invariance == Spec => []IInv
<1>1. IInv /\ [Next]_vars => IInv'
  BY TypeStep, OneCPUStep, ForkStep, ParentStep, PidStep, WaitStep, HistStep DEF IInv
<1> QED
  BY <1>1, InitInv, PTL DEF Spec

\* However many CPUs schedule, a slot is RUNNING if and only if exactly one CPU runs
\* it (scheduler, sched, exit).
THEOREM AlwaysOnOneCPU == Spec => []RunningOnOneCPU
<1>1. IInv => RunningOnOneCPU
  BY DEF IInv
<1> QED
  BY <1>1, Invariance, PTL

\* Every process but init has a parent that can wait for it, and no two processes
\* share a pid (fork, exit, wait).
THEOREM ParentAlwaysAlive == Spec => []ParentAlive
<1>1. IInv => ParentAlive
  BY DEF IInv, ParentInv, PidInv, ParentAlive
<1> QED
  BY <1>1, Invariance, PTL

\* No exit and no kill slips between the scan of wait() and its sleep.
THEOREM WaitNeverMissed == Spec => []WaitNotMissed
<1>1. IInv => WaitNotMissed
  BY DEF IInv, WaitInv, WaitNotMissed
<1> QED
  BY <1>1, Invariance, PTL

\* The index arithmetic of sys_gethistory() finds the last exits in order, for a
\* ring of any length.
LEMMA HistoryRead == TypeOK /\ HistInv => HistoryFaithful
<1> SUFFICES ASSUME TypeOK, HistInv PROVE HistoryFaithful
  OBVIOUS
<1> DEFINE L == Len(exited)
           n == history_count
           start == IF n < MAX_HISTORY THEN 0 ELSE history_index
<1>1. /\ exited \in Seq(Nat) /\ L \in Nat
      /\ n \in 0 .. MAX_HISTORY
      /\ history_index \in 0 .. MAX_HISTORY - 1
      /\ MAX_HISTORY \in Nat \ {0}
  BY HistoryAssumption DEF TypeOK
<1>2. n = (IF L < MAX_HISTORY THEN L ELSE MAX_HISTORY) /\ n <= L
  BY <1>1 DEF HistInv
<1>3. gethistory(MAX_HISTORY)
        = [i \in 1 .. n |-> process_history[(start + i - 1) % MAX_HISTORY]]
  BY <1>1 DEF gethistory
<1>4. LastExits(MAX_HISTORY) = SubSeq(exited, L - n + 1, L)
  BY <1>2, SMTT(30) DEF LastExits
<1>5. SubSeq(exited, L - n + 1, L) = [i \in 1 .. n |-> exited[L - n + i]]
  <2>1. \A m \in Nat : m <= L =>
          SubSeq(exited, L - m + 1, L) = [i \in 1 .. m |-> exited[L - m + i]]
    BY <1>1, Suffix, SMTT(30)
  <2>2. n \in Nat /\ n <= L
    BY <1>1, <1>2
  <2> QED
    BY <2>1, <2>2
<1>6. ASSUME NEW i \in 1 .. n
      PROVE  process_history[(start + i - 1) % MAX_HISTORY] = exited[L - n + i]
  <2>1. n - i \in 0 .. n - 1 /\ L - (n - i) = L - n + i
    BY <1>1
  <2>2. process_history[Back(n - i + 1)] = exited[L - n + i]
    BY <2>1, Zenon DEF HistInv
  <2>3. Back(n - i + 1) = (start + i - 1) % MAX_HISTORY
    <3>1. CASE n < MAX_HISTORY
      <4>1. history_index = n /\ start = 0
        BY <3>1 DEF HistInv
      <4>3. Back(n - i + 1) = i - 1
        BY <4>1, <1>1 DEF Back
      <4>2. (0 + i - 1) % MAX_HISTORY = i - 1
        <5>1. i \in 1 .. MAX_HISTORY /\ 0 \in 0 .. MAX_HISTORY - 1 /\ 0 + i - 1 < MAX_HISTORY
          BY <3>1, <1>1
        <5>2. (0 + i - 1) % MAX_HISTORY = 0 + i - 1
          BY <5>1, <1>1, RingRead, Zenon
        <5> QED
          BY <5>2
      <4> QED
        BY <4>1, <4>2, <4>3, Zenon
    <3>2. CASE n = MAX_HISTORY
      <4>1. i \in 1 .. MAX_HISTORY
        BY <3>2
      <4>2. (history_index + i - 1) % MAX_HISTORY
              = IF history_index + i - 1 < MAX_HISTORY THEN history_index + i - 1
                ELSE history_index + i - 1 - MAX_HISTORY
        BY <4>1, <1>1, RingRead, Zenon
      <4>3. start = history_index
        BY <3>2, <1>1
      <4>4. Back(n - i + 1) = IF history_index + i - 1 < MAX_HISTORY
                              THEN history_index + i - 1
                              ELSE history_index + i - 1 - MAX_HISTORY
        BY <3>2, <4>1, <1>1 DEF Back
      <4> QED
        BY <4>2, <4>3, <4>4, Zenon
    <3> QED
      BY <3>1, <3>2, <1>1
  <2> QED
    BY <2>2, <2>3
<1> QED
  BY <1>3, <1>4, <1>5, <1>6 DEF HistoryFaithful

\* A full read of the exit history gives the last MAX_HISTORY exits in order, across
\* every wrap-around of the ring (exit, sys_gethistory).
THEOREM HistoryAlwaysFaithful == Spec => []HistoryFaithful
<1>1. IInv => HistoryFaithful
  BY HistoryRead DEF IInv
<1> QED
  BY <1>1, Invariance, PTL

----------------------------------------------------------------------------
\* A sleep lock of its own processes, which excludes and misses no wakeup

CONSTANTS
  Lockers,      \* the processes that compete for the lock
  Nobody        \* none of them

VARIABLES lk_locked, lk_pid, lk_lk, lk_ptlock, lk_state, lk_killed, lk_pc

Lock == INSTANCE SleepLock
          WITH Procs <- Lockers, None <- Nobody, locked <- lk_locked, pid <- lk_pid, lk <- lk_lk,
               ptlock <- lk_ptlock, state <- lk_state, killed <- lk_killed, pc <- lk_pc

\* The assumption of SleepLock
NobodyApart == Nobody \notin Lockers

\* Who holds the two spinlocks can be read off the locations.
SpinHolders ==
  \A p \in Lockers :
    /\ lk_lk = p <=> lk_pc[p] \in {"acq_test", "slp_pt", "slp_rel",
                             "rel_clear", "rel_wake", "rel_unlk"}
    /\ lk_ptlock = p <=> lk_pc[p] \in {"slp_rel", "slp_off"}

\* A process that has seen the lock taken still finds it taken while it holds
\* lk->lk; once it has given lk->lk up, the lock is taken or a wakeup is due.
SleepersCovered ==
  /\ lk_locked => lk_pid \in Lockers
  /\ \A p \in Lockers : lk_state[p] = "SLEEPING" => lk_pc[p] = "asleep"
  /\ \A p \in Lockers : lk_pc[p] \in {"slp_pt", "slp_rel"} => lk_locked
  /\ \A p \in Lockers : lk_pc[p] = "slp_off" \/ lk_state[p] = "SLEEPING"
                        => lk_locked \/ \E q \in Lockers : lk_pc[q] = "rel_wake"

LockInv == Lock!TypeOK /\ SpinHolders /\ Lock!HoldingsleepExact /\ SleepersCovered

\* initsleeplock establishes the invariant of the lock.
LEMMA LockInit == NobodyApart /\ Lock!Init => LockInv
  BY DEF NobodyApart, Lock!Init, LockInv, Lock!TypeOK, SpinHolders, Lock!HoldingsleepExact, SleepersCovered,
         Lock!Locations, Lock!holdingsleep, Lock!Owns

\* Each step of acquiresleep, releasesleep, sleep, wakeup and kill keeps the types.
LEMMA LockTypes == Lock!TypeOK /\ [Lock!Next]_(Lock!vars) => Lock!TypeOK'
<1> SUFFICES ASSUME Lock!TypeOK, [Lock!Next]_(Lock!vars) PROVE Lock!TypeOK'
  OBVIOUS
<1> USE DEF Lock!TypeOK, Lock!Locations, Lock!Goto
<1>1. ASSUME NEW p \in Lockers, Lock!AcquireCall(p) PROVE Lock!TypeOK'
  BY <1>1 DEF Lock!AcquireCall
<1>2. ASSUME NEW p \in Lockers, Lock!Kill(p) PROVE Lock!TypeOK'
  BY <1>2 DEF Lock!Kill
<1>3. ASSUME NEW p \in Lockers, Lock!AcquireLk(p) PROVE Lock!TypeOK'
  BY <1>3 DEF Lock!AcquireLk
<1>4. ASSUME NEW p \in Lockers, Lock!AcquireTake(p) PROVE Lock!TypeOK'
  BY <1>4 DEF Lock!AcquireTake
<1>5. ASSUME NEW p \in Lockers, Lock!AcquireSleep(p) PROVE Lock!TypeOK'
  BY <1>5 DEF Lock!AcquireSleep
<1>6. ASSUME NEW p \in Lockers, Lock!SleepPtable(p) PROVE Lock!TypeOK'
  BY <1>6 DEF Lock!SleepPtable
<1>7. ASSUME NEW p \in Lockers, Lock!SleepRelease(p) PROVE Lock!TypeOK'
  BY <1>7 DEF Lock!SleepRelease
<1>8. ASSUME NEW p \in Lockers, Lock!SleepSched(p) PROVE Lock!TypeOK'
  BY <1>8 DEF Lock!SleepSched
<1>9. ASSUME NEW p \in Lockers, Lock!SleepReturn(p) PROVE Lock!TypeOK'
  BY <1>9 DEF Lock!SleepReturn
<1>10. ASSUME NEW p \in Lockers, Lock!ReleaseCall(p) PROVE Lock!TypeOK'
  BY <1>10 DEF Lock!ReleaseCall
<1>11. ASSUME NEW p \in Lockers, Lock!ReleaseLk(p) PROVE Lock!TypeOK'
  BY <1>11 DEF Lock!ReleaseLk
<1>12. ASSUME NEW p \in Lockers, Lock!ReleaseClear(p) PROVE Lock!TypeOK'
  BY <1>12 DEF Lock!ReleaseClear
<1>13. ASSUME NEW p \in Lockers, Lock!ReleaseWake(p) PROVE Lock!TypeOK'
  BY <1>13 DEF Lock!ReleaseWake, Lock!Wakeup1
<1>14. ASSUME NEW p \in Lockers, Lock!ReleaseUnlk(p) PROVE Lock!TypeOK'
  BY <1>14 DEF Lock!ReleaseUnlk
<1>15. CASE UNCHANGED Lock!vars
  BY <1>15 DEF Lock!vars
<1> QED
  BY <1>1, <1>2, <1>3, <1>4, <1>5, <1>6, <1>7, <1>8, <1>9, <1>10, <1>11,
     <1>12, <1>13, <1>14, <1>15 DEF Lock!Next, Lock!Step

\* Each of these steps keeps the invariant of the lock.
LEMMA LockStep == NobodyApart /\ LockInv /\ [Lock!Next]_(Lock!vars) => LockInv'
<1> SUFFICES ASSUME NobodyApart, LockInv, [Lock!Next]_(Lock!vars) PROVE LockInv'
  OBVIOUS
<1>0. Lock!TypeOK'
  BY LockTypes DEF LockInv
<1> USE <1>0
    DEF NobodyApart, LockInv, Lock!TypeOK, Lock!Locations, Lock!Goto, SpinHolders, Lock!HoldingsleepExact,
        SleepersCovered, Lock!holdingsleep, Lock!Owns
<1>1. ASSUME NEW p \in Lockers, Lock!AcquireCall(p) PROVE LockInv'
  BY <1>1 DEF Lock!AcquireCall
<1>2. ASSUME NEW p \in Lockers, Lock!Kill(p) PROVE LockInv'
  BY <1>2 DEF Lock!Kill
<1>3. ASSUME NEW p \in Lockers, Lock!AcquireLk(p) PROVE LockInv'
  BY <1>3 DEF Lock!AcquireLk
<1>4. ASSUME NEW p \in Lockers, Lock!AcquireTake(p) PROVE LockInv'
  BY <1>4 DEF Lock!AcquireTake
<1>5. ASSUME NEW p \in Lockers, Lock!AcquireSleep(p) PROVE LockInv'
  BY <1>5 DEF Lock!AcquireSleep
<1>6. ASSUME NEW p \in Lockers, Lock!SleepPtable(p) PROVE LockInv'
  BY <1>6 DEF Lock!SleepPtable
<1>7. ASSUME NEW p \in Lockers, Lock!SleepRelease(p) PROVE LockInv'
  BY <1>7 DEF Lock!SleepRelease
<1>8. ASSUME NEW p \in Lockers, Lock!SleepSched(p) PROVE LockInv'
  BY <1>8 DEF Lock!SleepSched
<1>9. ASSUME NEW p \in Lockers, Lock!SleepReturn(p) PROVE LockInv'
  BY <1>9 DEF Lock!SleepReturn
<1>10. ASSUME NEW p \in Lockers, Lock!ReleaseCall(p) PROVE LockInv'
  BY <1>10 DEF Lock!ReleaseCall
<1>11. ASSUME NEW p \in Lockers, Lock!ReleaseLk(p) PROVE LockInv'
  BY <1>11 DEF Lock!ReleaseLk
<1>12. ASSUME NEW p \in Lockers, Lock!ReleaseClear(p) PROVE LockInv'
  BY <1>12 DEF Lock!ReleaseClear
<1>13. ASSUME NEW p \in Lockers, Lock!ReleaseWake(p) PROVE LockInv'
  BY <1>13 DEF Lock!ReleaseWake, Lock!Wakeup1
<1>14. ASSUME NEW p \in Lockers, Lock!ReleaseUnlk(p) PROVE LockInv'
  BY <1>14 DEF Lock!ReleaseUnlk
<1>15. CASE UNCHANGED Lock!vars
  BY <1>15 DEF Lock!vars
<1> QED
  BY <1>1, <1>2, <1>3, <1>4, <1>5, <1>6, <1>7, <1>8, <1>9, <1>10, <1>11,
     <1>12, <1>13, <1>14, <1>15 DEF Lock!Next, Lock!Step

\* The variables of the sleep lock keep their types, whatever the processes do.
LEMMA LockTypesCorrect == Lock!Spec => []Lock!TypeOK
<1>1. Lock!Init => Lock!TypeOK
  BY DEF Lock!Init, Lock!TypeOK, Lock!Locations
<1> QED
  BY <1>1, LockTypes, PTL DEF Lock!Spec

\* The invariant of the lock always holds.
LEMMA LockInvariance == ASSUME NobodyApart PROVE Lock!Spec => []LockInv
  BY LockInit, LockStep, PTL DEF Lock!Spec

\* acquiresleep gives the lock to one process at a time, for any number of
\* processes.
LEMMA Exclusion == ASSUME NobodyApart PROVE Lock!Spec => []Lock!MutualExclusion
<1>1. LockInv => Lock!MutualExclusion
  BY DEF LockInv, Lock!HoldingsleepExact, Lock!holdingsleep, Lock!MutualExclusion
<1> QED
  BY <1>1, LockInvariance, PTL

\* holdingsleep is exact, for any number of processes.
LEMMA HoldingExact == ASSUME NobodyApart PROVE Lock!Spec => []Lock!HoldingsleepExact
<1>1. LockInv => Lock!HoldingsleepExact
  BY DEF LockInv
<1> QED
  BY <1>1, LockInvariance, PTL

\* One owner at a time, and holdingsleep knows it: what bread, bwrite, brelse, ilock
\* and iunlock rest on.
THEOREM LockAlwaysExact == ASSUME NobodyApart PROVE Lock!Spec => []Lock!LockExact
  BY LockTypesCorrect, Exclusion, HoldingExact, PTL DEF Lock!LockExact

\* No process is left asleep on a free lock without a wakeup on its way: the
\* order in which sleep() takes ptable.lock and gives lk->lk up loses nothing.
THEOREM WakeupNotLost == ASSUME NobodyApart PROVE Lock!Spec => []Lock!NoLostWakeup
<1>1. LockInv => Lock!NoLostWakeup
  BY DEF LockInv, SleepersCovered, Lock!NoLostWakeup
<1> QED
  BY <1>1, LockInvariance, PTL
============================================================================
