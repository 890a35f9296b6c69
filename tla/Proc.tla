-------------------------------- MODULE Proc --------------------------------
(***************************************************************************)
(* The process table and the per-CPU schedulers (proc.c, and the part of   *)
(* trap.c that kills and preempts).                                        *)
(*                                                                         *)
(* ptable.lock belongs to a CPU, as in spinlock.c: a process that calls    *)
(* sched() leaves it to the scheduler of its CPU, and a process that is    *)
(* switched to finds it held.  A critical section is one step; writes made *)
(* without the lock (fork's failure paths, np->parent) are other steps.    *)
(***************************************************************************)
EXTENDS Integers, Sequences, FiniteSets

CONSTANTS
  NPROC,        \* slots of the process table
  CPUs,         \* processors
  NoCPU,        \* ptable.lock is free
  Chans,        \* sleep channels other than the addresses of processes
  MAX_HISTORY,  \* entries of the exit history
  Sleepers,     \* bound: slots that sleep on channels of Chans
  KillPids,     \* arguments given to kill()
  MaxPid        \* bound: no fork once nextpid has passed it

ASSUME TableAssumption == NPROC \in Nat \ {0}
ASSUME CPUAssumption == NoCPU \notin CPUs
ASSUME ChanAssumption == Chans \cap (0 .. NPROC) = {}
\* init blocks in wait() only.
ASSUME SleepersAssumption == Sleepers \subseteq 2 .. NPROC
ASSUME HistoryAssumption == MAX_HISTORY \in Nat \ {0}
\* kill(1) makes init exit, which panics the kernel: not a behaviour to follow.
ASSUME PidAssumption == KillPids \subseteq Nat \ {1} /\ MaxPid \in Nat

Slots == 1 .. NPROC
initproc == 1

VARIABLES
  state, pid, parent, chan, killed,  \* fields of struct proc, per slot
  nextpid,
  ptlock,         \* the CPU that holds ptable.lock, or NoCPU
  proc,           \* c->proc of each CPU, 0 when its scheduler runs
  scan,           \* loop variable p of each scheduler()
  pc,             \* where the kernel thread of each slot is
  np,             \* fork's np, per slot
  process_history, history_count, history_index,
  exited          \* auxiliary: pids in the order in which they called exit()

tab == <<state, pid, parent, chan, killed>>
hist == <<process_history, history_count, history_index, exited>>
vars == <<state, pid, parent, chan, killed, nextpid, ptlock, proc, scan, pc, np,
          process_history, history_count, history_index, exited>>

States == {"UNUSED", "EMBRYO", "SLEEPING", "RUNNABLE", "RUNNING", "ZOMBIE"}

Locations == {"none",       \* no kernel thread
              "forkret",    \* new, not run yet
              "user",       \* in user space, or entering a system call
              "fork_copy",  \* fork: allocproc has set EMBRYO
              "fork_run",   \* fork: np is complete, about to be RUNNABLE
              "presleep",   \* a blocking call has looked at p->killed
              "sleep",      \* inside sleep() on a channel of Chans
              "exit_close", \* exit: closing files, may sleep
              "wait",       \* wait: asleep, or about to scan again
              "zombie"}

TypeOK ==
  /\ state \in [Slots -> States]
  /\ pid \in [Slots -> Nat]
  /\ parent \in [Slots -> 0 .. NPROC]
  /\ chan \in [Slots -> Chans \cup 0 .. NPROC]
  /\ killed \in [Slots -> BOOLEAN]
  /\ nextpid \in Nat
  /\ ptlock \in CPUs \cup {NoCPU}
  /\ proc \in [CPUs -> 0 .. NPROC]
  /\ scan \in [CPUs -> 1 .. NPROC + 1]
  /\ pc \in [Slots -> Locations]
  /\ np \in [Slots -> 0 .. NPROC]
  /\ process_history \in [0 .. MAX_HISTORY - 1 -> Nat]
  /\ history_count \in 0 .. MAX_HISTORY
  /\ history_index \in 0 .. MAX_HISTORY - 1
  /\ exited \in Seq(Nat)

\* As userinit() leaves the table; the other CPUs wait in their schedulers.
Init ==
  /\ state = [p \in Slots |-> IF p = initproc THEN "RUNNABLE" ELSE "UNUSED"]
  /\ pid = [p \in Slots |-> IF p = initproc THEN 1 ELSE 0]
  /\ parent = [p \in Slots |-> 0]
  /\ chan = [p \in Slots |-> 0]
  /\ killed = [p \in Slots |-> FALSE]
  /\ nextpid = 2
  /\ ptlock = NoCPU
  /\ proc = [c \in CPUs |-> 0]
  /\ scan = [c \in CPUs |-> 1]
  /\ pc = [p \in Slots |-> IF p = initproc THEN "forkret" ELSE "none"]
  /\ np = [p \in Slots |-> 0]
  /\ process_history = [i \in 0 .. MAX_HISTORY - 1 |-> 0]
  /\ history_count = 0
  /\ history_index = 0
  /\ exited = << >>

\* q is the first slot of S in the order of the table.
First(q, S) == q \in S /\ \A r \in S : q <= r

\* Slot p runs on CPU c, at location l, and ptable.lock can be acquired.
At(c, p, l) == ptlock = NoCPU /\ proc[c] = p /\ pc[p] = l

\* In user space, or at a system call made there; a trap would end a killed
\* process first.
Calls(c, p) == At(c, p, "user") /\ ~killed[p]

----------------------------------------------------------------------------
\* scheduler and sched

\* acquire(&ptable.lock) and the start of a pass over the table
SchedAcquire(c) ==
  /\ ptlock = NoCPU
  /\ proc[c] = 0
  /\ ptlock' = c
  /\ scan' = [scan EXCEPT ![c] = 1]
  /\ UNCHANGED <<tab, nextpid, proc, pc, np, hist>>

Ahead(c) == {q \in Slots : q >= scan[c] /\ state[q] = "RUNNABLE"}

\* Where a thread goes on: forkret and sleep() release ptable.lock and return, and
\* wait() scans the table once more.
Resumed(l) == IF l \in {"forkret", "sleep"} THEN "user" ELSE l

\* Faulty variant: p->state is left RUNNABLE.
SchedRunUnmarked(c, q) ==
  /\ ptlock = c
  /\ proc[c] = 0
  /\ First(q, Ahead(c))
  /\ proc' = [proc EXCEPT ![c] = q]
  /\ scan' = [scan EXCEPT ![c] = q + 1]
  /\ chan' = [chan EXCEPT ![q] = 0]
  /\ pc' = [pc EXCEPT ![q] = Resumed(@)]
  /\ ptlock' = IF pc[q] = "wait" THEN c ELSE NoCPU
  /\ UNCHANGED <<state, pid, parent, killed, nextpid, np, hist>>

\* Switch to the next RUNNABLE slot.  The thread resumes after its swtch: it
\* clears p->chan if it was in sleep(), and releases ptable.lock unless it was in
\* wait(), which goes on to scan the table.
SchedRun(c, q) ==
  /\ ptlock = c
  /\ proc[c] = 0
  /\ First(q, Ahead(c))
  /\ proc' = [proc EXCEPT ![c] = q]
  /\ scan' = [scan EXCEPT ![c] = q + 1]
  /\ state' = [state EXCEPT ![q] = "RUNNING"]
  /\ chan' = [chan EXCEPT ![q] = 0]
  /\ pc' = [pc EXCEPT ![q] = Resumed(@)]
  /\ ptlock' = IF pc[q] = "wait" THEN c ELSE NoCPU
  /\ UNCHANGED <<pid, parent, killed, nextpid, np, hist>>

\* The end of a pass.
SchedRelease(c) ==
  /\ ptlock = c
  /\ proc[c] = 0
  /\ Ahead(c) = {}
  /\ ptlock' = NoCPU
  /\ UNCHANGED <<tab, nextpid, proc, scan, pc, np, hist>>

\* Faulty variant: the scheduler starts its pass over after every switch.
SchedFromStart(c) ==
  /\ proc' = [proc EXCEPT ![c] = 0]
  /\ ptlock' = c
  /\ scan' = [scan EXCEPT ![c] = 1]

\* sched(): back to the scheduler of c, which now holds ptable.lock.
Sched(c) ==
  /\ proc' = [proc EXCEPT ![c] = 0]
  /\ ptlock' = c
  /\ UNCHANGED scan

\* The timer interrupt's yield(); a killed process in user space exits instead.
Yield(c, p) ==
  /\ \/ Calls(c, p)
     \/ \E l \in {"fork_copy", "fork_run", "presleep", "exit_close"} : At(c, p, l)
  /\ state' = [state EXCEPT ![p] = "RUNNABLE"]
  /\ Sched(c)
  /\ UNCHANGED <<pid, parent, chan, killed, nextpid, pc, np, hist>>

----------------------------------------------------------------------------
\* sleep and wakeup on the channels of the other subsystems

\* wakeup1(ch) applied to the states s
Wakeup1(s, ch) ==
  [q \in Slots |-> IF s[q] = "SLEEPING" /\ chan[q] = ch THEN "RUNNABLE" ELSE s[q]]

\* A blocking system call tests p->killed before it calls sleep().
SleepCheck(c, p) ==
  /\ Calls(c, p)
  /\ p \in Sleepers
  /\ pc' = [pc EXCEPT ![p] = "presleep"]
  /\ UNCHANGED <<tab, nextpid, ptlock, proc, scan, np, hist>>

Sleep(c, p, ch) ==
  /\ p \in Sleepers
  /\ At(c, p, "presleep") \/ At(c, p, "exit_close")
  /\ pc' = [pc EXCEPT ![p] = IF @ = "presleep" THEN "sleep" ELSE @]
  /\ chan' = [chan EXCEPT ![p] = ch]
  /\ state' = [state EXCEPT ![p] = "SLEEPING"]
  /\ Sched(c)
  /\ UNCHANGED <<pid, parent, killed, nextpid, np, hist>>

\* wakeup(ch), called by any process or interrupt handler
Wakeup(ch) ==
  /\ ptlock = NoCPU
  /\ \E q \in Slots : state[q] = "SLEEPING" /\ chan[q] = ch
  /\ state' = Wakeup1(state, ch)
  /\ UNCHANGED <<pid, parent, chan, killed, nextpid, ptlock, proc, scan, pc, np, hist>>

----------------------------------------------------------------------------
\* fork

\* allocproc's critical section; without an UNUSED slot fork returns -1 and
\* changes nothing.
ForkAlloc(c, p, n) ==
  /\ Calls(c, p)
  /\ nextpid <= MaxPid
  /\ First(n, {q \in Slots : state[q] = "UNUSED"})
  /\ state' = [state EXCEPT ![n] = "EMBRYO"]
  /\ pid' = [pid EXCEPT ![n] = nextpid]
  /\ nextpid' = nextpid + 1
  /\ pc' = [pc EXCEPT ![p] = "fork_copy"]
  /\ np' = [np EXCEPT ![p] = n]
  /\ UNCHANGED <<parent, chan, killed, ptlock, proc, scan, hist>>

\* kalloc or copyuvm failed: the slot is given back without ptable.lock.
ForkFail(c, p) ==
  /\ proc[c] = p /\ pc[p] = "fork_copy"
  /\ state' = [state EXCEPT ![np[p]] = "UNUSED"]
  /\ pc' = [pc EXCEPT ![p] = "user"]
  /\ np' = [np EXCEPT ![p] = 0]
  /\ UNCHANGED <<pid, parent, chan, killed, nextpid, ptlock, proc, scan, hist>>

ForkCopy(c, p) ==
  /\ proc[c] = p /\ pc[p] = "fork_copy"
  /\ parent' = [parent EXCEPT ![np[p]] = p]
  /\ pc' = [pc EXCEPT ![p] = "fork_run", ![np[p]] = "forkret"]
  /\ UNCHANGED <<state, pid, chan, killed, nextpid, ptlock, proc, scan, np, hist>>

ForkRun(c, p) ==
  /\ At(c, p, "fork_run")
  /\ state' = [state EXCEPT ![np[p]] = "RUNNABLE"]
  /\ pc' = [pc EXCEPT ![p] = "user"]
  /\ np' = [np EXCEPT ![p] = 0]
  /\ UNCHANGED <<pid, parent, chan, killed, nextpid, ptlock, proc, scan, hist>>

----------------------------------------------------------------------------
\* exit and wait

\* exit() called by the process or by a trap that finds it killed; the exit is
\* entered in the history first.  init never gets here, or the kernel panics.
ExitBegin(c, p) ==
  /\ At(c, p, "user")
  /\ p # initproc
  /\ process_history' = [process_history EXCEPT ![history_index] = pid[p]]
  /\ history_index' = (history_index + 1) % MAX_HISTORY
  /\ history_count' = IF history_count < MAX_HISTORY THEN history_count + 1
                                                     ELSE history_count
  /\ exited' = Append(exited, pid[p])
  /\ pc' = [pc EXCEPT ![p] = "exit_close"]
  /\ UNCHANGED <<tab, nextpid, ptlock, proc, scan, np>>

\* The end of trap(): a process that was killed does not go back to user space.
TrapExit(c, p) == killed[p] /\ ExitBegin(c, p)

\* Faulty variants: the children keep their parent; init is not told of the
\* zombies it inherits; nobody is told of the exit.
ExitZombieAbandons(c, p) ==
  /\ At(c, p, "exit_close")
  /\ state' = [Wakeup1(state, parent[p]) EXCEPT ![p] = "ZOMBIE"]
  /\ pc' = [pc EXCEPT ![p] = "zombie"]
  /\ Sched(c)
  /\ UNCHANGED <<pid, parent, chan, killed, nextpid, np, hist>>
ExitZombieQuiet(c, p) ==
  /\ At(c, p, "exit_close")
  /\ parent' = [q \in Slots |-> IF parent[q] = p THEN initproc ELSE parent[q]]
  /\ state' = [Wakeup1(state, parent[p]) EXCEPT ![p] = "ZOMBIE"]
  /\ pc' = [pc EXCEPT ![p] = "zombie"]
  /\ Sched(c)
  /\ UNCHANGED <<pid, chan, killed, nextpid, np, hist>>
ExitZombieSilent(c, p) ==
  /\ At(c, p, "exit_close")
  /\ parent' = [q \in Slots |-> IF parent[q] = p THEN initproc ELSE parent[q]]
  /\ state' = [state EXCEPT ![p] = "ZOMBIE"]
  /\ pc' = [pc EXCEPT ![p] = "zombie"]
  /\ Sched(c)
  /\ UNCHANGED <<pid, chan, killed, nextpid, np, hist>>

\* The last critical section of exit(): wake the parent, give the children to
\* init and wake it if one of them is a zombie, become a zombie, and switch away.
ExitZombie(c, p) ==
  LET orphans == {q \in Slots : parent[q] = p}
      s1 == Wakeup1(state, parent[p])
      s2 == IF \E q \in orphans : state[q] = "ZOMBIE" THEN Wakeup1(s1, initproc) ELSE s1
  IN  /\ At(c, p, "exit_close")
      /\ parent' = [q \in Slots |-> IF q \in orphans THEN initproc ELSE parent[q]]
      /\ state' = [s2 EXCEPT ![p] = "ZOMBIE"]
      /\ pc' = [pc EXCEPT ![p] = "zombie"]
      /\ Sched(c)
      /\ UNCHANGED <<pid, chan, killed, nextpid, np, hist>>

\* p starts wait(), or is back from its sleep with ptable.lock held.
InWait(c, p) ==
  \/ Calls(c, p)
  \/ ptlock = c /\ proc[c] = p /\ pc[p] = "wait"

Children(p) == {q \in Slots : parent[q] = p}
Zombies(p) == {q \in Children(p) : state[q] = "ZOMBIE"}

WaitReap(c, p, z) ==
  /\ InWait(c, p)
  /\ First(z, Zombies(p))
  /\ state' = [state EXCEPT ![z] = "UNUSED"]
  /\ pid' = [pid EXCEPT ![z] = 0]
  /\ parent' = [parent EXCEPT ![z] = 0]
  /\ killed' = [killed EXCEPT ![z] = FALSE]
  /\ pc' = [pc EXCEPT ![p] = "user", ![z] = "none"]
  /\ ptlock' = NoCPU
  /\ UNCHANGED <<chan, nextpid, proc, scan, np, hist>>

\* No children, or killed: wait returns -1.
WaitFail(c, p) ==
  /\ ptlock = c /\ proc[c] = p /\ pc[p] = "wait"
  /\ Zombies(p) = {}
  /\ Children(p) = {} \/ killed[p]
  /\ pc' = [pc EXCEPT ![p] = "user"]
  /\ ptlock' = NoCPU
  /\ UNCHANGED <<tab, nextpid, proc, scan, np, hist>>

WaitSleep(c, p) ==
  /\ InWait(c, p)
  /\ Zombies(p) = {}
  /\ Children(p) # {} /\ ~killed[p]
  /\ state' = [state EXCEPT ![p] = "SLEEPING"]
  /\ chan' = [chan EXCEPT ![p] = p]
  /\ pc' = [pc EXCEPT ![p] = "wait"]
  /\ Sched(c)
  /\ UNCHANGED <<pid, parent, killed, nextpid, np, hist>>

----------------------------------------------------------------------------
\* Faulty variant: the sleeper is not woken.
KillNoWake(c, p, k, q) ==
  /\ Calls(c, p)
  /\ p # initproc
  /\ First(q, {r \in Slots : pid[r] = k})
  /\ killed' = [killed EXCEPT ![q] = TRUE]
  /\ UNCHANGED <<state, pid, parent, chan, nextpid, ptlock, proc, scan, pc, np, hist>>

\* kill(k) by the process on CPU c: the first slot whose pid is k, whatever its
\* state is.
Kill(c, p, k, q) ==
  /\ Calls(c, p)
  /\ p # initproc
  /\ First(q, {r \in Slots : pid[r] = k})
  /\ killed' = [killed EXCEPT ![q] = TRUE]
  /\ state' = [state EXCEPT ![q] = IF @ = "SLEEPING" THEN "RUNNABLE" ELSE @]
  /\ UNCHANGED <<pid, parent, chan, nextpid, ptlock, proc, scan, pc, np, hist>>

----------------------------------------------------------------------------

SchedStep(c) == SchedAcquire(c) \/ SchedRelease(c) \/ \E q \in Slots : SchedRun(c, q)

\* Steps that finish a system call or an exit that p is in the middle of.
Finish(c, p) ==
  \/ ForkFail(c, p)
  \/ ForkCopy(c, p)
  \/ ForkRun(c, p)
  \/ ExitZombie(c, p)
  \/ WaitFail(c, p)
  \/ WaitSleep(c, p)
  \/ \E z \in Slots : WaitReap(c, p, z)

Call(c, p) ==
  \/ SleepCheck(c, p)
  \/ ExitBegin(c, p)
  \/ \E n \in Slots : ForkAlloc(c, p, n)
  \/ \E ch \in Chans : Sleep(c, p, ch)
  \/ \E k \in KillPids, q \in Slots : Kill(c, p, k, q)

Next ==
  \/ \E c \in CPUs : SchedStep(c)
  \/ \E c \in CPUs, p \in Slots : Yield(c, p) \/ Finish(c, p) \/ Call(c, p)
  \/ \E ch \in Chans : Wakeup(ch)

Spec == Init /\ [][Next]_vars

\* The schedulers and the timer run, a CPU that holds ptable.lock gets on, and so
\* does a process that a trap finds killed.
FairSched ==
  /\ Spec
  /\ \A c \in CPUs :
       /\ WF_vars(SchedStep(c))
       /\ WF_vars(\E p \in Slots : Yield(c, p) \/ TrapExit(c, p))
       /\ WF_vars(\E p \in Slots : ptlock = c /\ Finish(c, p))

\* Moreover a process that gets a CPU again and again gets through the kernel code
\* it is in, and init calls wait again and again (init.c).  Nothing is assumed of
\* the calls of other processes, of kills or of wakeups.
FairSpec ==
  /\ FairSched
  /\ \A p \in Slots :
       /\ SF_vars(\E c \in CPUs : pc[p] # "user" /\ Finish(c, p))
       /\ SF_vars(\E c \in CPUs, ch \in Chans : pc[p] = "presleep" /\ Sleep(c, p, ch))
       /\ SF_vars(\E c \in CPUs : TrapExit(c, p))
  /\ SF_vars(\E c \in CPUs : WaitSleep(c, initproc)
                               \/ \E z \in Slots : WaitReap(c, initproc, z))

----------------------------------------------------------------------------

Live(p) == state[p] \notin {"UNUSED", "EMBRYO"}

\* A slot is RUNNING if and only if exactly one CPU runs it: two schedulers never
\* switch to the same kernel stack, and wait() never frees the stack of a process
\* that is still on its way out of exit().
RunningOnOneCPU ==
  /\ \A p \in Slots : state[p] = "RUNNING" <=> \E c \in CPUs : proc[c] = p
  /\ \A c, d \in CPUs : proc[c] = proc[d] /\ proc[c] # 0 => c = d

\* Processes, also half-made ones, have different pids.
PidsUnique ==
  \A p, q \in Slots :
    state[p] # "UNUSED" /\ state[q] # "UNUSED" /\ pid[p] = pid[q] => p = q

\* Every process but init has a parent that can still wait for it: exit() leaves
\* no orphan behind, and a slot is not reused while its children point to it; fork
\* gives no two processes one pid.
ParentAlive ==
  /\ TypeOK
  /\ PidsUnique
  /\ \A p \in Slots \ {initproc} :
       Live(p) => /\ parent[p] \in Slots
                  /\ Live(parent[p]) /\ state[parent[p]] # "ZOMBIE"

\* A process asleep in wait() has children, none of them has exited, and it has
\* not been killed: exit() and kill() cannot slip between its scan and its sleep.
WaitNotMissed ==
  \A p \in Slots : state[p] = "SLEEPING" /\ pc[p] = "wait"
                     => Children(p) # {} /\ Zombies(p) = {} /\ ~killed[p]

\* Faulty variant: the ring is read from its first entry.
gethistoryFromZero(max) ==
  LET copy_count == IF history_count < max THEN history_count ELSE max
  IN  [i \in 1 .. copy_count |-> process_history[i - 1]]

\* sys_gethistory(max), as the sequence of pids it copies out
gethistory(max) ==
  LET copy_count == IF history_count < max THEN history_count ELSE max
      start == IF history_count < MAX_HISTORY THEN 0 ELSE history_index
  IN  [i \in 1 .. copy_count |-> process_history[(start + i - 1) % MAX_HISTORY]]

\* The last n exits, oldest first; all of them if there are fewer.
LastExits(n) ==
  LET m == IF Len(exited) < n THEN Len(exited) ELSE n
  IN  SubSeq(exited, Len(exited) - m + 1, Len(exited))

\* A full read of the history gives the last MAX_HISTORY exits in order, across
\* the wrap-around of the ring that exit() fills.
HistoryFaithful == gethistory(MAX_HISTORY) = LastExits(MAX_HISTORY)

\* A process does not start its life killed.  This does not hold: kill() looks at the
\* pid of an UNUSED slot too (proc.c:586), and allocproc leaves p->killed as it is.
StartsUnkilled ==
  [][ \A p \in Slots : state[p] = "UNUSED" /\ state'[p] = "EMBRYO" => ~killed'[p] ]_vars

\* The schedulers starve nobody: every RUNNABLE process runs.
RunnableRuns == \A p \in Slots : state[p] = "RUNNABLE" ~> state[p] = "RUNNING"

\* Every zombie that init has to wait for gives its slot back.
OrphanReaped ==
  \A p \in Slots : state[p] = "ZOMBIE" /\ parent[p] = initproc ~> state[p] = "UNUSED"

\* A killed process exits, unless it stays asleep on a channel.
KilledExits ==
  \A p \in Slots : killed[p] /\ Live(p)
    ~> state[p] \in {"ZOMBIE", "UNUSED"} \/ (state[p] = "SLEEPING" /\ chan[p] \in Chans)
=============================================================================
