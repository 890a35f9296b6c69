----------------------------- MODULE SleepLock -----------------------------
(***************************************************************************)
(* A long-term lock (sleeplock.c) on top of a spinlock and of the          *)
(* sleep/wakeup protocol of proc.c.                                        *)
(*                                                                         *)
(* Every acquisition and release of the two spinlocks involved (lk->lk and *)
(* ptable.lock) that another process can get in between is a step of its   *)
(* own.  A spinlock is held by the process that acquired it: interrupts    *)
(* are off while it is held, so its holder is never preempted.  After      *)
(* sched() the scheduler gives ptable.lock up without touching this state, *)
(* so a process going to sleep releases it in the same step.               *)
(***************************************************************************)
EXTENDS Naturals

CONSTANTS
  Procs,      \* the processes that compete for the lock
  None        \* stands for "no process": pid 0, a free spinlock

ASSUME NoneAssumption == None \notin Procs

VARIABLES
  locked,     \* lk->locked
  pid,        \* lk->pid, the process itself standing for its pid
  lk,         \* holder of the spinlock lk->lk
  ptlock,     \* holder of ptable.lock
  state,      \* p->state
  killed,     \* p->killed
  pc          \* where each process is in the code below

vars == <<locked, pid, lk, ptlock, state, killed, pc>>

Locations == {"idle",      \* neither holds nor wants the lock
              "acq_lk",    \* acquire(&lk->lk), in acquiresleep or at sleep's end
              "acq_test",  \* while (lk->locked)
              "slp_pt",    \* sleep: acquire(&ptable.lock)
              "slp_rel",   \* sleep: release(lk)
              "slp_off",   \* sleep: state = SLEEPING; sched()
              "asleep",    \* inside sched()
              "cs",        \* acquiresleep has returned
              "rel_lk",    \* releasesleep: acquire(&lk->lk)
              "rel_clear", \* releasesleep: locked = 0
              "rel_wake",  \* releasesleep: wakeup(lk)
              "rel_unlk"}  \* releasesleep: release(&lk->lk)

TypeOK ==
  /\ locked \in BOOLEAN
  /\ pid \in Procs \cup {None}
  /\ lk \in Procs \cup {None}
  /\ ptlock \in Procs \cup {None}
  /\ state \in [Procs -> {"RUNNING", "RUNNABLE", "SLEEPING"}]
  /\ killed \in [Procs -> BOOLEAN]
  /\ pc \in [Procs -> Locations]

\* initsleeplock
Init ==
  /\ locked = FALSE
  /\ pid = None
  /\ lk = None
  /\ ptlock = None
  /\ state = [p \in Procs |-> "RUNNING"]
  /\ killed = [p \in Procs |-> FALSE]
  /\ pc = [p \in Procs |-> "idle"]

Goto(p, from, to) ==
  /\ pc[p] = from
  /\ pc' = [pc EXCEPT ![p] = to]

----------------------------------------------------------------------------
\* acquiresleep

AcquireCall(p) ==
  /\ Goto(p, "idle", "acq_lk")
  /\ UNCHANGED <<locked, pid, lk, ptlock, state, killed>>

AcquireLk(p) ==
  /\ Goto(p, "acq_lk", "acq_test")
  /\ lk = None
  /\ lk' = p
  /\ UNCHANGED <<locked, pid, ptlock, state, killed>>

\* Faulty variant: the test of lk->locked is forgotten.
AcquireTakeNoTest(p) ==
  /\ Goto(p, "acq_test", "cs")
  /\ locked' = TRUE
  /\ pid' = p
  /\ lk' = None
  /\ UNCHANGED <<ptlock, state, killed>>
\* The loop test fails: take the lock and release the spinlock.
AcquireTake(p) ==
  /\ Goto(p, "acq_test", "cs")
  /\ ~locked
  /\ locked' = TRUE
  /\ pid' = p
  /\ lk' = None
  /\ UNCHANGED <<ptlock, state, killed>>

\* Faulty variant: lk->lk is released before ptable.lock is acquired.
AcquireSleepUnlocked(p) ==
  /\ Goto(p, "acq_test", "slp_pt")
  /\ locked
  /\ lk' = None
  /\ UNCHANGED <<locked, pid, ptlock, state, killed>>

\* The loop test holds: sleep(lk, &lk->lk).
AcquireSleep(p) ==
  /\ Goto(p, "acq_test", "slp_pt")
  /\ locked
  /\ UNCHANGED <<locked, pid, lk, ptlock, state, killed>>

----------------------------------------------------------------------------
\* sleep and wakeup

SleepPtable(p) ==
  /\ Goto(p, "slp_pt", "slp_rel")
  /\ ptlock = None
  /\ ptlock' = p
  /\ UNCHANGED <<locked, pid, lk, state, killed>>

SleepRelease(p) ==
  /\ Goto(p, "slp_rel", "slp_off")
  /\ lk' = None
  /\ UNCHANGED <<locked, pid, ptlock, state, killed>>

SleepSched(p) ==
  /\ Goto(p, "slp_off", "asleep")
  /\ state' = [state EXCEPT ![p] = "SLEEPING"]
  /\ ptlock' = None
  /\ UNCHANGED <<locked, pid, lk, killed>>

\* Faulty variant: a process that was killed in its sleep is not run again.
SleepReturnUnlessKilled(p) ==
  /\ Goto(p, "asleep", "acq_lk")
  /\ state[p] = "RUNNABLE" /\ ~killed[p]
  /\ ptlock = None
  /\ state' = [state EXCEPT ![p] = "RUNNING"]
  /\ UNCHANGED <<locked, pid, lk, ptlock, killed>>

\* A scheduler takes ptable.lock, runs p, and p releases it on sleep's way out.
SleepReturn(p) ==
  /\ Goto(p, "asleep", "acq_lk")
  /\ state[p] = "RUNNABLE"
  /\ ptlock = None
  /\ state' = [state EXCEPT ![p] = "RUNNING"]
  /\ UNCHANGED <<locked, pid, lk, ptlock, killed>>

\* wakeup1: every process sleeping on the channel becomes RUNNABLE.
Wakeup1 ==
  state' = [q \in Procs |-> IF state[q] = "SLEEPING" THEN "RUNNABLE" ELSE state[q]]

\* kill() of a process; the bound is that each process is killed once.
Kill(p) ==
  /\ ptlock = None
  /\ ~killed[p]
  /\ killed' = [killed EXCEPT ![p] = TRUE]
  /\ state' = [state EXCEPT ![p] = IF @ = "SLEEPING" THEN "RUNNABLE" ELSE @]
  /\ UNCHANGED <<locked, pid, lk, ptlock, pc>>

----------------------------------------------------------------------------
\* releasesleep

ReleaseCall(p) ==
  /\ Goto(p, "cs", "rel_lk")
  /\ UNCHANGED <<locked, pid, lk, ptlock, state, killed>>

ReleaseLk(p) ==
  /\ Goto(p, "rel_lk", "rel_clear")
  /\ lk = None
  /\ lk' = p
  /\ UNCHANGED <<locked, pid, ptlock, state, killed>>

ReleaseClear(p) ==
  /\ Goto(p, "rel_clear", "rel_wake")
  /\ locked' = FALSE
  /\ pid' = None
  /\ UNCHANGED <<lk, ptlock, state, killed>>

ReleaseWake(p) ==
  /\ Goto(p, "rel_wake", "rel_unlk")
  /\ ptlock = None
  /\ Wakeup1
  /\ UNCHANGED <<locked, pid, lk, ptlock, killed>>

ReleaseUnlk(p) ==
  /\ Goto(p, "rel_unlk", "idle")
  /\ lk' = None
  /\ UNCHANGED <<locked, pid, ptlock, state, killed>>

\* holdingsleep, read under lk->lk
holdingsleep(p) == locked /\ pid = p

----------------------------------------------------------------------------

\* The steps of a process that has entered acquiresleep or releasesleep.
Step(p) ==
  \/ AcquireLk(p)   \/ AcquireTake(p)  \/ AcquireSleep(p)
  \/ SleepPtable(p) \/ SleepRelease(p) \/ SleepSched(p)  \/ SleepReturn(p)
  \/ ReleaseCall(p) \/ ReleaseLk(p)    \/ ReleaseClear(p)
  \/ ReleaseWake(p) \/ ReleaseUnlk(p)

Next == \E p \in Procs : AcquireCall(p) \/ Kill(p) \/ Step(p)

Spec == Init /\ [][Next]_vars

\* Every process inside the lock code keeps running, and a holder lets go.  A
\* RUNNABLE process is run although ptable.lock is contended: the schedulers take
\* turns over the whole table while they hold it (RunnableRuns of module Proc).
FairSpec ==
  Spec /\ \A p \in Procs : WF_vars(Step(p)) /\ SF_vars(SleepReturn(p))

----------------------------------------------------------------------------

\* p is between the return of acquiresleep and releasesleep's locked = 0.
Owns(p) == pc[p] \in {"cs", "rel_lk", "rel_clear"}

\* acquiresleep returns to one process at a time: no two processes are between
\* their acquiresleep and the clearing of lk->locked in their releasesleep.
MutualExclusion == \A p, q \in Procs : Owns(p) /\ Owns(q) => p = q

\* holdingsleep, which bwrite, brelse and iunlock panic on, answers 1 to the
\* process that owns the lock and 0 to every other process, at any moment.
HoldingsleepExact == \A p \in Procs : holdingsleep(p) <=> Owns(p)

\* The lock as its callers see it: acquiresleep returns to one process at a time,
\* and holdingsleep is right about which one, while others sleep, are killed or
\* wake up together.
LockExact == TypeOK /\ MutualExclusion /\ HoldingsleepExact

\* sleep() never misses a wakeup: a process is asleep on the lock only while the
\* lock is taken, or while a releaser that has cleared it is still to call wakeup.
NoLostWakeup ==
  (\E p \in Procs : state[p] = "SLEEPING")
    => locked \/ \E q \in Procs : pc[q] = "rel_wake"

\* Every process asleep in acquiresleep is made to run again.
SleeperWakes == \A p \in Procs : pc[p] = "asleep" ~> pc[p] # "asleep"
============================================================================
