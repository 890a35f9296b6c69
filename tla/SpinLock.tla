------------------------------ MODULE SpinLock -----------------------------
(***************************************************************************)
(* Spin locks and the nesting of interrupt disabling (spinlock.c), as      *)
(* operators on a lock and on a CPU.  IF is the interrupt flag, ncli and   *)
(* intena are the fields of struct cpu.                                    *)
(***************************************************************************)
EXTENDS Integers

NoCpu == "none"

initlock == [locked |-> FALSE, cpu |-> NoCpu]
InitCpu == [IF |-> TRUE, ncli |-> 0, intena |-> FALSE]

\* Faulty variant: every call remembers the flag, not only the outermost.
pushcliEvery(k, eflags) == [IF |-> FALSE, ncli |-> k.ncli + 1, intena |-> eflags]

\* eflags is what readeflags() gave, before cli().
pushcli(k, eflags) ==
  [IF |-> FALSE, ncli |-> k.ncli + 1, intena |-> IF k.ncli = 0 THEN eflags ELSE k.intena]

popcli(k) == [k EXCEPT !.ncli = @ - 1, !.IF = @ \/ (k.ncli = 1 /\ k.intena)]
PopcliPanics(k) == k.IF \/ k.ncli < 1

holding(lk, c) == lk.locked /\ lk.cpu = c

\* acquire up to the loop: its own pushcli, and the pair around the test of holding.
AcquireBegin(k, eflags) == popcli(pushcli(pushcli(k, eflags), FALSE))
AcquirePanics(lk, c) == holding(lk, c)

\* The xchg that finds the lock free, and what is recorded behind it.
AcquireEnd(lk, c) == [locked |-> TRUE, cpu |-> c]

\* release: the test of holding, and popcli behind the store.
ReleasePanics(lk, c, k) == ~holding(lk, c) \/ PopcliPanics(k)
ReleaseCpu(k) == popcli(popcli(pushcli(k, FALSE)))
============================================================================
