-------------------------------- MODULE Log --------------------------------
(***************************************************************************)
(* The write-ahead log (log.c): group commit of concurrent file-system     *)
(* operations, crashes at any moment, and recovery at boot.                *)
(*                                                                         *)
(* A block's contents is a member of Data.  Each disk write (bwrite of one *)
(* block) is one step; everything log.c does under log.lock is one step;   *)
(* the tests log_write makes before it takes log.lock are a step of their  *)
(* own.  A process asleep on &log is at location "begin_sleep"; module     *)
(* SleepLock shows that sleep under a spinlock loses no wakeup.            *)
(***************************************************************************)
EXTENDS Naturals, Sequences, FiniteSets

CONSTANTS
  Procs,        \* processes doing file-system operations
  Blocks,       \* home blocks
  Data,         \* contents of a block
  Blank,        \* contents mkfs leaves in every block
  Uncached,     \* the block has no valid buffer
  MAXOPBLOCKS,  \* param.h: blocks one operation reserves
  LOGSIZE,      \* param.h: entries of the log header
  nlog,         \* superblock: blocks of the on-disk log, header included
  OpBlocks      \* bound: log_write calls one operation makes

ASSUME BlockAssumption == Blocks # {} /\ Blank \in Data /\ Uncached \notin Data
ASSUME ProcsAssumption == IsFiniteSet(Procs)
ASSUME SizeAssumption ==
  /\ MAXOPBLOCKS \in Nat \ {0}
  /\ LOGSIZE \in Nat /\ MAXOPBLOCKS <= LOGSIZE
  /\ nlog \in Nat \ {0}
  /\ OpBlocks \in Nat /\ OpBlocks <= MAXOPBLOCKS

VARIABLES
  home,         \* disk: the home location of every block
  logdisk,      \* disk: the data blocks of the log
  hdr,          \* disk: block numbers in the log's header block
  cache,        \* contents of the buffer of a block, or Uncached
  dirty,        \* B_DIRTY: the buffer is pinned in the cache
  lh,           \* log.lh, as the sequence of its n block numbers
  outstanding,  \* log.outstanding
  committing,   \* log.committing
  pc,           \* where each process is
  blk,          \* the buffer a process holds locked in log_write
  left,         \* log_write calls the operation of a process may still make
  tail,         \* loop counter of write_log and install_trans
  boot,         \* progress of recover_from_log; "up" once it has returned
  panicked      \* panic() has been called

disk == <<home, logdisk, hdr>>
bufs == <<cache, dirty>>
log == <<lh, outstanding, committing>>
vars == <<home, logdisk, hdr, cache, dirty, lh, outstanding, committing,
          pc, blk, left, tail, boot, panicked>>

LogSlots == 1 .. nlog - 1
SomeBlock == CHOOSE b \in Blocks : TRUE   \* blk of a process that holds none

Locations == {"idle", "begin", "begin_sleep", "op", "check", "record",
              "write_log", "write_head", "install", "clear", "end_commit"}

\* Locations between the return of begin_op and the decrement in end_op.
InOp == {"op", "check", "record"}

TypeOK ==
  /\ home \in [Blocks -> Data]
  /\ logdisk \in [LogSlots -> Data]
  /\ hdr \in Seq(Blocks)
  /\ cache \in [Blocks -> Data \cup {Uncached}]
  /\ dirty \in [Blocks -> BOOLEAN]
  /\ lh \in Seq(Blocks)
  /\ outstanding \in Nat
  /\ committing \in BOOLEAN
  /\ pc \in [Procs -> Locations]
  /\ blk \in [Procs -> Blocks]
  /\ left \in [Procs -> 0 .. OpBlocks]
  /\ tail \in Nat
  /\ boot \in {"read_head", "install", "clear", "up"}
  /\ panicked \in BOOLEAN

\* A new file system, recovered from an empty log.
Init ==
  /\ home = [b \in Blocks |-> Blank]
  /\ logdisk = [i \in LogSlots |-> Blank]
  /\ hdr = << >>
  /\ cache = [b \in Blocks |-> Uncached]
  /\ dirty = [b \in Blocks |-> FALSE]
  /\ lh = << >>
  /\ outstanding = 0
  /\ committing = FALSE
  /\ pc = [p \in Procs |-> "idle"]
  /\ blk = [p \in Procs |-> SomeBlock]
  /\ left = [p \in Procs |-> 0]
  /\ tail = 0
  /\ boot = "up"
  /\ panicked = FALSE

\* Processes run once initlog has returned, and until a panic.
At(p, l) == boot = "up" /\ ~panicked /\ pc[p] = l

Goto(p, from, to) ==
  /\ At(p, from)
  /\ pc' = [pc EXCEPT ![p] = to]

\* wakeup(&log), as a new value of pc after p has gone to location "to"
WakeupLog(p, to) ==
  pc' = [q \in Procs |-> IF q = p THEN to
                         ELSE IF pc[q] = "begin_sleep" THEN "begin" ELSE pc[q]]

----------------------------------------------------------------------------
\* begin_op

BeginCall(p) ==
  /\ Goto(p, "idle", "begin")
  /\ UNCHANGED <<disk, bufs, log, blk, left, tail, boot, panicked>>

\* Faulty variants: the new operation not counted, the commit not waited for.
MustWaitUncounted ==
  committing \/ Len(lh) + outstanding * MAXOPBLOCKS > LOGSIZE
MustWaitForSpaceOnly ==
  Len(lh) + (outstanding + 1) * MAXOPBLOCKS > LOGSIZE

MustWait ==
  committing \/ Len(lh) + (outstanding + 1) * MAXOPBLOCKS > LOGSIZE

BeginSleep(p) ==
  /\ Goto(p, "begin", "begin_sleep")
  /\ MustWait
  /\ UNCHANGED <<disk, bufs, log, blk, left, tail, boot, panicked>>

BeginOp(p) ==
  /\ Goto(p, "begin", "op")
  /\ ~MustWait
  /\ outstanding' = outstanding + 1
  /\ left' = [left EXCEPT ![p] = OpBlocks]
  /\ UNCHANGED <<disk, bufs, lh, committing, blk, tail, boot, panicked>>

\* kill() makes a sleeper RUNNABLE; begin_op does not look at p->killed.
Kill(p) ==
  /\ Goto(p, "begin_sleep", "begin")
  /\ UNCHANGED <<disk, bufs, log, blk, left, tail, boot, panicked>>

----------------------------------------------------------------------------
\* The body of an operation: bread a block, modify it, log_write, brelse

Unlocked(b) == \A q \in Procs : pc[q] \in {"check", "record"} => blk[q] # b

Modify(p, b, d) ==
  /\ Goto(p, "op", "check")
  /\ left[p] > 0
  /\ Unlocked(b)
  /\ cache' = [cache EXCEPT ![b] = d]
  /\ blk' = [blk EXCEPT ![p] = b]
  /\ left' = [left EXCEPT ![p] = @ - 1]
  /\ UNCHANGED <<disk, dirty, log, tail, boot, panicked>>

\* log_write's tests, made without log.lock
TooBig == Len(lh) >= LOGSIZE \/ Len(lh) >= nlog - 1

LogWriteCheck(p) ==
  /\ Goto(p, "check", "record")
  /\ panicked' = (TooBig \/ outstanding < 1)
  /\ UNCHANGED <<disk, bufs, log, blk, left, tail, boot>>

\* log_write under log.lock, with log absorption, then brelse
LogWrite(p) ==
  /\ Goto(p, "record", "op")
  /\ lh' = IF \E i \in 1 .. Len(lh) : lh[i] = blk[p] THEN lh ELSE Append(lh, blk[p])
  /\ dirty' = [dirty EXCEPT ![blk[p]] = TRUE]
  /\ blk' = [blk EXCEPT ![p] = SomeBlock]
  /\ UNCHANGED <<disk, cache, outstanding, committing, left, tail, boot, panicked>>

\* bget recycles the buffer of a block that is neither in use nor dirty.
Evict(b) ==
  /\ boot = "up" /\ ~panicked
  /\ cache[b] # Uncached
  /\ ~dirty[b]
  /\ Unlocked(b)
  /\ cache' = [cache EXCEPT ![b] = Uncached]
  /\ UNCHANGED <<disk, dirty, log, pc, blk, left, tail, boot, panicked>>

----------------------------------------------------------------------------
\* end_op and commit

\* Other operations are outstanding: leave the commit to them.
EndOp(p) ==
  /\ At(p, "op")
  /\ outstanding # 1
  /\ outstanding' = outstanding - 1
  /\ panicked' = committing
  /\ WakeupLog(p, "idle")
  /\ UNCHANGED <<disk, bufs, lh, committing, blk, left, tail, boot>>

\* Faulty variant: the header is written before the blocks it announces.
EndOpCommitHeadFirst(p) ==
  /\ Goto(p, "op", IF Len(lh) > 0 THEN "write_head" ELSE "end_commit")
  /\ outstanding = 1
  /\ outstanding' = 0
  /\ panicked' = committing
  /\ committing' = TRUE
  /\ tail' = 0
  /\ UNCHANGED <<disk, bufs, lh, blk, left, boot>>

\* The last outstanding operation commits, if the log has anything in it.
EndOpCommit(p) ==
  /\ Goto(p, "op", IF Len(lh) > 0 THEN "write_log" ELSE "end_commit")
  /\ outstanding = 1
  /\ outstanding' = 0
  /\ panicked' = committing
  /\ committing' = TRUE
  /\ tail' = 0
  /\ UNCHANGED <<disk, bufs, lh, blk, left, boot>>

\* The contents bread(b) returns.
Bread(b) == IF cache[b] = Uncached THEN home[b] ELSE cache[b]

\* write_log: copy one modified block from the cache to the log.
WriteLog(p) ==
  /\ Goto(p, "write_log", IF tail + 1 < Len(lh) THEN "write_log" ELSE "write_head")
  /\ logdisk' = [logdisk EXCEPT ![tail + 1] = Bread(lh[tail + 1])]
  /\ tail' = tail + 1
  /\ UNCHANGED <<home, hdr, bufs, log, blk, left, boot, panicked>>

\* write_head: the commit point.
WriteHead(p) ==
  /\ Goto(p, "write_head", "install")
  /\ hdr' = lh
  /\ tail' = 0
  /\ UNCHANGED <<home, logdisk, bufs, log, blk, left, boot, panicked>>

\* One turn of install_trans: the log block is copied into the buffer of its
\* home block and written there, which clears B_DIRTY.
InstallBlock ==
  LET b == lh[tail + 1] IN
  /\ home' = [home EXCEPT ![b] = logdisk[tail + 1]]
  /\ cache' = [cache EXCEPT ![b] = logdisk[tail + 1]]
  /\ dirty' = [dirty EXCEPT ![b] = FALSE]
  /\ tail' = tail + 1
  /\ UNCHANGED <<logdisk, hdr>>

Install(p) ==
  /\ Goto(p, "install", IF tail + 1 < Len(lh) THEN "install" ELSE "clear")
  /\ InstallBlock
  /\ UNCHANGED <<log, blk, left, boot, panicked>>

\* log.lh.n = 0; write_head()
ClearHead ==
  /\ lh' = << >>
  /\ hdr' = << >>
  /\ UNCHANGED <<home, logdisk>>

Clear(p) ==
  /\ Goto(p, "clear", "end_commit")
  /\ ClearHead
  /\ UNCHANGED <<bufs, outstanding, committing, blk, left, tail, boot, panicked>>

\* Faulty variant: nobody is told that the commit is over.
EndCommitSilently(p) ==
  /\ Goto(p, "end_commit", "idle")
  /\ committing' = FALSE
  /\ UNCHANGED <<disk, bufs, lh, outstanding, blk, left, tail, boot, panicked>>

EndCommit(p) ==
  /\ At(p, "end_commit")
  /\ committing' = FALSE
  /\ WakeupLog(p, "idle")
  /\ UNCHANGED <<disk, bufs, lh, outstanding, blk, left, tail, boot, panicked>>

----------------------------------------------------------------------------
\* A crash loses the memory; initlog then recovers before any process runs.

Crash ==
  /\ cache' = [b \in Blocks |-> Uncached]
  /\ dirty' = [b \in Blocks |-> FALSE]
  /\ lh' = << >>
  /\ outstanding' = 0
  /\ committing' = FALSE
  /\ pc' = [p \in Procs |-> "idle"]
  /\ blk' = [p \in Procs |-> SomeBlock]
  /\ left' = [p \in Procs |-> 0]
  /\ tail' = 0
  /\ boot' = "read_head"
  /\ panicked' = FALSE
  /\ UNCHANGED disk

BootReadHead ==
  /\ boot = "read_head"
  /\ lh' = hdr
  /\ boot' = IF Len(hdr) > 0 THEN "install" ELSE "clear"
  /\ UNCHANGED <<disk, bufs, outstanding, committing, pc, blk, left, tail, panicked>>

BootInstall ==
  /\ boot = "install"
  /\ InstallBlock
  /\ boot' = IF tail + 1 < Len(lh) THEN "install" ELSE "clear"
  /\ UNCHANGED <<log, pc, blk, left, panicked>>

BootClear ==
  /\ boot = "clear"
  /\ ClearHead
  /\ boot' = "up"
  /\ UNCHANGED <<bufs, outstanding, committing, pc, blk, left, tail, panicked>>

----------------------------------------------------------------------------

\* Steps of a process inside begin_op, an operation or end_op.
Step(p) ==
  \/ BeginSleep(p)    \/ BeginOp(p)
  \/ LogWriteCheck(p) \/ LogWrite(p)
  \/ EndOp(p)         \/ EndOpCommit(p)
  \/ WriteLog(p)      \/ WriteHead(p) \/ Install(p)
  \/ Clear(p)         \/ EndCommit(p)

Recover == BootReadHead \/ BootInstall \/ BootClear

Next ==
  \/ \E p \in Procs : BeginCall(p) \/ Kill(p) \/ Step(p)
  \/ \E p \in Procs, b \in Blocks, d \in Data : Modify(p, b, d)
  \/ \E b \in Blocks : Evict(b)
  \/ Recover
  \/ Crash

Spec == Init /\ [][Next]_vars

\* Processes in the kernel keep running, operations end, and the boot goes on.
\* No fairness is assumed of crashes, kills, evictions or new operations.
FairSpec ==
  /\ Spec
  /\ \A p \in Procs : WF_vars(Step(p))
  /\ WF_vars(Recover)

----------------------------------------------------------------------------
\* The refinement mapping to AtomicDisk.

\* The home blocks as recover_from_log would leave them.
Recovered ==
  [b \in Blocks |->
     LET S == {i \in 1 .. Len(hdr) : hdr[i] = b}
     IN  IF S = {} THEN home[b] ELSE logdisk[CHOOSE i \in S : TRUE]]

\* What bread returns, or will return once recovery is over.
Visible == IF boot = "up" THEN [b \in Blocks |-> Bread(b)] ELSE Recovered

Active == {p \in Procs : pc[p] \in InOp}

Abstract == INSTANCE AtomicDisk
              WITH durable <- Recovered, current <- Visible, active <- Active

\* The log makes groups of whole operations atomic: through commits, crashes at
\* any step, and recoveries that crash again, what a reboot would find moves only
\* from one state without open operations to the next (log.c, commit and
\* recover_from_log implement AtomicDisk).
AtomicCommit == Abstract!Spec

----------------------------------------------------------------------------

\* begin_op's reservation is enough: log_write never panics with "too big a
\* transaction" or "outside of trans", end_op never meets a commit under way, and
\* write_log stays within the log's blocks on disk.
NoOverflow == ~panicked /\ Len(lh) <= nlog - 1

\* commit() works on log.lh without log.lock; nobody else may then be in an
\* operation or in a second commit, and log.outstanding counts the operations.
CommitAlone ==
  /\ TypeOK
  /\ outstanding = Cardinality(Active)
  /\ LET committers == {p \in Procs : pc[p] \in {"write_log", "write_head", "install",
                                                  "clear", "end_commit"}}
     IN  committing => Active = {} /\ Cardinality(committers) = 1

\* Every process asleep in begin_op runs again.
WaiterWakes == \A p \in Procs : pc[p] = "begin_sleep" ~> pc[p] # "begin_sleep"

\* If the machine stops crashing, recovery completes.
RecoveryEnds == <>[][~Crash]_vars => (boot # "up" ~> boot = "up")

\* begin_op lets everybody in some time, and a machine that stops crashing comes up.
LogProgress == WaiterWakes /\ RecoveryEnds
============================================================================
