----------------------------- MODULE LogProofs -----------------------------
(***************************************************************************)
(* The log, for any number of processes and blocks, and any size of the    *)
(* log: begin_op's reservation is enough, a commit is alone, and the log   *)
(* implements AtomicDisk through crashes and recovery.                     *)
(*                                                                         *)
(* The invariant Base says who commits (AloneInv), that nothing panics     *)
(* (SpaceInv), that no block is logged twice or changed by two processes   *)
(* (EntryInv), and where the contents of each block are at every stage of  *)
(* a commit and of a recovery (DiskInv).  It is inductive together with    *)
(* Counted, which is what the counting in the second half amounts to.      *)
(***************************************************************************)
EXTENDS Log, FiniteSetTheorems, TLAPS

Committer(p) == pc[p] \in {"write_log", "write_head", "install", "clear", "end_commit"}
Holding(p) == pc[p] \in {"check", "record"}

AloneInv ==
  /\ \A p \in Procs : Committer(p) => committing /\ \A q \in Procs : Committer(q) => q = p
  /\ committing => /\ \E p \in Procs : Committer(p)
                   /\ \A p \in Procs : pc[p] \notin InOp
  /\ boot # "up" => ~committing /\ \A p \in Procs : pc[p] = "idle"

\* What the log may hold: each operation leaves some of its reservation unused.
Limit == LOGSIZE - (MAXOPBLOCKS - OpBlocks)

\* Entries that the operation of p may still add to the log.
Owed(p) == IF Holding(p) THEN left[p] + 1 ELSE left[p]
Credit == {x \in Active \X (1 .. OpBlocks) : x[2] <= Owed(x[1])}

SpaceInv ==
  /\ ~panicked
  /\ \A p \in Procs : pc[p] \in InOp => Owed(p) <= OpBlocks

EntryInv ==
  /\ \A i, j \in 1 .. Len(lh) : lh[i] = lh[j] => i = j
  /\ \A i, j \in 1 .. Len(hdr) : hdr[i] = hdr[j] => i = j
  /\ Len(hdr) <= Limit
  /\ \A p, q \in Procs : Holding(p) /\ Holding(q) /\ blk[p] = blk[q] => p = q

Logged(b) == \E i \in 1 .. Len(lh) : lh[i] = b
Clean(b) == cache[b] = Uncached \/ cache[b] = home[b]

\* Installed up to tail, by a commit or by a recovery.
Installing ==
  /\ hdr = lh
  /\ tail < Len(lh)
  /\ \A i \in 1 .. tail : home[lh[i]] = logdisk[i] /\ Clean(lh[i])
  /\ \A b \in Blocks : ~Logged(b) => Clean(b)

Installed ==
  /\ hdr = lh
  /\ \A i \in 1 .. Len(lh) : home[lh[i]] = logdisk[i]
  /\ \A b \in Blocks : Clean(b)

\* recover_from_log, which starts with an empty cache
BootInv ==
  /\ boot = "read_head" => tail = 0 /\ \A b \in Blocks : cache[b] = Uncached
  /\ boot = "install" => Installing
  /\ boot = "clear" => Installed

\* The buffer of a block that is being changed is not recycled.
HoldInv == \A p \in Procs : Holding(p) => cache[blk[p]] # Uncached

\* Before the commit point: a logged block is pinned, and a block that is neither
\* logged nor being changed is on the disk.
Quiet == boot = "up" /\ \A p \in Procs : pc[p] \notin {"install", "clear"}
QuietInv ==
  Quiet =>
    /\ hdr = << >>
    /\ \A b \in Blocks : Logged(b) => dirty[b] /\ cache[b] # Uncached
    /\ \A b \in Blocks : ~Logged(b) /\ Unlocked(b) => Clean(b)

\* How far a commit has come.
CommitInv ==
  \A p \in Procs :
    /\ pc[p] = "write_log" =>
         /\ tail < Len(lh)
         /\ \A i \in 1 .. tail : logdisk[i] = cache[lh[i]]
    /\ pc[p] = "write_head" =>
         Len(lh) > 0 /\ \A i \in 1 .. Len(lh) : logdisk[i] = cache[lh[i]]
    /\ pc[p] = "install" =>
         /\ Installing
         /\ \A i \in tail + 1 .. Len(lh) : dirty[lh[i]] /\ cache[lh[i]] = logdisk[i]
    /\ pc[p] = "clear" => Installed
    /\ pc[p] = "end_commit" => lh = << >>

DiskInv == BootInv /\ HoldInv /\ QuietInv /\ CommitInv

Base == TypeOK /\ AloneInv /\ SpaceInv /\ EntryInv /\ DiskInv

\* log.outstanding tells the last operation from the others, and whoever is about to
\* log a block has room for it.
Counted ==
  /\ Len(lh) <= Limit
  /\ \A p \in Active : outstanding > 0
  /\ outstanding = 1 => \A p, q \in Active : p = q
  /\ \A p \in Procs : Holding(p) => Len(lh) < Limit

----------------------------------------------------------------------------

LEMMA LimitFacts == Limit \in Nat /\ Limit <= LOGSIZE
  BY SizeAssumption DEF Limit

\* A new file system establishes the invariant.
LEMMA InitBase == Init => Base /\ Active = {} /\ Credit = {} /\ lh = << >> /\ outstanding = 0
<1> SUFFICES ASSUME Init PROVE Base /\ Active = {} /\ Credit = {}
  BY Zenon DEF Init
<1>1. SomeBlock \in Blocks
  BY BlockAssumption DEF SomeBlock
<1>2. TypeOK
  <2>1. << >> \in Seq(Blocks) /\ 0 \in Nat /\ 0 \in 0 .. OpBlocks
    BY SizeAssumption
  <2> QED
    BY <1>1, <2>1, BlockAssumption, Zenon DEF Init, TypeOK, Locations
<1>3. Active = {} /\ Credit = {}
  BY DEF Init, Active, Credit, InOp
<1>4. AloneInv /\ SpaceInv
  BY DEF Init, AloneInv, SpaceInv, Committer, InOp
<1>5. EntryInv
  BY LimitFacts DEF Init, EntryInv, Holding
<1>6. DiskInv
  BY <1>1
  DEF Init, DiskInv, BootInv, HoldInv, QuietInv, CommitInv, Quiet, Holding, Clean, Logged
<1> QED
  BY <1>2, <1>3, <1>4, <1>5, <1>6 DEF Base

\* No step leaves the types: write_log and install_trans stay within the log's blocks.
LEMMA TypeStep ==
  ASSUME TypeOK, AloneInv, Counted, DiskInv, Limit <= nlog - 1, [Next]_vars
  PROVE  TypeOK'
<1>1. CASE UNCHANGED vars
  BY <1>1 DEF vars, TypeOK
<1>A. Len(lh) <= Limit
  BY DEF Counted
<1> USE <1>A, SizeAssumption, LimitFacts, BlockAssumption
<1>2. ASSUME NEW p \in Procs, BeginCall(p)
      PROVE  TypeOK'
  BY <1>2 DEF TypeOK, BeginCall, Goto, At, disk, bufs, log, Locations
<1>3. ASSUME NEW p \in Procs, BeginSleep(p)
      PROVE  TypeOK'
  BY <1>3 DEF TypeOK, BeginSleep, Goto, At, disk, bufs, log, Locations
<1>4. ASSUME NEW p \in Procs, BeginOp(p)
      PROVE  TypeOK'
  BY <1>4 DEF TypeOK, BeginOp, Goto, At, disk, bufs, log, MustWait, Locations
<1>5. ASSUME NEW p \in Procs, Kill(p)
      PROVE  TypeOK'
  BY <1>5 DEF TypeOK, Kill, Goto, At, disk, bufs, log, Locations
<1>6. ASSUME NEW p \in Procs, NEW b \in Blocks, NEW d \in Data, Modify(p, b, d)
      PROVE  TypeOK'
  BY <1>6 DEF TypeOK, Locations, Modify, Goto, At, disk, log
<1>7. ASSUME NEW p \in Procs, LogWriteCheck(p)
      PROVE  TypeOK'
  BY <1>7 DEF TypeOK, LogWriteCheck, Goto, At, disk, bufs, log, TooBig, Locations
<1>8. ASSUME NEW p \in Procs, LogWrite(p)
      PROVE  TypeOK'
  <2>1. SomeBlock \in Blocks
    BY BlockAssumption DEF SomeBlock
  <2>2. lh' \in Seq(Blocks)
    BY <1>8 DEF TypeOK, LogWrite
  <2> QED
    BY <1>8, <2>1, <2>2 DEF TypeOK, LogWrite, Goto, At, disk, Locations
<1>9. ASSUME NEW b \in Blocks, Evict(b)
      PROVE  TypeOK'
  BY <1>9 DEF TypeOK, Evict, disk, bufs, log, Unlocked, Locations
<1>10. ASSUME NEW p \in Procs, EndOp(p)
      PROVE  TypeOK'
  <2>1. p \in Active
    BY <1>10 DEF Active, InOp, EndOp, At
  <2>2. outstanding \in Nat /\ outstanding > 0
    BY <2>1 DEF Counted, TypeOK
  <2>3. outstanding - 1 \in Nat
    BY <2>2
  <2>4. pc' \in [Procs -> Locations]
    BY <1>10 DEF TypeOK, EndOp, WakeupLog, Locations
  <2> QED
    BY <1>10, <2>3, <2>4, Zenon DEF TypeOK, EndOp, disk, bufs
<1>11. ASSUME NEW p \in Procs, EndOpCommit(p)
      PROVE  TypeOK'
  BY <1>11 DEF TypeOK, EndOpCommit, Goto, At, disk, bufs, log, Locations
<1>12. ASSUME NEW p \in Procs, WriteLog(p)
      PROVE  TypeOK'
  <2>1. lh[tail + 1] \in Blocks
    BY <1>12 DEF TypeOK, DiskInv, CommitInv, WriteLog, Goto, At
  <2>2. Bread(lh[tail + 1]) \in Data
    BY <2>1 DEF TypeOK, Bread
  <2>3. logdisk' \in [LogSlots -> Data]
    BY <1>12, <2>2, Zenon DEF TypeOK, WriteLog
  <2> QED
    BY <1>12, <2>3 DEF TypeOK, WriteLog, Goto, At, bufs, log, Locations
<1>13. ASSUME NEW p \in Procs, WriteHead(p)
      PROVE  TypeOK'
  BY <1>13 DEF TypeOK, WriteHead, Goto, At, disk, bufs, log, Locations
<1>14. ASSUME NEW p \in Procs, Install(p)
      PROVE  TypeOK'
  BY <1>14
  DEF TypeOK, DiskInv, CommitInv, Installing, LogSlots, Locations, Install, Goto, At,
      InstallBlock, log
<1>15. ASSUME NEW p \in Procs, Clear(p)
      PROVE  TypeOK'
  BY <1>15 DEF TypeOK, Clear, Goto, At, disk, bufs, log, ClearHead, Locations
<1>16. ASSUME NEW p \in Procs, EndCommit(p)
      PROVE  TypeOK'
  <2>1. pc' \in [Procs -> Locations]
    BY <1>16 DEF TypeOK, EndCommit, WakeupLog, Locations
  <2> QED
    BY <1>16, <2>1, Zenon DEF TypeOK, EndCommit, disk, bufs
<1>17. ASSUME BootReadHead
      PROVE  TypeOK'
  BY <1>17 DEF TypeOK, BootReadHead, disk, bufs, log, Locations
<1>18. ASSUME BootInstall
      PROVE  TypeOK'
  BY <1>18
  DEF TypeOK, DiskInv, BootInv, Installing, LogSlots, BootInstall, InstallBlock, log
<1>19. ASSUME BootClear
      PROVE  TypeOK'
  BY <1>19 DEF TypeOK, BootClear, disk, bufs, log, ClearHead, Locations
<1>20. ASSUME Crash
      PROVE  TypeOK'
  <2>1. << >> \in Seq(Blocks) /\ 0 \in Nat /\ 0 \in 0 .. OpBlocks
    BY SizeAssumption
  <2>2. SomeBlock \in Blocks
    BY BlockAssumption DEF SomeBlock
  <2> QED
    BY <1>20, <2>1, <2>2, Zenon DEF TypeOK, Crash, disk, Locations
<1> QED
  BY <1>1, <1>2, <1>3, <1>4, <1>5, <1>6, <1>7, <1>8, <1>9, <1>10, <1>11, <1>12, <1>13,
     <1>14, <1>15, <1>16, <1>17, <1>18, <1>19, <1>20, Zenon
  DEF Next, Step, Recover

\* Only the process that takes log.outstanding from 1 to 0 commits, and begin_op lets nobody
\* in before it is done.
LEMMA AloneStep ==
  ASSUME TypeOK, AloneInv, Counted, [Next]_vars
  PROVE  AloneInv'
<1>1. CASE UNCHANGED vars
  BY <1>1 DEF vars, AloneInv, Committer, InOp
<1>2. /\ pc \in [Procs -> Locations]
      /\ outstanding \in Nat /\ committing \in BOOLEAN
      /\ boot \in {"read_head", "install", "clear", "up"}
  BY DEF TypeOK
<1> USE <1>2
<1>3. ASSUME NEW p \in Procs, BeginCall(p)
      PROVE  AloneInv'
  BY <1>3 DEF AloneInv, Committer, InOp, BeginCall, Goto, At, disk, bufs, log
<1>4. ASSUME NEW p \in Procs, BeginSleep(p)
      PROVE  AloneInv'
  BY <1>4 DEF AloneInv, Committer, InOp, BeginSleep, Goto, At, disk, bufs, log
<1>5. ASSUME NEW p \in Procs, BeginOp(p)
      PROVE  AloneInv'
  BY <1>5 DEF AloneInv, Committer, InOp, BeginOp, Goto, At, disk, bufs, log, MustWait
<1>6. ASSUME NEW p \in Procs, Kill(p)
      PROVE  AloneInv'
  BY <1>6 DEF AloneInv, Committer, InOp, Kill, Goto, At, disk, bufs, log
<1>7. ASSUME NEW p \in Procs, NEW b \in Blocks, NEW d \in Data, Modify(p, b, d)
      PROVE  AloneInv'
  BY <1>7 DEF AloneInv, Committer, InOp, Modify, Goto, At, disk, bufs, log, Unlocked
<1>8. ASSUME NEW p \in Procs, LogWriteCheck(p)
      PROVE  AloneInv'
  BY <1>8 DEF AloneInv, Committer, InOp, LogWriteCheck, Goto, At, disk, bufs, log, TooBig
<1>9. ASSUME NEW p \in Procs, LogWrite(p)
      PROVE  AloneInv'
  BY <1>9 DEF AloneInv, Committer, InOp, LogWrite, Goto, At, disk, bufs, log
<1>10. ASSUME NEW b \in Blocks, Evict(b)
      PROVE  AloneInv'
  BY <1>10 DEF AloneInv, Committer, InOp, Evict, disk, bufs, log, Unlocked
<1>11. ASSUME NEW p \in Procs, EndOp(p)
      PROVE  AloneInv'
  BY <1>11 DEF AloneInv, Committer, InOp, EndOp, At, disk, bufs, log, WakeupLog
<1>12. ASSUME NEW p \in Procs, EndOpCommit(p)
      PROVE  AloneInv'
  <2>1. /\ pc[p] = "op" /\ outstanding = 1 /\ committing' /\ boot' = boot /\ boot = "up"
        /\ pc' = [pc EXCEPT ![p] = IF Len(lh) > 0 THEN "write_log" ELSE "end_commit"]
    BY <1>12 DEF EndOpCommit, Goto, At
  <2>2. \A q \in Procs : pc[q] \in InOp => q = p
    BY <2>1 DEF Counted, Active, InOp
  <2>3. \A q \in Procs : ~Committer(q)
    BY <2>1 DEF AloneInv, InOp
  <2> QED
    BY <2>1, <2>2, <2>3 DEF AloneInv, Committer, InOp
<1>13. ASSUME NEW p \in Procs, WriteLog(p)
      PROVE  AloneInv'
  BY <1>13 DEF AloneInv, Committer, InOp, WriteLog, Goto, At, disk, bufs, log
<1>14. ASSUME NEW p \in Procs, WriteHead(p)
      PROVE  AloneInv'
  BY <1>14 DEF AloneInv, Committer, InOp, WriteHead, Goto, At, disk, bufs, log
<1>15. ASSUME NEW p \in Procs, Install(p)
      PROVE  AloneInv'
  BY <1>15 DEF AloneInv, Committer, InOp, Install, Goto, At, disk, bufs, log, InstallBlock
<1>16. ASSUME NEW p \in Procs, Clear(p)
      PROVE  AloneInv'
  BY <1>16 DEF AloneInv, Committer, InOp, Clear, Goto, At, disk, bufs, log, ClearHead
<1>17. ASSUME NEW p \in Procs, EndCommit(p)
      PROVE  AloneInv'
  BY <1>17 DEF AloneInv, Committer, InOp, EndCommit, At, disk, bufs, log, WakeupLog
<1>18. ASSUME BootReadHead
      PROVE  AloneInv'
  BY <1>18 DEF AloneInv, Committer, InOp, BootReadHead, disk, bufs, log
<1>19. ASSUME BootInstall
      PROVE  AloneInv'
  BY <1>19 DEF AloneInv, Committer, InOp, BootInstall, disk, bufs, log, InstallBlock
<1>20. ASSUME BootClear
      PROVE  AloneInv'
  BY <1>20 DEF AloneInv, Committer, InOp, BootClear, disk, bufs, log, ClearHead
<1>21. ASSUME Crash
      PROVE  AloneInv'
  BY <1>21 DEF AloneInv, Committer, InOp, Crash, disk, bufs, log
<1> QED
  BY <1>1, <1>2, <1>3, <1>4, <1>5, <1>6, <1>7, <1>8, <1>9, <1>10, <1>11, <1>12, <1>13,
     <1>14, <1>15, <1>16, <1>17, <1>18, <1>19, <1>20, <1>21, Zenon
  DEF Next, Step, Recover

\* log_write has room for its block and finds an operation open, and end_op finds no commit
\* under way.
LEMMA SpaceStep ==
  ASSUME TypeOK, AloneInv, SpaceInv, Counted, Limit <= nlog - 1, [Next]_vars
  PROVE  SpaceInv'
<1>1. CASE UNCHANGED vars
  BY <1>1 DEF vars, SpaceInv, Owed, Holding
<1>2. /\ pc \in [Procs -> Locations]
      /\ left \in [Procs -> 0 .. OpBlocks]
      /\ Len(lh) \in Nat
      /\ outstanding \in Nat /\ committing \in BOOLEAN
  BY DEF TypeOK
<1> USE <1>2, SizeAssumption, LimitFacts
<1>3. ASSUME NEW p \in Procs, BeginCall(p)
      PROVE  SpaceInv'
  BY <1>3 DEF SpaceInv, Owed, Holding, InOp, BeginCall, Goto, At, disk, bufs, log
<1>4. ASSUME NEW p \in Procs, BeginSleep(p)
      PROVE  SpaceInv'
  BY <1>4 DEF SpaceInv, Owed, Holding, InOp, BeginSleep, Goto, At, disk, bufs, log
<1>5. ASSUME NEW p \in Procs, BeginOp(p)
      PROVE  SpaceInv'
  BY <1>5 DEF SpaceInv, Owed, Holding, InOp, BeginOp, Goto, At, disk, bufs, log, MustWait
<1>6. ASSUME NEW p \in Procs, Kill(p)
      PROVE  SpaceInv'
  BY <1>6 DEF SpaceInv, Owed, Holding, InOp, Kill, Goto, At, disk, bufs, log
<1>7. ASSUME NEW p \in Procs, NEW b \in Blocks, NEW d \in Data, Modify(p, b, d)
      PROVE  SpaceInv'
  BY <1>7 DEF SpaceInv, Owed, Holding, InOp, Modify, Goto, At, disk, bufs, log, Unlocked
<1>8. ASSUME NEW p \in Procs, LogWriteCheck(p)
      PROVE  SpaceInv'
  <2>1. pc[p] = "check" /\ pc' = [pc EXCEPT ![p] = "record"] /\ left' = left
    BY <1>8 DEF LogWriteCheck, Goto, At
  <2>2. Len(lh) < Limit
    BY <2>1, Zenon DEF Counted, Holding
  <2>3. p \in Active
    BY <2>1 DEF Active, InOp
  <2>4. outstanding > 0
    BY <2>3, Zenon DEF Counted
  <2>5. ~TooBig /\ ~(outstanding < 1)
    BY <2>2, <2>4 DEF TooBig
  <2>6. ~panicked'
    BY <1>8, <2>5, Zenon DEF LogWriteCheck
  <2> QED
    BY <2>1, <2>6 DEF SpaceInv, Owed, Holding, InOp
<1>9. ASSUME NEW p \in Procs, LogWrite(p)
      PROVE  SpaceInv'
  BY <1>9 DEF SpaceInv, Owed, Holding, InOp, LogWrite, Goto, At, disk, bufs, log
<1>10. ASSUME NEW b \in Blocks, Evict(b)
      PROVE  SpaceInv'
  BY <1>10 DEF SpaceInv, Owed, Holding, InOp, Evict, disk, bufs, log, Unlocked
<1>11. ASSUME NEW p \in Procs, EndOp(p)
      PROVE  SpaceInv'
  <2>1. pc[p] = "op" /\ panicked' = committing /\ left' = left
    BY <1>11 DEF EndOp, At, disk, bufs, log, WakeupLog
  <2>2. ~panicked'
    BY <2>1 DEF AloneInv, InOp
  <2>3. \A q \in Procs : pc'[q] \in InOp => pc'[q] = pc[q]
    BY <1>11 DEF InOp, EndOp, At, disk, bufs, log, WakeupLog
  <2> QED
    BY <2>1, <2>2, <2>3 DEF SpaceInv, Owed, Holding
<1>12. ASSUME NEW p \in Procs, EndOpCommit(p)
      PROVE  SpaceInv'
  <2>1. pc[p] = "op" /\ panicked' = committing /\ left' = left
    BY <1>12 DEF EndOpCommit, Goto, At, disk, bufs, log
  <2>2. ~panicked'
    BY <2>1 DEF AloneInv, InOp
  <2>3. \A q \in Procs : pc'[q] \in InOp => pc'[q] = pc[q]
    BY <1>12 DEF InOp, EndOpCommit, Goto, At, disk, bufs, log
  <2> QED
    BY <2>1, <2>2, <2>3 DEF SpaceInv, Owed, Holding
<1>13. ASSUME NEW p \in Procs, WriteLog(p)
      PROVE  SpaceInv'
  BY <1>13 DEF SpaceInv, Owed, Holding, InOp, WriteLog, Goto, At, disk, bufs, log
<1>14. ASSUME NEW p \in Procs, WriteHead(p)
      PROVE  SpaceInv'
  BY <1>14 DEF SpaceInv, Owed, Holding, InOp, WriteHead, Goto, At, disk, bufs, log
<1>15. ASSUME NEW p \in Procs, Install(p)
      PROVE  SpaceInv'
  BY <1>15
  DEF SpaceInv, Owed, Holding, InOp, Install, Goto, At, disk, bufs, log, InstallBlock
<1>16. ASSUME NEW p \in Procs, Clear(p)
      PROVE  SpaceInv'
  BY <1>16 DEF SpaceInv, Owed, Holding, InOp, Clear, Goto, At, disk, bufs, log, ClearHead
<1>17. ASSUME NEW p \in Procs, EndCommit(p)
      PROVE  SpaceInv'
  BY <1>17 DEF SpaceInv, Owed, Holding, InOp, EndCommit, At, disk, bufs, log, WakeupLog
<1>18. ASSUME BootReadHead
      PROVE  SpaceInv'
  BY <1>18 DEF SpaceInv, Owed, Holding, InOp, BootReadHead, disk, bufs, log
<1>19. ASSUME BootInstall
      PROVE  SpaceInv'
  BY <1>19 DEF SpaceInv, Owed, Holding, InOp, BootInstall, disk, bufs, log, InstallBlock
<1>20. ASSUME BootClear
      PROVE  SpaceInv'
  BY <1>20 DEF SpaceInv, Owed, Holding, InOp, BootClear, disk, bufs, log, ClearHead
<1>21. ASSUME Crash
      PROVE  SpaceInv'
  BY <1>21 DEF SpaceInv, Owed, Holding, InOp, Crash, disk, bufs, log
<1> QED
  BY <1>1, <1>2, <1>3, <1>4, <1>5, <1>6, <1>7, <1>8, <1>9, <1>10, <1>11, <1>12, <1>13,
     <1>14, <1>15, <1>16, <1>17, <1>18, <1>19, <1>20, <1>21, Zenon
  DEF Next, Step, Recover

\* log_write absorbs a block that is in the log already, and bread's buffer lock keeps a
\* block with one process.
LEMMA EntryStep ==
  ASSUME TypeOK, Counted, EntryInv, [Next]_vars
  PROVE  EntryInv'
<1>1. CASE UNCHANGED vars
  BY <1>1 DEF vars, EntryInv, Holding
<1>2. /\ pc \in [Procs -> Locations]
      /\ blk \in [Procs -> Blocks]
      /\ lh \in Seq(Blocks) /\ hdr \in Seq(Blocks)
      /\ Len(lh) \in Nat /\ Len(lh) <= Limit
  BY DEF TypeOK, Counted
<1> USE <1>2, SizeAssumption, LimitFacts DEF EntryInv, Holding
<1>3. ASSUME NEW p \in Procs, BeginCall(p)
      PROVE  EntryInv'
  BY <1>3 DEF BeginCall, Goto, At, disk, bufs, log
<1>4. ASSUME NEW p \in Procs, BeginSleep(p)
      PROVE  EntryInv'
  BY <1>4 DEF BeginSleep, Goto, At, disk, bufs, log
<1>5. ASSUME NEW p \in Procs, BeginOp(p)
      PROVE  EntryInv'
  BY <1>5 DEF BeginOp, Goto, At, disk, bufs, log, MustWait
<1>6. ASSUME NEW p \in Procs, Kill(p)
      PROVE  EntryInv'
  BY <1>6 DEF Kill, Goto, At, disk, bufs, log
<1>7. ASSUME NEW p \in Procs, NEW b \in Blocks, NEW d \in Data, Modify(p, b, d)
      PROVE  EntryInv'
  BY <1>7 DEF Modify, Goto, At, disk, bufs, log, Unlocked
<1>8. ASSUME NEW p \in Procs, LogWriteCheck(p)
      PROVE  EntryInv'
  BY <1>8 DEF LogWriteCheck, Goto, At, disk, bufs, log, TooBig
<1>9. ASSUME NEW p \in Procs, LogWrite(p)
      PROVE  EntryInv'
  BY <1>9, SMTT(30) DEF LogWrite, Goto, At, disk, bufs, log
<1>10. ASSUME NEW b \in Blocks, Evict(b)
      PROVE  EntryInv'
  BY <1>10 DEF Evict, disk, bufs, log, Unlocked
<1>11. ASSUME NEW p \in Procs, EndOp(p)
      PROVE  EntryInv'
  BY <1>11 DEF EndOp, At, disk, bufs, log, WakeupLog
<1>12. ASSUME NEW p \in Procs, EndOpCommit(p)
      PROVE  EntryInv'
  BY <1>12 DEF EndOpCommit, Goto, At, disk, bufs, log
<1>13. ASSUME NEW p \in Procs, WriteLog(p)
      PROVE  EntryInv'
  BY <1>13 DEF WriteLog, Goto, At, disk, bufs, log
<1>14. ASSUME NEW p \in Procs, WriteHead(p)
      PROVE  EntryInv'
  BY <1>14 DEF WriteHead, Goto, At, disk, bufs, log
<1>15. ASSUME NEW p \in Procs, Install(p)
      PROVE  EntryInv'
  BY <1>15 DEF Install, Goto, At, disk, bufs, log, InstallBlock
<1>16. ASSUME NEW p \in Procs, Clear(p)
      PROVE  EntryInv'
  BY <1>16 DEF Clear, Goto, At, disk, bufs, log, ClearHead
<1>17. ASSUME NEW p \in Procs, EndCommit(p)
      PROVE  EntryInv'
  BY <1>17 DEF EndCommit, At, disk, bufs, log, WakeupLog
<1>18. ASSUME BootReadHead
      PROVE  EntryInv'
  BY <1>18 DEF BootReadHead, disk, bufs, log
<1>19. ASSUME BootInstall
      PROVE  EntryInv'
  BY <1>19 DEF BootInstall, disk, bufs, log, InstallBlock
<1>20. ASSUME BootClear
      PROVE  EntryInv'
  BY <1>20 DEF BootClear, disk, bufs, log, ClearHead
<1>21. ASSUME Crash
      PROVE  EntryInv'
  BY <1>21 DEF Crash, disk, bufs, log
<1> HIDE DEF EntryInv, Holding
<1> QED
  BY <1>1, <1>2, <1>3, <1>4, <1>5, <1>6, <1>7, <1>8, <1>9, <1>10, <1>11, <1>12, <1>13,
     <1>14, <1>15, <1>16, <1>17, <1>18, <1>19, <1>20, <1>21, Zenon
  DEF Next, Step, Recover

\* recover_from_log installs what the header names, block by block.
LEMMA BootStep ==
  ASSUME TypeOK, AloneInv, Counted, EntryInv, DiskInv, Limit <= nlog - 1, [Next]_vars
  PROVE  BootInv'
<1>1. CASE UNCHANGED vars
  BY <1>1 DEF vars, DiskInv, BootInv, Installing, Installed, Clean, Logged
<1>2. /\ lh \in Seq(Blocks) /\ hdr \in Seq(Blocks)
      /\ Len(lh) \in Nat /\ Len(lh) <= Limit
      /\ home \in [Blocks -> Data] /\ logdisk \in [LogSlots -> Data]
      /\ cache \in [Blocks -> Data \cup {Uncached}]
      /\ tail \in Nat
  BY DEF TypeOK, Counted
<1> USE <1>2, SizeAssumption, LimitFacts, BlockAssumption
<1>3. ASSUME NEW p \in Procs, BeginCall(p)
      PROVE  BootInv'
  BY <1>3 DEF BootInv, BeginCall, Goto, At
<1>4. ASSUME NEW p \in Procs, BeginSleep(p)
      PROVE  BootInv'
  BY <1>4 DEF BootInv, BeginSleep, Goto, At
<1>5. ASSUME NEW p \in Procs, BeginOp(p)
      PROVE  BootInv'
  BY <1>5 DEF BootInv, BeginOp, Goto, At
<1>6. ASSUME NEW p \in Procs, Kill(p)
      PROVE  BootInv'
  BY <1>6 DEF BootInv, Kill, Goto, At
<1>7. ASSUME NEW p \in Procs, NEW b \in Blocks, NEW d \in Data, Modify(p, b, d)
      PROVE  BootInv'
  BY <1>7 DEF BootInv, Modify, Goto, At
<1>8. ASSUME NEW p \in Procs, LogWriteCheck(p)
      PROVE  BootInv'
  BY <1>8 DEF BootInv, LogWriteCheck, Goto, At
<1>9. ASSUME NEW p \in Procs, LogWrite(p)
      PROVE  BootInv'
  BY <1>9 DEF BootInv, LogWrite, Goto, At
<1>10. ASSUME NEW b \in Blocks, Evict(b)
      PROVE  BootInv'
  BY <1>10 DEF BootInv, Evict
<1>11. ASSUME NEW p \in Procs, EndOp(p)
      PROVE  BootInv'
  BY <1>11 DEF BootInv, EndOp, At
<1>12. ASSUME NEW p \in Procs, EndOpCommit(p)
      PROVE  BootInv'
  BY <1>12 DEF BootInv, EndOpCommit, Goto, At
<1>13. ASSUME NEW p \in Procs, WriteLog(p)
      PROVE  BootInv'
  BY <1>13, SMTT(30) DEF BootInv, WriteLog, Goto, At
<1>14. ASSUME NEW p \in Procs, WriteHead(p)
      PROVE  BootInv'
  BY <1>14 DEF BootInv, WriteHead, Goto, At
<1>15. ASSUME NEW p \in Procs, Install(p)
      PROVE  BootInv'
  BY <1>15 DEF BootInv, Install, Goto, At
<1>16. ASSUME NEW p \in Procs, Clear(p)
      PROVE  BootInv'
  BY <1>16 DEF BootInv, Clear, Goto, At
<1>17. ASSUME NEW p \in Procs, EndCommit(p)
      PROVE  BootInv'
  BY <1>17 DEF BootInv, EndCommit, At
<1>18. ASSUME BootReadHead
      PROVE  BootInv'
  BY <1>18, SMTT(30)
  DEF DiskInv, BootInv, Installing, Installed, Clean, Logged, BootReadHead, disk, bufs
<1>19. ASSUME BootInstall
      PROVE  BootInv'
  BY <1>19, SMTT(30)
  DEF DiskInv, BootInv, EntryInv, Installing, Installed, Clean, Logged, LogSlots,
      BootInstall, InstallBlock, log
<1>20. ASSUME BootClear
      PROVE  BootInv'
  BY <1>20, Zenon DEF BootInv, BootClear
<1>21. ASSUME Crash
      PROVE  BootInv'
  BY <1>21 DEF BootInv, Crash
<1> QED
  BY <1>1, <1>2, <1>3, <1>4, <1>5, <1>6, <1>7, <1>8, <1>9, <1>10, <1>11, <1>12, <1>13,
     <1>14, <1>15, <1>16, <1>17, <1>18, <1>19, <1>20, <1>21, Zenon
  DEF Next, Step, Recover

\* bread has read a block before it is changed, and bget leaves a locked buffer alone.
LEMMA HoldStep ==
  ASSUME TypeOK, AloneInv, Counted, EntryInv, DiskInv, Limit <= nlog - 1, [Next]_vars
  PROVE  HoldInv'
<1>1. CASE UNCHANGED vars
  BY <1>1 DEF vars, DiskInv, HoldInv, Holding
<1>2. /\ pc \in [Procs -> Locations]
      /\ blk \in [Procs -> Blocks]
      /\ lh \in Seq(Blocks) /\ hdr \in Seq(Blocks)
      /\ Len(lh) \in Nat /\ Len(lh) <= Limit
      /\ home \in [Blocks -> Data] /\ logdisk \in [LogSlots -> Data]
      /\ cache \in [Blocks -> Data \cup {Uncached}]
      /\ tail \in Nat
  BY SMTT(30) DEF TypeOK, Counted
<1> USE <1>2, SizeAssumption, LimitFacts, BlockAssumption
<1>3. ASSUME NEW p \in Procs, BeginCall(p)
      PROVE  HoldInv'
  BY <1>3 DEF DiskInv, HoldInv, Holding, BeginCall, Goto, At, disk, bufs, log
<1>4. ASSUME NEW p \in Procs, BeginSleep(p)
      PROVE  HoldInv'
  BY <1>4 DEF DiskInv, HoldInv, Holding, BeginSleep, Goto, At, disk, bufs, log
<1>5. ASSUME NEW p \in Procs, BeginOp(p)
      PROVE  HoldInv'
  BY <1>5 DEF DiskInv, HoldInv, Holding, BeginOp, Goto, At, disk, bufs, log, MustWait
<1>6. ASSUME NEW p \in Procs, Kill(p)
      PROVE  HoldInv'
  BY <1>6, SMTT(30) DEF DiskInv, HoldInv, Holding, Kill, Goto, At, disk, bufs, log
<1>7. ASSUME NEW p \in Procs, NEW b \in Blocks, NEW d \in Data, Modify(p, b, d)
      PROVE  HoldInv'
  BY <1>7 DEF DiskInv, HoldInv, Holding, Modify, Goto, At, disk, bufs, log, Unlocked
<1>8. ASSUME NEW p \in Procs, LogWriteCheck(p)
      PROVE  HoldInv'
  BY <1>8 DEF DiskInv, HoldInv, Holding, LogWriteCheck, Goto, At, disk, bufs, log, TooBig
<1>9. ASSUME NEW p \in Procs, LogWrite(p)
      PROVE  HoldInv'
  BY <1>9 DEF DiskInv, HoldInv, Holding, LogWrite, Goto, At, disk, bufs, log
<1>10. ASSUME NEW b \in Blocks, Evict(b)
      PROVE  HoldInv'
  BY <1>10 DEF DiskInv, HoldInv, Holding, Evict, disk, bufs, log, Unlocked
<1>11. ASSUME NEW p \in Procs, EndOp(p)
      PROVE  HoldInv'
  BY <1>11 DEF DiskInv, HoldInv, Holding, EndOp, At, disk, bufs, log, WakeupLog
<1>12. ASSUME NEW p \in Procs, EndOpCommit(p)
      PROVE  HoldInv'
  BY <1>12 DEF DiskInv, HoldInv, Holding, EndOpCommit, Goto, At, disk, bufs, log
<1>13. ASSUME NEW p \in Procs, WriteLog(p)
      PROVE  HoldInv'
  BY <1>13 DEF DiskInv, HoldInv, Holding, WriteLog, Goto, At, disk, bufs, log
<1>14. ASSUME NEW p \in Procs, WriteHead(p)
      PROVE  HoldInv'
  BY <1>14, SMTT(30) DEF DiskInv, HoldInv, Holding, WriteHead, Goto, At, disk, bufs, log
<1>15. ASSUME NEW p \in Procs, Install(p)
      PROVE  HoldInv'
  BY <1>15
  DEF DiskInv, HoldInv, Holding, LogSlots, CommitInv, Installing, Install, Goto, At, disk,
      bufs, log, InstallBlock
<1>16. ASSUME NEW p \in Procs, Clear(p)
      PROVE  HoldInv'
  BY <1>16 DEF DiskInv, HoldInv, Holding, Clear, Goto, At, disk, bufs, log, ClearHead
<1>17. ASSUME NEW p \in Procs, EndCommit(p)
      PROVE  HoldInv'
  BY <1>17 DEF DiskInv, HoldInv, Holding, EndCommit, At, disk, bufs, log, WakeupLog
<1>18. ASSUME BootReadHead
      PROVE  HoldInv'
  BY <1>18, SMTT(30) DEF DiskInv, HoldInv, Holding, BootReadHead, disk, bufs, log
<1>19. ASSUME BootInstall
      PROVE  HoldInv'
  BY <1>19 DEF AloneInv, HoldInv, Holding, BootInstall, InstallBlock
<1>20. ASSUME BootClear
      PROVE  HoldInv'
  BY <1>20 DEF DiskInv, HoldInv, Holding, BootClear, disk, bufs, log, ClearHead
<1>21. ASSUME Crash
      PROVE  HoldInv'
  BY <1>21 DEF DiskInv, HoldInv, Holding, Crash, disk, bufs, log
<1> QED
  BY <1>1, <1>2, <1>3, <1>4, <1>5, <1>6, <1>7, <1>8, <1>9, <1>10, <1>11, <1>12, <1>13,
     <1>14, <1>15, <1>16, <1>17, <1>18, <1>19, <1>20, <1>21, Zenon
  DEF Next, Step, Recover

\* log_write pins what it logs; until the header is written, every other block is on the
\* disk as it is in the cache, and the header on the disk is empty.
LEMMA QuietStep ==
  ASSUME TypeOK, AloneInv, Counted, EntryInv, DiskInv, Limit <= nlog - 1, [Next]_vars
  PROVE  QuietInv'
<1>1. CASE UNCHANGED vars
  BY <1>1, Zenon DEF vars, DiskInv, QuietInv, Quiet, Clean, Logged, Unlocked
<1>2. /\ pc \in [Procs -> Locations]
      /\ blk \in [Procs -> Blocks]
      /\ lh \in Seq(Blocks) /\ hdr \in Seq(Blocks)
      /\ Len(lh) \in Nat /\ Len(lh) <= Limit
      /\ home \in [Blocks -> Data] /\ logdisk \in [LogSlots -> Data]
      /\ cache \in [Blocks -> Data \cup {Uncached}]
      /\ dirty \in [Blocks -> BOOLEAN]
      /\ tail \in Nat
      /\ outstanding \in Nat /\ committing \in BOOLEAN
      /\ boot \in {"read_head", "install", "clear", "up"}
  BY DEF TypeOK, Counted
<1> USE <1>2, SizeAssumption, LimitFacts, BlockAssumption DEF DiskInv
<1>3. ASSUME NEW p \in Procs, BeginCall(p)
      PROVE  QuietInv'
  <2>1. UNCHANGED <<home, hdr, cache, dirty, lh>>
    BY <1>3 DEF BeginCall, Goto, At, disk, bufs, log
  <2>2. Quiet' => Quiet
    BY <1>3 DEF Quiet, BeginCall, Goto, At, disk, bufs, log
  <2>3. \A b \in Blocks : Unlocked(b)' => Unlocked(b)
    BY <1>3 DEF Unlocked, BeginCall, Goto, At, disk, bufs, log
  <2> QED
    BY <2>1, <2>2, <2>3, Zenon DEF QuietInv, Logged, Clean
<1>4. ASSUME NEW p \in Procs, BeginSleep(p)
      PROVE  QuietInv'
  <2>1. UNCHANGED <<home, hdr, cache, dirty, lh>>
    BY <1>4 DEF BeginSleep, Goto, At, disk, bufs, log
  <2>2. Quiet' => Quiet
    BY <1>4 DEF Quiet, BeginSleep, Goto, At, disk, bufs, log
  <2>3. \A b \in Blocks : Unlocked(b)' => Unlocked(b)
    BY <1>4 DEF Unlocked, BeginSleep, Goto, At, disk, bufs, log
  <2> QED
    BY <2>1, <2>2, <2>3, Zenon DEF QuietInv, Logged, Clean
<1>5. ASSUME NEW p \in Procs, BeginOp(p)
      PROVE  QuietInv'
  <2>1. UNCHANGED <<home, hdr, cache, dirty, lh>>
    BY <1>5, SMTT(30) DEF BeginOp, Goto, At, disk, bufs, log, MustWait
  <2>2. Quiet' => Quiet
    BY <1>5 DEF Quiet, BeginOp, Goto, At, disk, bufs, log, MustWait
  <2>3. \A b \in Blocks : Unlocked(b)' => Unlocked(b)
    BY <1>5 DEF Unlocked, BeginOp, Goto, At, disk, bufs, log, MustWait
  <2> QED
    BY <2>1, <2>2, <2>3, Zenon DEF QuietInv, Logged, Clean
<1>6. ASSUME NEW p \in Procs, Kill(p)
      PROVE  QuietInv'
  <2>1. UNCHANGED <<home, hdr, cache, dirty, lh>>
    BY <1>6 DEF Kill, Goto, At, disk, bufs, log
  <2>2. Quiet' => Quiet
    BY <1>6 DEF Quiet, Kill, Goto, At, disk, bufs, log
  <2>3. \A b \in Blocks : Unlocked(b)' => Unlocked(b)
    BY <1>6 DEF Unlocked, Kill, Goto, At, disk, bufs, log
  <2> QED
    BY <2>1, <2>2, <2>3, Zenon DEF QuietInv, Logged, Clean
<1>7. ASSUME NEW p \in Procs, NEW b \in Blocks, NEW d \in Data, Modify(p, b, d)
      PROVE  QuietInv'
  <2>1. /\ UNCHANGED <<home, hdr, dirty, lh>>
        /\ \A c \in Blocks : c # b => cache'[c] = cache[c]
        /\ cache'[b] # Uncached
    BY <1>7 DEF Modify, Goto, At, disk, bufs, log
  <2>2. Quiet' => Quiet
    BY <1>7 DEF Quiet, Modify, Goto, At, disk, bufs, log, Unlocked
  <2>3. ~Unlocked(b)' /\ \A c \in Blocks : Unlocked(c)' => Unlocked(c)
    BY <1>7, SMTT(30) DEF Unlocked, Goto, At, Modify
  <2> QED
    BY <2>1, <2>2, <2>3, Zenon DEF QuietInv, Logged, Clean
<1>8. ASSUME NEW p \in Procs, LogWriteCheck(p)
      PROVE  QuietInv'
  <2>1. UNCHANGED <<home, hdr, cache, dirty, lh>>
    BY <1>8 DEF LogWriteCheck, Goto, At, disk, bufs, log, TooBig
  <2>2. Quiet' => Quiet
    BY <1>8 DEF Quiet, LogWriteCheck, Goto, At, disk, bufs, log, TooBig
  <2>3. \A b \in Blocks : Unlocked(b)' => Unlocked(b)
    BY <1>8 DEF Unlocked, LogWriteCheck, Goto, At, disk, bufs, log, TooBig
  <2> QED
    BY <2>1, <2>2, <2>3, Zenon DEF QuietInv, Logged, Clean
<1>9. ASSUME NEW p \in Procs, LogWrite(p)
      PROVE  QuietInv'
  <2>1. PICK c \in Blocks : c = blk[p]
    BY <1>9, SMTT(30) DEF LogWrite
  <2>2. /\ UNCHANGED <<home, hdr, cache>>
        /\ \A b \in Blocks : b # c => dirty'[b] = dirty[b]
        /\ dirty'[c] = TRUE
    BY <1>9, <2>1 DEF LogWrite, disk
  <2>3. Quiet' => Quiet
    BY <1>9, SMTT(30) DEF Quiet, LogWrite, Goto, At
  <2>4. \A b \in Blocks : b # c /\ Unlocked(b)' => Unlocked(b)
    BY <1>9, <2>1, SMTT(30) DEF Unlocked, Goto, At, LogWrite
  <2>5. Logged(c)' /\ \A b \in Blocks : b # c => (Logged(b)' <=> Logged(b))
    BY <1>9, <2>1 DEF Logged, LogWrite
  <2>6. cache[c] # Uncached
    BY <1>9, <2>1 DEF HoldInv, Holding, LogWrite, Goto, At
  <2> QED
    BY <2>2, <2>3, <2>4, <2>5, <2>6, Zenon DEF QuietInv, Clean
<1>10. ASSUME NEW b \in Blocks, Evict(b)
      PROVE  QuietInv'
  <2>1. /\ UNCHANGED <<home, hdr, dirty, lh, pc, blk, boot>>
        /\ ~dirty[b]
        /\ \A c \in Blocks : c # b => cache'[c] = cache[c]
        /\ cache'[b] = Uncached
    BY <1>10 DEF Evict, disk, log
  <2>2. (Quiet' => Quiet) /\ \A c \in Blocks : Unlocked(c)' => Unlocked(c)
    BY <2>1, Zenon DEF Quiet, Unlocked
  <2> QED
    BY <2>1, <2>2, Zenon DEF QuietInv, Clean, Logged
<1>11. ASSUME NEW p \in Procs, EndOp(p)
      PROVE  QuietInv'
  <2>1. UNCHANGED <<home, hdr, cache, dirty, lh>>
    BY <1>11 DEF EndOp, At, disk, bufs, log, WakeupLog
  <2>2. Quiet' => Quiet
    BY <1>11, SMTT(30) DEF Quiet, EndOp, At, disk, bufs, log, WakeupLog
  <2>3. \A b \in Blocks : Unlocked(b)' => Unlocked(b)
    BY <1>11, SMTT(30) DEF Unlocked, EndOp, At, disk, bufs, log, WakeupLog
  <2> QED
    BY <2>1, <2>2, <2>3, Zenon DEF QuietInv, Logged, Clean
<1>12. ASSUME NEW p \in Procs, EndOpCommit(p)
      PROVE  QuietInv'
  <2>1. UNCHANGED <<home, hdr, cache, dirty, lh>>
    BY <1>12 DEF EndOpCommit, Goto, At, disk, bufs, log
  <2>2. Quiet' => Quiet
    BY <1>12 DEF Quiet, EndOpCommit, Goto, At, disk, bufs, log
  <2>3. \A b \in Blocks : Unlocked(b)' => Unlocked(b)
    BY <1>12, SMTT(30) DEF Unlocked, EndOpCommit, Goto, At, disk, bufs, log
  <2> QED
    BY <2>1, <2>2, <2>3, Zenon DEF QuietInv, Logged, Clean
<1>13. ASSUME NEW p \in Procs, WriteLog(p)
      PROVE  QuietInv'
  <2>1. UNCHANGED <<home, hdr, cache, dirty, lh>>
    BY <1>13, SMTT(30) DEF WriteLog, Goto, At, disk, bufs, log
  <2>2. Quiet' => Quiet
    BY <1>13 DEF Quiet, WriteLog, Goto, At, disk, bufs, log
  <2>3. \A b \in Blocks : Unlocked(b)' => Unlocked(b)
    BY <1>13, SMTT(30) DEF Unlocked, WriteLog, Goto, At, disk, bufs, log
  <2> QED
    BY <2>1, <2>2, <2>3, Zenon DEF QuietInv, Logged, Clean
<1>14. ASSUME NEW p \in Procs, WriteHead(p)
      PROVE  QuietInv'
  BY <1>14, SMTT(30)
  DEF AloneInv, Committer, DiskInv, BootInv, QuietInv, Quiet, CommitInv, Installed, Clean,
      Logged, WriteHead, Goto, At, disk, bufs, log
<1>15. ASSUME NEW p \in Procs, Install(p)
      PROVE  QuietInv'
  BY <1>15, SMTT(30)
  DEF AloneInv, Committer, DiskInv, BootInv, QuietInv, Quiet, CommitInv, Installed, Clean,
      Logged, Install, Goto, At, disk, bufs, log, InstallBlock
<1>16. ASSUME NEW p \in Procs, Clear(p)
      PROVE  QuietInv'
  BY <1>16
  DEF AloneInv, Committer, DiskInv, BootInv, QuietInv, Quiet, CommitInv, Installed, Clean,
      Logged, Clear, Goto, At, disk, bufs, log, ClearHead
<1>17. ASSUME NEW p \in Procs, EndCommit(p)
      PROVE  QuietInv'
  <2>1. UNCHANGED <<home, hdr, cache, dirty, lh>>
    BY <1>17 DEF EndCommit, At, disk, bufs, log, WakeupLog
  <2>2. Quiet' => Quiet
    BY <1>17 DEF Quiet, EndCommit, At, disk, bufs, log, WakeupLog
  <2>3. \A b \in Blocks : Unlocked(b)' => Unlocked(b)
    BY <1>17, SMTT(30) DEF Unlocked, EndCommit, At, disk, bufs, log, WakeupLog
  <2> QED
    BY <2>1, <2>2, <2>3, Zenon DEF QuietInv, Logged, Clean
<1>18. ASSUME BootReadHead
      PROVE  QuietInv'
  BY <1>18, SMTT(30)
  DEF AloneInv, Committer, DiskInv, BootInv, QuietInv, Quiet, CommitInv, Installed, Clean,
      Logged, BootReadHead, disk, bufs, log
<1>19. ASSUME BootInstall
      PROVE  QuietInv'
  BY <1>19, SMTT(30)
  DEF AloneInv, Committer, DiskInv, BootInv, QuietInv, Quiet, CommitInv, Installed, Clean,
      Logged, BootInstall, disk, bufs, log, InstallBlock
<1>20. ASSUME BootClear
      PROVE  QuietInv'
  BY <1>20, SMTT(30)
  DEF AloneInv, Committer, DiskInv, BootInv, QuietInv, Quiet, CommitInv, Installed, Clean,
      Logged, BootClear, disk, bufs, log, ClearHead
<1>21. ASSUME Crash
      PROVE  QuietInv'
  BY <1>21
  DEF AloneInv, Committer, DiskInv, BootInv, QuietInv, Quiet, CommitInv, Installed, Clean,
      Logged, Crash, disk, bufs, log
<1> QED
  BY <1>1, <1>2, <1>3, <1>4, <1>5, <1>6, <1>7, <1>8, <1>9, <1>10, <1>11, <1>12, <1>13,
     <1>14, <1>15, <1>16, <1>17, <1>18, <1>19, <1>20, <1>21, Zenon
  DEF Next, Step, Recover

\* A step that changes no block and leaves whoever commits where it is.
LEMMA CommitFrame ==
  ASSUME CommitInv, UNCHANGED <<home, logdisk, hdr, cache, dirty, lh, tail>>,
         \A q \in Procs : Committer(q)' => pc'[q] = pc[q]
  PROVE  CommitInv'
<1>1. Installing' = Installing /\ Installed' = Installed
  BY Zenon DEF Installing, Installed, Clean, Logged
<1> QED
  BY <1>1, Zenon DEF CommitInv, Committer

\* write_log, write_head and install_trans copy the cache to the log, the log to the
\* disk, and leave every block clean.
LEMMA CommitStep ==
  ASSUME TypeOK, AloneInv, Counted, EntryInv, DiskInv, Limit <= nlog - 1, [Next]_vars
  PROVE  CommitInv'
<1>1. CASE UNCHANGED vars
  BY <1>1, ZenonT(30) DEF vars, DiskInv, CommitInv, Installing, Installed, Clean, Logged
<1>2. /\ pc \in [Procs -> Locations]
      /\ blk \in [Procs -> Blocks]
      /\ lh \in Seq(Blocks) /\ hdr \in Seq(Blocks)
      /\ Len(lh) \in Nat /\ Len(lh) <= Limit
      /\ home \in [Blocks -> Data] /\ logdisk \in [LogSlots -> Data]
      /\ cache \in [Blocks -> Data \cup {Uncached}]
      /\ dirty \in [Blocks -> BOOLEAN]
      /\ tail \in Nat
      /\ outstanding \in Nat /\ committing \in BOOLEAN
      /\ boot \in {"read_head", "install", "clear", "up"}
  BY DEF TypeOK, Counted
<1> USE <1>2, SizeAssumption, LimitFacts, BlockAssumption DEF DiskInv
<1>3. ASSUME NEW p \in Procs, BeginCall(p)
      PROVE  CommitInv'
  <2>1. UNCHANGED <<home, logdisk, hdr, cache, dirty, lh, tail>>
    BY <1>3 DEF BeginCall, Goto, At, disk, bufs, log
  <2>2. \A q \in Procs : Committer(q)' => pc'[q] = pc[q]
    BY <1>3 DEF Committer, BeginCall, Goto, At, disk, bufs, log
  <2> QED
    BY <2>1, <2>2, CommitFrame
<1>4. ASSUME NEW p \in Procs, BeginSleep(p)
      PROVE  CommitInv'
  <2>1. UNCHANGED <<home, logdisk, hdr, cache, dirty, lh, tail>>
    BY <1>4 DEF BeginSleep, Goto, At, disk, bufs, log
  <2>2. \A q \in Procs : Committer(q)' => pc'[q] = pc[q]
    BY <1>4 DEF Committer, BeginSleep, Goto, At, disk, bufs, log
  <2> QED
    BY <2>1, <2>2, CommitFrame
<1>5. ASSUME NEW p \in Procs, BeginOp(p)
      PROVE  CommitInv'
  <2>1. UNCHANGED <<home, logdisk, hdr, cache, dirty, lh, tail>>
    BY <1>5 DEF BeginOp, Goto, At, disk, bufs, log, MustWait
  <2>2. \A q \in Procs : Committer(q)' => pc'[q] = pc[q]
    BY <1>5 DEF Committer, BeginOp, Goto, At, disk, bufs, log, MustWait
  <2> QED
    BY <2>1, <2>2, CommitFrame
<1>6. ASSUME NEW p \in Procs, Kill(p)
      PROVE  CommitInv'
  <2>1. UNCHANGED <<home, logdisk, hdr, cache, dirty, lh, tail>>
    BY <1>6 DEF Kill, Goto, At, disk, bufs, log
  <2>2. \A q \in Procs : Committer(q)' => pc'[q] = pc[q]
    BY <1>6 DEF Committer, Kill, Goto, At, disk, bufs, log
  <2> QED
    BY <2>1, <2>2, CommitFrame
<1>7. ASSUME NEW p \in Procs, NEW b \in Blocks, NEW d \in Data, Modify(p, b, d)
      PROVE  CommitInv'
  <2>1. \A q \in Procs : ~Committer(q)'
    BY <1>7 DEF AloneInv, Committer, InOp, Modify, Goto, At, disk, bufs, log, Unlocked
  <2> QED
    BY <2>1, Zenon DEF CommitInv, Committer
<1>8. ASSUME NEW p \in Procs, LogWriteCheck(p)
      PROVE  CommitInv'
  <2>1. UNCHANGED <<home, logdisk, hdr, cache, dirty, lh, tail>>
    BY <1>8 DEF LogWriteCheck, Goto, At, disk, bufs, log, TooBig
  <2>2. \A q \in Procs : Committer(q)' => pc'[q] = pc[q]
    BY <1>8 DEF Committer, LogWriteCheck, Goto, At, disk, bufs, log, TooBig
  <2> QED
    BY <2>1, <2>2, CommitFrame
<1>9. ASSUME NEW p \in Procs, LogWrite(p)
      PROVE  CommitInv'
  <2>1. \A q \in Procs : ~Committer(q)'
    BY <1>9 DEF AloneInv, Committer, InOp, LogWrite, Goto, At, disk, bufs, log
  <2> QED
    BY <2>1, Zenon DEF CommitInv, Committer
<1>10. ASSUME NEW b \in Blocks, Evict(b)
      PROVE  CommitInv'
  <2>1. /\ UNCHANGED <<home, logdisk, hdr, dirty, lh, tail, pc, boot>>
        /\ ~dirty[b]
        /\ \A c \in Blocks : c # b => cache'[c] = cache[c]
        /\ cache'[b] = Uncached
    BY <1>10 DEF Evict, disk, log
  <2>2. \A c \in Blocks : Clean(c) => Clean(c)'
    BY <2>1, Zenon DEF Clean
  <2>3. \A c \in Blocks : Logged(c)' <=> Logged(c)
    BY <2>1, Zenon DEF Logged
  <2>4. \A q \in Procs : pc[q] \in {"write_log", "write_head"} => Quiet
    BY <1>10 DEF Evict, Quiet, AloneInv, Committer
  <2>5. \A q \in Procs, i \in 1 .. Len(lh) :
          pc[q] \in {"write_log", "write_head"} => lh[i] # b
    BY <2>1, <2>4, Zenon DEF QuietInv, Logged
  <2> QED
    <3>1. ASSUME NEW q \in Procs, pc[q] = "write_log"
          PROVE  tail < Len(lh) /\ \A i \in 1 .. tail : logdisk[i] = cache'[lh[i]]
      BY <2>1, <2>5, <3>1, SMTT(30) DEF CommitInv
    <3>2. ASSUME NEW q \in Procs, pc[q] = "write_head"
          PROVE  Len(lh) > 0 /\ \A i \in 1 .. Len(lh) : logdisk[i] = cache'[lh[i]]
      BY <2>1, <2>5, <3>2, SMTT(30) DEF CommitInv
    <3>3. Installing => Installing'
      BY <2>1, <2>2, <2>3, SMTT(30) DEF Installing
    <3>4. Installed => Installed'
      BY <2>1, <2>2 DEF Installed
    <3>5. ASSUME NEW q \in Procs, pc[q] = "install"
          PROVE  \A i \in tail + 1 .. Len(lh) : dirty[lh[i]] /\ cache'[lh[i]] = logdisk[i]
      <4> TAKE i \in tail + 1 .. Len(lh)
      <4>1. dirty[lh[i]] /\ cache[lh[i]] = logdisk[i] /\ lh[i] \in Blocks
        BY <3>5 DEF CommitInv
      <4> QED
        BY <2>1, <4>1, Zenon
    <3> QED
      BY <2>1, <3>1, <3>2, <3>3, <3>4, <3>5, ZenonT(30) DEF CommitInv
<1>11. ASSUME NEW p \in Procs, EndOp(p)
      PROVE  CommitInv'
  <2>1. UNCHANGED <<home, logdisk, hdr, cache, dirty, lh, tail>>
    BY <1>11 DEF EndOp, At, disk, bufs, log, WakeupLog
  <2>2. \A q \in Procs : Committer(q)' => pc'[q] = pc[q]
    BY <1>11, SMTT(30) DEF Committer, EndOp, At, disk, bufs, log, WakeupLog
  <2> QED
    BY <2>1, <2>2, CommitFrame
<1>12. ASSUME NEW p \in Procs, EndOpCommit(p)
      PROVE  CommitInv'
  <2>1. \A q \in Procs : q # p => ~Committer(q)'
    BY <1>12 DEF AloneInv, Committer, InOp, EndOpCommit, Goto, At, disk, bufs, log
  <2>2. /\ lh' = lh /\ tail' = 0
        /\ pc'[p] = IF Len(lh) > 0 THEN "write_log" ELSE "end_commit"
    BY <1>12 DEF EndOpCommit, Goto, At, disk, bufs, log
  <2>3. Len(lh) > 0 \/ lh = << >>
    OBVIOUS
  <2>4. \A q \in Procs : q # p =>
          pc'[q] \notin {"write_log", "write_head", "install", "clear", "end_commit"}
    BY <2>1, SMTT(30) DEF Committer
  <2> QED
    BY <2>2, <2>3, <2>4, SMTT(30) DEF CommitInv
<1>13. ASSUME NEW p \in Procs, WriteLog(p)
      PROVE  CommitInv'
  <2>1. \A q \in Procs : q # p => ~Committer(q) /\ pc'[q] = pc[q]
    BY <1>13, SMTT(30) DEF AloneInv, Committer, WriteLog, Goto, At, disk, bufs, log
  <2>2. /\ tail < Len(lh) /\ tail' = tail + 1 /\ lh' = lh /\ cache' = cache
        /\ logdisk' = [logdisk EXCEPT ![tail + 1] = Bread(lh[tail + 1])]
        /\ pc'[p] = IF tail + 1 < Len(lh) THEN "write_log" ELSE "write_head"
    BY <1>13, SMTT(30) DEF CommitInv, WriteLog, Goto, At, disk, bufs, log
  <2>3. Quiet
    BY <1>13, <2>1, SMTT(30) DEF Quiet, Committer, WriteLog, Goto, At, disk, bufs, log
  <2>4. Bread(lh[tail + 1]) = cache[lh[tail + 1]]
    BY <2>2, <2>3, SMTT(30) DEF QuietInv, Logged, Bread
  <2>5. \A i \in 1 .. tail : logdisk[i] = cache[lh[i]]
    BY <1>13, SMTT(30) DEF CommitInv, WriteLog, Goto, At
  <2>6. tail + 1 \in LogSlots
    BY <2>2, SMTT(30) DEF LogSlots
  <2>7. \A i \in 1 .. tail + 1 : logdisk'[i] = cache'[lh'[i]]
    BY <2>2, <2>4, <2>5, <2>6
  <2> QED
    BY <2>1, <2>2, <2>7, SMTT(30) DEF CommitInv, Committer
<1>14. ASSUME NEW p \in Procs, WriteHead(p)
      PROVE  CommitInv'
  <2>1. \A q \in Procs : q # p => ~Committer(q) /\ pc'[q] = pc[q]
    BY <1>14 DEF AloneInv, Committer, WriteHead, Goto, At, disk, bufs, log
  <2>2. /\ UNCHANGED <<home, logdisk, cache, dirty, lh>>
        /\ hdr' = lh /\ tail' = 0 /\ pc'[p] = "install"
    BY <1>14 DEF WriteHead, Goto, At, disk, bufs, log
  <2>3. Quiet /\ \A b \in Blocks : Unlocked(b)
    BY <1>14, <2>1, SMTT(30)
    DEF Quiet, AloneInv, Committer, InOp, Unlocked, WriteHead, Goto, At, disk, bufs, log
  <2>4. Len(lh) > 0 /\ \A i \in 1 .. Len(lh) : logdisk[i] = cache[lh[i]]
    BY <1>14 DEF CommitInv, WriteHead, Goto, At
  <2>5. \A b \in Blocks : ~Logged(b) => Clean(b)
    BY <2>3, Zenon DEF QuietInv
  <2>6. \A i \in 1 .. Len(lh) : dirty[lh[i]]
    <3> TAKE i \in 1 .. Len(lh)
    <3>1. lh[i] \in Blocks
      OBVIOUS
    <3> QED
      BY <2>3, <3>1, Zenon DEF QuietInv, Logged
  <2>7. Installing'
    BY <2>2, <2>4, <2>5 DEF Installing, Clean, Logged
  <2>8. \A i \in tail' + 1 .. Len(lh') : dirty'[lh'[i]] /\ cache'[lh'[i]] = logdisk'[i]
    <3> TAKE i \in tail' + 1 .. Len(lh')
    <3>1. i \in 1 .. Len(lh)
      BY <2>2
    <3> QED
      BY <2>2, <2>4, <2>6, <3>1, Zenon
  <2>9. \A q \in Procs : q # p =>
          pc'[q] \notin {"write_log", "write_head", "install", "clear", "end_commit"}
    BY <2>1 DEF Committer
  <2> QED
    BY <2>2, <2>7, <2>8, <2>9, ZenonT(30) DEF CommitInv
<1>15. ASSUME NEW p \in Procs, Install(p)
      PROVE  CommitInv'
  <2>1. \A q \in Procs : q # p => ~Committer(q) /\ pc'[q] = pc[q]
    BY <1>15, SMTT(30) DEF AloneInv, Committer, Install, Goto, At, disk, bufs, log, InstallBlock
  <2> DEFINE c == lh[tail + 1]
  <2>2. Installing
    BY <1>15, SMTT(30) DEF CommitInv, Install, Goto, At
  <2>3. /\ home' = [home EXCEPT ![c] = logdisk[tail + 1]]
        /\ cache' = [cache EXCEPT ![c] = logdisk[tail + 1]]
        /\ dirty' = [dirty EXCEPT ![c] = FALSE]
        /\ tail' = tail + 1
        /\ UNCHANGED <<logdisk, hdr, lh>>
        /\ pc'[p] = IF tail + 1 < Len(lh) THEN "install" ELSE "clear"
    BY <1>15 DEF Install, Goto, At, disk, bufs, log, InstallBlock
  <2>4. c \in Blocks /\ tail + 1 \in 1 .. Len(lh)
    BY <2>2 DEF Installing
  <2>5. \A i \in 1 .. Len(lh) : i # tail + 1 => lh[i] # c /\ lh[i] \in Blocks
    BY <2>4, SMTT(30) DEF EntryInv
  <2> HIDE DEF c
  <2>6. /\ \A i \in 1 .. tail + 1 : home'[lh[i]] = logdisk[i] /\ Clean(lh[i])'
        /\ \A b \in Blocks : ~Logged(b) => Clean(b)'
    <3>1. home'[c] = cache'[c] /\ home'[c] = logdisk[tail + 1]
      BY <2>3, <2>4
    <3>2. \A b \in Blocks : b # c => home'[b] = home[b] /\ cache'[b] = cache[b]
      BY <2>3, SMTT(30)
    <3>3. \A i \in 1 .. tail : home'[lh[i]] = logdisk[i] /\ Clean(lh[i])'
      BY <2>2, <2>3, <2>4, <2>5, <3>2, SMTT(30) DEF Installing, Clean
    <3>4. \A b \in Blocks : ~Logged(b) => Clean(b)'
      BY <2>2, <3>1, <3>2, Zenon DEF Installing, Clean
    <3>5. \A i \in 1 .. tail + 1 : i \in 1 .. tail \/ i = tail + 1
      OBVIOUS
    <3> QED
      BY <2>3, <3>1, <3>3, <3>4, <3>5, SMTT(30) DEF Clean, c
  <2>7. \A i \in tail + 2 .. Len(lh) : dirty'[lh[i]] /\ cache'[lh[i]] = logdisk[i]
    <3> TAKE i \in tail + 2 .. Len(lh)
    <3>1. i \in tail + 1 .. Len(lh) /\ i \in 1 .. Len(lh) /\ i # tail + 1
      OBVIOUS
    <3>2. dirty[lh[i]] /\ cache[lh[i]] = logdisk[i]
      BY <1>15, <3>1 DEF CommitInv, Install, Goto, At
    <3>3. lh[i] # c /\ lh[i] \in Blocks
      BY <2>5, <3>1, SMTT(30)
    <3>4. dirty'[lh[i]] = dirty[lh[i]] /\ cache'[lh[i]] = cache[lh[i]]
      BY <2>3, <3>3
    <3> QED
      BY <3>2, <3>4, ZenonT(30)
  <2>8. \A q \in Procs : q # p =>
          pc'[q] \notin {"write_log", "write_head", "install", "clear", "end_commit"}
    BY <2>1 DEF Committer
  <2>9. CASE tail + 1 < Len(lh)
    <3>1. Installing'
      BY <2>2, <2>3, <2>6, <2>9, SMTT(30) DEF Installing, Logged, Clean
    <3>2. pc'[p] = "install" /\ tail' + 1 = tail + 2 /\ lh' = lh /\ logdisk' = logdisk
      BY <2>3, <2>9
    <3> QED
      BY <2>7, <2>8, <3>1, <3>2, ZenonT(30) DEF CommitInv
  <2>10. CASE ~(tail + 1 < Len(lh))
    <3>1. Len(lh) = tail + 1 /\ pc'[p] = "clear"
      BY <2>3, <2>4, <2>10, SMTT(30)
    <3>2. Installed'
      BY <2>2, <2>3, <2>6, <3>1, SMTT(30) DEF Installing, Installed, Logged
    <3> QED
      BY <2>8, <3>1, <3>2, Zenon DEF CommitInv
  <2> QED
    BY <2>9, <2>10, SMTT(30)
<1>16. ASSUME NEW p \in Procs, Clear(p)
      PROVE  CommitInv'
  <2>1. \A q \in Procs : q # p => ~Committer(q) /\ pc'[q] = pc[q]
    BY <1>16, SMTT(30) DEF AloneInv, Committer, Clear, Goto, At, disk, bufs, log, ClearHead
  <2> QED
    BY <1>16, <2>1, SMTT(30) DEF CommitInv, Committer, Clear, Goto, At, disk, bufs, log, ClearHead
<1>17. ASSUME NEW p \in Procs, EndCommit(p)
      PROVE  CommitInv'
  <2>1. UNCHANGED <<home, logdisk, hdr, cache, dirty, lh, tail>>
    BY <1>17, SMTT(30) DEF EndCommit, At, disk, bufs, log, WakeupLog
  <2>2. \A q \in Procs : Committer(q)' => pc'[q] = pc[q]
    BY <1>17, SMTT(30) DEF Committer, EndCommit, At, disk, bufs, log, WakeupLog
  <2> QED
    BY <2>1, <2>2, CommitFrame
<1>18. ASSUME BootReadHead
      PROVE  CommitInv'
  <2>1. \A q \in Procs : pc'[q] = "idle"
    BY <1>18, SMTT(30) DEF AloneInv, BootReadHead
  <2> QED
    BY <2>1 DEF CommitInv
<1>19. ASSUME BootInstall
      PROVE  CommitInv'
  <2>1. \A q \in Procs : pc'[q] = "idle"
    BY <1>19 DEF AloneInv, BootInstall
  <2> QED
    BY <2>1 DEF CommitInv
<1>20. ASSUME BootClear
      PROVE  CommitInv'
  <2>1. \A q \in Procs : pc'[q] = "idle"
    BY <1>20 DEF AloneInv, BootClear
  <2> QED
    BY <2>1 DEF CommitInv
<1>21. ASSUME Crash
      PROVE  CommitInv'
  <2>1. \A q \in Procs : pc'[q] = "idle"
    BY <1>21 DEF AloneInv, Crash
  <2> QED
    BY <2>1 DEF CommitInv
<1> QED
  BY <1>1, <1>2, <1>3, <1>4, <1>5, <1>6, <1>7, <1>8, <1>9, <1>10, <1>11, <1>12, <1>13,
     <1>14, <1>15, <1>16, <1>17, <1>18, <1>19, <1>20, <1>21, Zenon
  DEF Next, Step, Recover

\* Base is kept by every step in which the counting is right.
LEMMA BaseStep ==
  ASSUME Base, Counted, [Next]_vars, Limit <= nlog - 1
  PROVE  Base'
<1>1. TypeOK /\ AloneInv /\ SpaceInv /\ EntryInv /\ DiskInv
  BY DEF Base
<1>2. TypeOK' /\ AloneInv' /\ SpaceInv' /\ EntryInv'
  BY <1>1, TypeStep, AloneStep, SpaceStep, EntryStep, Zenon
<1>3. BootInv' /\ HoldInv' /\ QuietInv' /\ CommitInv'
  BY <1>1, BootStep, HoldStep, QuietStep, CommitStep, Zenon
<1> QED
  BY <1>2, <1>3 DEF Base, DiskInv

----------------------------------------------------------------------------

\* How a step may change log.outstanding, the open operations, what they may still
\* log, and the length of the log: not at all, or as begin_op, log_write, end_op, and a
\* crash and the reading of the header do.
Counting ==
  \/ /\ outstanding' = outstanding /\ Active' = Active
     /\ Credit' = Credit /\ Len(lh') <= Len(lh)
  \/ \E p \in Procs \ Active :
       /\ ~MustWait /\ outstanding' = outstanding + 1 /\ Active' = Active \cup {p} /\ lh' = lh
  \/ /\ outstanding' = outstanding /\ Active' = Active
     /\ \E x \in Credit : Credit' = Credit \ {x}
     /\ Len(lh') <= Len(lh) + 1
  \/ \E p \in Active :
       /\ outstanding' = outstanding - 1 /\ Active' = Active \ {p}
       /\ Credit' \subseteq Credit /\ lh' = lh
  \/ /\ outstanding' = 0 \/ (Active = {} /\ outstanding' = outstanding)
     /\ Active' = {} /\ Credit' = {} /\ Len(lh') <= Limit

\* A step that opens and ends no operation, and spends nothing of a reservation
LEMMA SameCredit ==
  ASSUME \A q \in Procs : /\ pc'[q] \in InOp <=> pc[q] \in InOp
                          /\ pc[q] \in InOp => Owed(q)' = Owed(q)
  PROVE  Active' = Active /\ Credit' = Credit
<1>1. Active' = Active
  BY Zenon DEF Active
<1>2. \A x \in Active \X (1 .. OpBlocks) : Owed(x[1])' = Owed(x[1])
  BY DEF Active
<1> QED
  BY <1>1, <1>2, Zenon DEF Credit

\* Every step counts as it should.
LEMMA CountingStep ==
  ASSUME TypeOK, AloneInv, SpaceInv, EntryInv, [Next]_vars
  PROVE  Counting
<1>1. CASE UNCHANGED vars
  <2>1. outstanding' = outstanding /\ lh' = lh /\ pc' = pc /\ left' = left
    BY <1>1 DEF vars
  <2>2. Active' = Active /\ Credit' = Credit
    BY <2>1, Zenon DEF Active, Credit, Owed, Holding
  <2>3. Len(lh') <= Len(lh)
    BY <2>1 DEF TypeOK
  <2> QED
    BY <2>1, <2>2, <2>3, Zenon DEF Counting
<1>2. /\ pc \in [Procs -> Locations]
      /\ left \in [Procs -> 0 .. OpBlocks]
      /\ lh \in Seq(Blocks) /\ hdr \in Seq(Blocks)
      /\ Len(lh) \in Nat
      /\ outstanding \in Nat /\ committing \in BOOLEAN
  BY DEF TypeOK
<1> USE <1>2
<1>3. ASSUME NEW p \in Procs, BeginCall(p)
      PROVE  Counting
  <2>1. \A q \in Procs : /\ pc'[q] \in InOp <=> pc[q] \in InOp
                         /\ pc[q] \in InOp => Owed(q)' = Owed(q)
    BY <1>3 DEF Owed, Holding, InOp, BeginCall, Goto, At, disk, bufs, log
  <2>2. outstanding' = outstanding /\ Len(lh') <= Len(lh)
    BY <1>3 DEF BeginCall, Goto, At, disk, bufs, log
  <2> QED
    BY <2>1, <2>2, SameCredit, Zenon DEF Counting
<1>4. ASSUME NEW p \in Procs, BeginSleep(p)
      PROVE  Counting
  <2>1. \A q \in Procs : /\ pc'[q] \in InOp <=> pc[q] \in InOp
                         /\ pc[q] \in InOp => Owed(q)' = Owed(q)
    BY <1>4 DEF Owed, Holding, InOp, BeginSleep, Goto, At, disk, bufs, log
  <2>2. outstanding' = outstanding /\ Len(lh') <= Len(lh)
    BY <1>4 DEF BeginSleep, Goto, At, disk, bufs, log
  <2> QED
    BY <2>1, <2>2, SameCredit, Zenon DEF Counting
<1>5. ASSUME NEW p \in Procs, BeginOp(p)
      PROVE  Counting
  <2>1. /\ p \in Procs \ Active /\ Active' = Active \cup {p}
        /\ ~MustWait /\ outstanding' = outstanding + 1 /\ lh' = lh
    BY <1>5, SMTT(30) DEF Active, InOp, Goto, At, BeginOp
  <2> QED
    BY <2>1, Zenon DEF Counting
<1>6. ASSUME NEW p \in Procs, Kill(p)
      PROVE  Counting
  <2>1. \A q \in Procs : /\ pc'[q] \in InOp <=> pc[q] \in InOp
                         /\ pc[q] \in InOp => Owed(q)' = Owed(q)
    BY <1>6 DEF Owed, Holding, InOp, Kill, Goto, At, disk, bufs, log
  <2>2. outstanding' = outstanding /\ Len(lh') <= Len(lh)
    BY <1>6 DEF Kill, Goto, At, disk, bufs, log
  <2> QED
    BY <2>1, <2>2, SameCredit, Zenon DEF Counting
<1>7. ASSUME NEW p \in Procs, NEW b \in Blocks, NEW d \in Data, Modify(p, b, d)
      PROVE  Counting
  <2>1. \A q \in Procs : /\ pc'[q] \in InOp <=> pc[q] \in InOp
                         /\ pc[q] \in InOp => Owed(q)' = Owed(q)
    BY <1>7 DEF Owed, Holding, InOp, Modify, Goto, At, disk, bufs, log, Unlocked
  <2>2. outstanding' = outstanding /\ Len(lh') <= Len(lh)
    BY <1>7, SMTT(30) DEF Modify, Goto, At, disk, bufs, log, Unlocked
  <2> QED
    BY <2>1, <2>2, SameCredit, Zenon DEF Counting
<1>8. ASSUME NEW p \in Procs, LogWriteCheck(p)
      PROVE  Counting
  <2>1. \A q \in Procs : /\ pc'[q] \in InOp <=> pc[q] \in InOp
                         /\ pc[q] \in InOp => Owed(q)' = Owed(q)
    BY <1>8 DEF Owed, Holding, InOp, LogWriteCheck, Goto, At, disk, bufs, log, TooBig
  <2>2. outstanding' = outstanding /\ Len(lh') <= Len(lh)
    BY <1>8 DEF LogWriteCheck, Goto, At, disk, bufs, log, TooBig
  <2> QED
    BY <2>1, <2>2, SameCredit, Zenon DEF Counting
<1>9. ASSUME NEW p \in Procs, LogWrite(p)
      PROVE  Counting
  <2> DEFINE spent == <<p, left[p] + 1>>
  <2>1. /\ pc[p] = "record" /\ pc' = [pc EXCEPT ![p] = "op"]
        /\ left' = left /\ panicked' = panicked
    BY <1>9 DEF LogWrite, Goto, At
  <2>2. left[p] + 1 <= OpBlocks
    BY <2>1 DEF SpaceInv, Owed, Holding, InOp
  <2>3. spent \in Credit
    BY <2>1, <2>2, SizeAssumption DEF Credit, Active, InOp, Owed, Holding
  <2>4. Active' = Active
    BY <2>1 DEF Active, InOp
  <2>5. Owed(p) = left[p] + 1 /\ Owed(p)' = left[p]
    BY <2>1 DEF Owed, Holding
  <2>6. \A q \in Procs : q # p => Owed(q)' = Owed(q)
    BY <2>1 DEF Owed, Holding
  <2>7. \A x \in Active \X (1 .. OpBlocks) :
          x[2] <= Owed(x[1])' <=> x[2] <= Owed(x[1]) /\ x # spent
    <3> TAKE x \in Active \X (1 .. OpBlocks)
    <3>1. x[1] \in Procs /\ x[2] \in 1 .. OpBlocks /\ x = <<x[1], x[2]>>
      BY DEF Active
    <3>2. CASE x[1] = p
      <4>1. x = spent <=> x[2] = left[p] + 1
        BY <3>1, <3>2
      <4>2. x[2] <= left[p] <=> x[2] <= left[p] + 1 /\ x[2] # left[p] + 1
        BY <3>1, SizeAssumption
      <4> QED
        BY <2>5, <3>2, <4>1, <4>2, SMTT(30)
    <3>3. CASE x[1] # p
      BY <2>6, <3>1, <3>3
    <3> QED
      BY <3>2, <3>3
  <2>8. Credit' = Credit \ {spent}
    BY <2>4, <2>7, Zenon DEF Credit
  <2>9. Len(lh') <= Len(lh) + 1 /\ outstanding' = outstanding
    BY <1>9 DEF LogWrite
  <2> QED
    BY <2>3, <2>4, <2>8, <2>9, Zenon DEF Counting
<1>10. ASSUME NEW b \in Blocks, Evict(b)
      PROVE  Counting
  <2>1. \A q \in Procs : /\ pc'[q] \in InOp <=> pc[q] \in InOp
                         /\ pc[q] \in InOp => Owed(q)' = Owed(q)
    BY <1>10, SMTT(30) DEF Owed, Holding, InOp, Evict, disk, bufs, log, Unlocked
  <2>2. outstanding' = outstanding /\ Len(lh') <= Len(lh)
    BY <1>10 DEF Evict, disk, bufs, log, Unlocked
  <2> QED
    BY <2>1, <2>2, SameCredit, ZenonT(30) DEF Counting
<1>11. ASSUME NEW p \in Procs, EndOp(p)
      PROVE  Counting
  <2>1. \A q \in Procs : pc'[q] \in InOp => pc[q] \in InOp /\ Owed(q)' = Owed(q)
    BY <1>11 DEF Owed, Holding, InOp, EndOp, At, disk, bufs, log, WakeupLog
  <2>2. p \in Active /\ Active' = Active \ {p}
    BY <1>11 DEF Active, InOp, EndOp, At, disk, bufs, log, WakeupLog
  <2>3. Credit' \subseteq Credit
    BY <2>1 DEF Credit, Active
  <2>4. outstanding' = outstanding - 1 /\ lh' = lh
    BY <1>11, SMTT(30) DEF EndOp, At, disk, bufs, log, WakeupLog
  <2> QED
    BY <2>2, <2>3, <2>4, Zenon DEF Counting
<1>12. ASSUME NEW p \in Procs, EndOpCommit(p)
      PROVE  Counting
  <2>1. \A q \in Procs : pc'[q] \in InOp => pc[q] \in InOp /\ Owed(q)' = Owed(q)
    BY <1>12 DEF Owed, Holding, InOp, EndOpCommit, Goto, At, disk, bufs, log
  <2>2. p \in Active /\ Active' = Active \ {p}
    BY <1>12 DEF Active, InOp, EndOpCommit, Goto, At, disk, bufs, log
  <2>3. Credit' \subseteq Credit
    BY <2>1 DEF Credit, Active
  <2>4. outstanding' = outstanding - 1 /\ lh' = lh
    BY <1>12, SMTT(30) DEF EndOpCommit, Goto, At, disk, bufs, log
  <2> QED
    BY <2>2, <2>3, <2>4, Zenon DEF Counting
<1>13. ASSUME NEW p \in Procs, WriteLog(p)
      PROVE  Counting
  <2>1. \A q \in Procs : /\ pc'[q] \in InOp <=> pc[q] \in InOp
                         /\ pc[q] \in InOp => Owed(q)' = Owed(q)
    BY <1>13 DEF Owed, Holding, InOp, WriteLog, Goto, At, disk, bufs, log
  <2>2. outstanding' = outstanding /\ Len(lh') <= Len(lh)
    BY <1>13, SMTT(30) DEF WriteLog, Goto, At, disk, bufs, log
  <2> QED
    BY <2>1, <2>2, SameCredit, Zenon DEF Counting
<1>14. ASSUME NEW p \in Procs, WriteHead(p)
      PROVE  Counting
  <2>1. \A q \in Procs : /\ pc'[q] \in InOp <=> pc[q] \in InOp
                         /\ pc[q] \in InOp => Owed(q)' = Owed(q)
    BY <1>14 DEF Owed, Holding, InOp, WriteHead, Goto, At, disk, bufs, log
  <2>2. outstanding' = outstanding /\ Len(lh') <= Len(lh)
    BY <1>14, SMTT(30) DEF WriteHead, Goto, At, disk, bufs, log
  <2> QED
    BY <2>1, <2>2, SameCredit, Zenon DEF Counting
<1>15. ASSUME NEW p \in Procs, Install(p)
      PROVE  Counting
  <2>1. \A q \in Procs : /\ pc'[q] \in InOp <=> pc[q] \in InOp
                         /\ pc[q] \in InOp => Owed(q)' = Owed(q)
    BY <1>15 DEF Owed, Holding, InOp, Install, Goto, At, disk, bufs, log, InstallBlock
  <2>2. outstanding' = outstanding /\ Len(lh') <= Len(lh)
    BY <1>15, SMTT(30) DEF Install, Goto, At, disk, bufs, log, InstallBlock
  <2> QED
    BY <2>1, <2>2, SameCredit, Zenon DEF Counting
<1>16. ASSUME NEW p \in Procs, Clear(p)
      PROVE  Counting
  <2>1. \A q \in Procs : /\ pc'[q] \in InOp <=> pc[q] \in InOp
                         /\ pc[q] \in InOp => Owed(q)' = Owed(q)
    BY <1>16 DEF Owed, Holding, InOp, Clear, Goto, At, disk, bufs, log, ClearHead
  <2>2. outstanding' = outstanding /\ Len(lh') <= Len(lh)
    BY <1>16, SMTT(30) DEF Clear, Goto, At, disk, bufs, log, ClearHead
  <2> QED
    BY <2>1, <2>2, SameCredit, Zenon DEF Counting
<1>17. ASSUME NEW p \in Procs, EndCommit(p)
      PROVE  Counting
  <2>1. \A q \in Procs : /\ pc'[q] \in InOp <=> pc[q] \in InOp
                         /\ pc[q] \in InOp => Owed(q)' = Owed(q)
    BY <1>17 DEF Owed, Holding, InOp, EndCommit, At, disk, bufs, log, WakeupLog
  <2>2. outstanding' = outstanding /\ Len(lh') <= Len(lh)
    BY <1>17 DEF EndCommit, At, disk, bufs, log, WakeupLog
  <2> QED
    BY <2>1, <2>2, SameCredit, Zenon DEF Counting
<1>18. ASSUME BootReadHead
      PROVE  Counting
  <2>1. \A q \in Procs : pc'[q] \notin InOp
    BY <1>18 DEF AloneInv, InOp, BootReadHead
  <2>2. Active' = {} /\ Credit' = {}
    BY <2>1 DEF Credit, Active
  <2>3. Len(lh') <= Limit
    BY <1>18, LimitFacts DEF EntryInv, BootReadHead
  <2>4. outstanding' = 0 \/ (Active = {} /\ outstanding' = outstanding)
    BY <1>18 DEF AloneInv, Active, InOp, BootReadHead, log
  <2> QED
    BY <2>2, <2>3, <2>4, Zenon DEF Counting
<1>19. ASSUME BootInstall
      PROVE  Counting
  <2>1. \A q \in Procs : /\ pc'[q] \in InOp <=> pc[q] \in InOp
                         /\ pc[q] \in InOp => Owed(q)' = Owed(q)
    BY <1>19 DEF Owed, Holding, InOp, BootInstall, disk, bufs, log, InstallBlock
  <2>2. outstanding' = outstanding /\ Len(lh') <= Len(lh)
    BY <1>19, SMTT(30) DEF BootInstall, disk, bufs, log, InstallBlock
  <2> QED
    BY <2>1, <2>2, SameCredit, Zenon DEF Counting
<1>20. ASSUME BootClear
      PROVE  Counting
  <2>1. \A q \in Procs : /\ pc'[q] \in InOp <=> pc[q] \in InOp
                         /\ pc[q] \in InOp => Owed(q)' = Owed(q)
    BY <1>20 DEF Owed, Holding, InOp, BootClear, disk, bufs, log, ClearHead
  <2>2. outstanding' = outstanding /\ Len(lh') <= Len(lh)
    BY <1>20 DEF BootClear, disk, bufs, log, ClearHead
  <2> QED
    BY <2>1, <2>2, SameCredit, Zenon DEF Counting
<1>21. ASSUME Crash
      PROVE  Counting
  <2>1. \A q \in Procs : pc'[q] \notin InOp
    BY <1>21 DEF AloneInv, InOp, Crash
  <2>2. Active' = {} /\ Credit' = {}
    BY <2>1 DEF Credit, Active
  <2>3. Len(lh') <= Limit
    BY <1>21, LimitFacts DEF EntryInv, Crash
  <2>4. outstanding' = 0 \/ (Active = {} /\ outstanding' = outstanding)
    BY <1>21 DEF AloneInv, Active, InOp, Crash, log
  <2> QED
    BY <2>2, <2>3, <2>4, Zenon DEF Counting
<1> QED
  BY <1>1, <1>2, <1>3, <1>4, <1>5, <1>6, <1>7, <1>8, <1>9, <1>10, <1>11, <1>12, <1>13,
     <1>14, <1>15, <1>16, <1>17, <1>18, <1>19, <1>20, <1>21, Zenon
  DEF Next, Step, Recover

----------------------------------------------------------------------------
\* Counting

\* log.outstanding is the number of open operations, and what they may still log fits
\* behind what is logged.
CountInv ==
  /\ outstanding = Cardinality(Active)
  /\ Len(lh) + Cardinality(Credit) <= Limit

IInv == Base /\ CountInv

----------------------------------------------------------------------------

\* The open operations are finitely many, and so is what they may add to the log.
LEMMA CreditBound ==
  /\ IsFiniteSet(Active) /\ Cardinality(Active) \in Nat
  /\ IsFiniteSet(Credit) /\ Cardinality(Credit) \in Nat
  /\ Cardinality(Credit) <= Cardinality(Active) * OpBlocks
<1>1. IsFiniteSet(Active)
  BY ProcsAssumption, FS_Subset DEF Active
<1>2. Cardinality(Active) \in Nat
  BY <1>1, FS_CardinalityType
<1>3. IsFiniteSet(1 .. OpBlocks) /\ Cardinality(1 .. OpBlocks) = OpBlocks
  BY SizeAssumption, FS_Interval
<1>4. /\ IsFiniteSet(Active \X (1 .. OpBlocks))
      /\ Cardinality(Active \X (1 .. OpBlocks)) = Cardinality(Active) * OpBlocks
  BY <1>1, <1>3, FS_Product, Zenon
<1>5. Credit \in SUBSET (Active \X (1 .. OpBlocks))
  BY DEF Credit
<1>6. /\ IsFiniteSet(Credit)
      /\ Cardinality(Credit) <= Cardinality(Active \X (1 .. OpBlocks))
  BY <1>4, <1>5, FS_Subset, Zenon
<1>7. Cardinality(Credit) \in Nat
  BY <1>6, FS_CardinalityType, Zenon
<1> QED
  BY <1>1, <1>2, <1>4, <1>6, <1>7, Zenon

\* Of what n + 1 operations reserve, they leave one operation's slack unused at least.
LEMMA Reserve ==
  ASSUME NEW n \in Nat
  PROVE  /\ (n + 1) * MAXOPBLOCKS \in Nat /\ (n + 1) * OpBlocks \in Nat
         /\ (n + 1) * OpBlocks + (MAXOPBLOCKS - OpBlocks) <= (n + 1) * MAXOPBLOCKS
<1>1. PICK slack \in Nat : MAXOPBLOCKS = OpBlocks + slack
  <2>1. MAXOPBLOCKS - OpBlocks \in Nat /\ MAXOPBLOCKS = OpBlocks + (MAXOPBLOCKS - OpBlocks)
    BY SizeAssumption
  <2> QED
    BY <2>1, Zenon
<1>2. /\ (n + 1) * MAXOPBLOCKS = (n + 1) * OpBlocks + n * slack + slack
      /\ n * slack \in Nat /\ (n + 1) * OpBlocks \in Nat
  BY <1>1, SizeAssumption
<1> QED
  BY <1>1, <1>2, SizeAssumption

\* The same in the next state.
LEMMA CreditBoundNext ==
  /\ Cardinality(Active') \in Nat /\ Cardinality(Credit') \in Nat
  /\ Cardinality(Credit') <= Cardinality(Active') * OpBlocks
<1>1. (/\ Cardinality(Active) \in Nat /\ Cardinality(Credit) \in Nat
       /\ Cardinality(Credit) <= Cardinality(Active) * OpBlocks)'
  BY CreditBound, PTL
<1> QED
  BY <1>1

\* What the steps need to know of the counting
LEMMA CountedFacts ==
  ASSUME Base, CountInv
  PROVE  Counted
<1>1. /\ Len(lh) \in Nat
      /\ pc \in [Procs -> Locations] /\ left \in [Procs -> 0 .. OpBlocks]
      /\ SpaceInv
  BY DEF Base, TypeOK
<1>2. Len(lh) <= Limit
  BY <1>1, CreditBound, LimitFacts DEF CountInv
<1>3. ASSUME NEW p \in Active
      PROVE  outstanding > 0
  <2>1. Cardinality(Active) # 0
    BY <1>3, CreditBound, FS_EmptySet, Zenon
  <2> QED
    BY <2>1, CreditBound DEF CountInv
<1>4. ASSUME outstanding = 1, NEW p \in Active, NEW q \in Active
      PROVE  p = q
  <2>1. Cardinality(Active) = 1
    BY <1>4 DEF CountInv
  <2>2. PICK r : Active = {r}
    BY <2>1, CreditBound, FS_Singleton, Zenon
  <2> QED
    BY <2>2, Zenon
<1>5. ASSUME NEW p \in Procs, Holding(p)
      PROVE  Len(lh) < Limit
  <2>1. <<p, 1>> \in Credit
    BY <1>1, <1>5, SizeAssumption DEF SpaceInv, Credit, Active, InOp, Owed, Holding
  <2>2. Cardinality(Credit) # 0
    BY <2>1, CreditBound, FS_EmptySet, Zenon
  <2> QED
    BY <1>1, <2>2, CreditBound, LimitFacts DEF CountInv
<1> QED
  BY <1>2, <1>3, <1>4, <1>5, Zenon DEF Counted

\* begin_op admits an operation only with room for all it may write; each log_write
\* spends one unit of that reservation at most.
LEMMA CountStep ==
  ASSUME Base, CountInv, [Next]_vars, TypeOK'
  PROVE  CountInv'
<1>1. /\ Len(lh) \in Nat /\ Len(lh') \in Nat /\ outstanding \in Nat
      /\ LOGSIZE \in Nat /\ MAXOPBLOCKS \in Nat /\ Limit \in Nat
  BY SizeAssumption, LimitFacts DEF Base, TypeOK
<1>2. Counting
  BY CountingStep, Zenon DEF Base
<1>3. CASE /\ outstanding' = outstanding /\ Active' = Active
           /\ Credit' = Credit /\ Len(lh') <= Len(lh)
  BY <1>1, <1>3, CreditBound DEF CountInv
<1>4. ASSUME NEW p \in Procs \ Active, ~MustWait, outstanding' = outstanding + 1,
             Active' = Active \cup {p}, lh' = lh
      PROVE  CountInv'
  <2>1. Cardinality(Active') = Cardinality(Active) + 1
    BY <1>4, CreditBound, FS_AddElement, Zenon
  <2>2. Cardinality(Active') = outstanding + 1
    BY <2>1 DEF CountInv
  <2> DEFINE reserved == (outstanding + 1) * MAXOPBLOCKS
             most == (outstanding + 1) * OpBlocks
  <2>3. /\ reserved \in Nat /\ most \in Nat
        /\ most + (MAXOPBLOCKS - OpBlocks) <= reserved
    BY <1>1, Reserve
  <2>4. ~(Len(lh) + reserved > LOGSIZE)
    BY <1>4 DEF MustWait
  <2>5. Cardinality(Credit') <= most /\ Cardinality(Credit') \in Nat
    BY <2>2, CreditBoundNext, Zenon
  <2> HIDE DEF most, reserved
  <2>6. Len(lh') + Cardinality(Credit') <= Limit
    BY <1>1, <1>4, <2>3, <2>4, <2>5, SizeAssumption DEF Limit
  <2> QED
    BY <1>4, <2>2, <2>6, Zenon DEF CountInv
<1>5. ASSUME outstanding' = outstanding, Active' = Active, Len(lh') <= Len(lh) + 1,
             NEW x \in Credit, Credit' = Credit \ {x}
      PROVE  CountInv'
  <2>1. Cardinality(Credit') = Cardinality(Credit) - 1
    BY <1>5, CreditBound, FS_RemoveElement, Zenon
  <2> QED
    BY <1>1, <1>5, <2>1, CreditBound DEF CountInv
<1>6. ASSUME NEW p \in Active, outstanding' = outstanding - 1, Active' = Active \ {p},
             Credit' \subseteq Credit, lh' = lh
      PROVE  CountInv'
  <2>1. Cardinality(Active') = Cardinality(Active) - 1
    BY <1>6, CreditBound, FS_RemoveElement, Zenon
  <2>2. Cardinality(Credit') <= Cardinality(Credit)
    BY <1>6, CreditBound, FS_Subset, Zenon
  <2> QED
    BY <1>1, <1>6, <2>1, <2>2, CreditBound, CreditBoundNext DEF CountInv
<1>7. ASSUME outstanding' = 0 \/ (Active = {} /\ outstanding' = outstanding),
             Active' = {}, Credit' = {}, Len(lh') <= Limit
      PROVE  CountInv'
  <2>1. Cardinality(Active') = 0 /\ Cardinality(Credit') = 0
    BY <1>7, FS_EmptySet, Zenon
  <2>2. outstanding' = 0
    BY <1>7, FS_EmptySet, Zenon DEF CountInv
  <2> QED
    BY <1>1, <1>7, <2>1, <2>2 DEF CountInv
<1> QED
  BY <1>2, <1>3, <1>4, <1>5, <1>6, <1>7, Zenon DEF Counting

\* The invariant holds in every reachable state, if Limit blocks fit the log on the disk.
THEOREM Invariance ==
  ASSUME Limit <= nlog - 1
  PROVE  Spec => []IInv
<1>1. ASSUME IInv, [Next]_vars
      PROVE  IInv'
  <2>1. Base /\ CountInv /\ Counted
    BY <1>1, CountedFacts, Zenon DEF IInv
  <2>2. Base'
    BY <1>1, <2>1, BaseStep, Zenon
  <2>3. CountInv'
    BY <1>1, <2>1, <2>2, CountStep, Zenon DEF Base
  <2> QED
    BY <2>2, <2>3 DEF IInv
<1>2. IInv /\ [Next]_vars => IInv'
  BY <1>1
<1>3. Init => IInv
  <2> SUFFICES ASSUME Init PROVE IInv
    OBVIOUS
  <2>1. Cardinality({}) = 0 /\ Len(<< >>) = 0
    BY FS_EmptySet
  <2>2. Base /\ Active = {} /\ Credit = {} /\ lh = << >> /\ outstanding = 0
    BY InitBase, Zenon
  <2>3. CountInv
    BY <2>1, <2>2, LimitFacts DEF CountInv
  <2> QED
    BY <2>2, <2>3 DEF IInv
<1> QED
  BY <1>2, <1>3, PTL DEF Spec

\* begin_op's reservation is enough, for any number of operations at a time: log_write
\* and end_op never panic, and the log fits its blocks on the disk.
THEOREM NeverOverflows ==
  ASSUME Limit <= nlog - 1
  PROVE  Spec => []NoOverflow
<1>1. ASSUME IInv
      PROVE  NoOverflow
  <2>1. SpaceInv /\ Len(lh) \in Nat
    BY <1>1 DEF IInv, Base, TypeOK
  <2>2. Len(lh) <= Limit
    BY <1>1, CountedFacts, Zenon DEF IInv, Counted
  <2> QED
    BY <2>1, <2>2, SizeAssumption, LimitFacts DEF NoOverflow, SpaceInv
<1> QED
  BY <1>1, Invariance, PTL

\* A commit runs alone: commit() may read log.lh without log.lock.
THEOREM CommitAlwaysAlone ==
  ASSUME Limit <= nlog - 1
  PROVE  Spec => []CommitAlone
<1>1. ASSUME IInv
      PROVE  CommitAlone
  <2> DEFINE committers == {p \in Procs : Committer(p)}
  <2>1. TypeOK /\ AloneInv /\ CountInv
    BY <1>1 DEF IInv, Base
  <2>2. ASSUME committing
        PROVE  Active = {} /\ Cardinality(committers) = 1
    <3>1. PICK p \in Procs : Committer(p)
      BY <2>1, <2>2, Zenon DEF AloneInv
    <3>2. committers = {p}
      BY <2>1, <3>1, Zenon DEF AloneInv
    <3>3. Active = {}
      BY <2>1, <2>2, Zenon DEF AloneInv, Active
    <3> QED
      BY <3>2, <3>3, FS_Singleton, Zenon
  <2> QED
    BY <2>1, <2>2, Zenon DEF CommitAlone, CountInv, Committer
<1> QED
  BY <1>1, Invariance, PTL

----------------------------------------------------------------------------

\* Two contents of the disk that agree on every block are the same.
LEMMA Extensional ==
  ASSUME NEW f, NEW g, f = [b \in Blocks |-> f[b]], g = [b \in Blocks |-> g[b]],
         \A b \in Blocks : f[b] = g[b]
  PROVE  f = g
  OBVIOUS

\* What recovery makes of each block: the log's copy if the header names it.
InHead(b) == \E i \in 1 .. Len(hdr) : hdr[i] = b
Shape ==
  /\ Recovered = [b \in Blocks |-> Recovered[b]]
  /\ \A i \in 1 .. Len(hdr) : hdr[i] \in Blocks /\ Recovered[hdr[i]] = logdisk[i]
  /\ \A b \in Blocks : ~InHead(b) => Recovered[b] = home[b]

LEMMA RecoveredShape == TypeOK /\ EntryInv => Shape
<1> SUFFICES ASSUME TypeOK, EntryInv PROVE Shape
  OBVIOUS
<1>1. hdr \in Seq(Blocks)
  BY DEF TypeOK
<1>2. Recovered = [b \in Blocks |-> Recovered[b]]
  BY DEF Recovered
<1>3. ASSUME NEW i \in 1 .. Len(hdr)
      PROVE  hdr[i] \in Blocks /\ Recovered[hdr[i]] = logdisk[i]
  <2> DEFINE S == {j \in 1 .. Len(hdr) : hdr[j] = hdr[i]}
  <2>1. hdr[i] \in Blocks
    BY <1>1
  <2>2. S = {i}
    BY DEF EntryInv
  <2>3. (CHOOSE j \in S : TRUE) = i
    BY <2>2
  <2>4. Recovered[hdr[i]] = IF S = {} THEN home[hdr[i]] ELSE logdisk[CHOOSE j \in S : TRUE]
    BY <2>1, Zenon DEF Recovered
  <2> QED
    BY <2>1, <2>2, <2>3, <2>4
<1>4. ASSUME NEW b \in Blocks, ~InHead(b)
      PROVE  Recovered[b] = home[b]
  <2>1. {i \in 1 .. Len(hdr) : hdr[i] = b} = {}
    BY <1>4 DEF InHead
  <2> QED
    BY <2>1 DEF Recovered
<1> QED
  BY <1>2, <1>3, <1>4 DEF Shape

\* The contents readers see is given block by block.
LEMMA VisibleShape ==
  /\ boot = "up" => /\ Visible = [b \in Blocks |-> Visible[b]]
                    /\ \A b \in Blocks : Visible[b] = Bread(b)
  /\ boot # "up" => Visible = Recovered
  BY DEF Visible

\* A step that writes nothing to the disk
LEMMA DiskFrame ==
  ASSUME TypeOK, EntryInv, TypeOK', EntryInv', UNCHANGED <<home, logdisk, hdr>>
  PROVE  Recovered' = Recovered
<1>1. Shape /\ Shape'
  BY RecoveredShape, PTL
<1>2. home' = home /\ logdisk' = logdisk /\ hdr' = hdr
  OBVIOUS
<1>3. \A b \in Blocks : Recovered'[b] = Recovered[b]
  BY <1>1, <1>2 DEF Shape, InHead
<1> QED
  BY <1>1, <1>3, Extensional, Zenon DEF Shape

\* A turn of install_trans changes nothing that a reboot would find.
LEMMA InstallKeeps ==
  ASSUME TypeOK, EntryInv, TypeOK', EntryInv', Installing, InstallBlock
  PROVE  Recovered' = Recovered
<1>1. Shape /\ Shape'
  BY RecoveredShape, PTL
<1>2. hdr' = hdr /\ logdisk' = logdisk
  BY DEF InstallBlock
<1>3. tail + 1 \in 1 .. Len(hdr) /\ hdr[tail + 1] = lh[tail + 1]
  BY SMTT(30) DEF Installing, TypeOK
<1>4. \A b \in Blocks : ~InHead(b) => home'[b] = home[b]
  BY <1>3, Zenon DEF InHead, InstallBlock, TypeOK
<1>5. \A b \in Blocks : Recovered'[b] = Recovered[b]
  BY <1>1, <1>2, <1>4, SMTT(30) DEF Shape, InHead
<1> QED
  BY <1>1, <1>5, Extensional DEF Shape

\* Clearing the header changes nothing once every block is in its place.
LEMMA ClearKeeps ==
  ASSUME TypeOK, EntryInv, TypeOK', EntryInv', Installed, ClearHead
  PROVE  Recovered' = Recovered /\ \A b \in Blocks : Recovered[b] = home[b]
<1>1. Shape /\ Shape'
  BY RecoveredShape, PTL
<1>2. \A b \in Blocks : Recovered[b] = home[b]
  BY <1>1 DEF Shape, InHead, Installed
<1>3. home' = home /\ \A b \in Blocks : ~InHead(b)'
  BY DEF ClearHead, InHead
<1>4. \A b \in Blocks : Recovered'[b] = Recovered[b]
  BY <1>1, <1>2, <1>3, Zenon DEF Shape
<1> QED
  BY <1>1, <1>2, <1>4, Extensional, SMTT(30) DEF Shape

\* A buffer that may be recycled has the contents of its home block.
LEMMA EvictClean ==
  ASSUME TypeOK, AloneInv, DiskInv, NEW b \in Blocks, Evict(b)
  PROVE  Clean(b)
<1>1. boot = "up" /\ ~dirty[b] /\ Unlocked(b)
  BY DEF Evict
<1>2. CASE Quiet
  BY <1>1, <1>2, Zenon DEF DiskInv, QuietInv
<1>3. ASSUME NEW p \in Procs, pc[p] = "clear"
      PROVE  Clean(b)
  BY <1>3, Zenon DEF DiskInv, CommitInv, Installed
<1>4. ASSUME NEW p \in Procs, pc[p] = "install"
      PROVE  Clean(b)
  <2>1. Installing /\ \A i \in tail + 1 .. Len(lh) : dirty[lh[i]]
    BY <1>4, Zenon DEF DiskInv, CommitInv
  <2>2. CASE ~Logged(b)
    BY <2>1, <2>2, Zenon DEF Installing
  <2>3. ASSUME NEW i \in 1 .. Len(lh), lh[i] = b
        PROVE  Clean(b)
    <3>1. i \notin tail + 1 .. Len(lh)
      BY <1>1, <2>1, <2>3, Zenon
    <3>2. i \in 1 .. tail
      BY <3>1 DEF TypeOK
    <3> QED
      BY <2>1, <2>3, <3>2, Zenon DEF Installing
  <2> QED
    BY <2>2, <2>3, Zenon DEF Logged
<1> QED
  BY <1>1, <1>2, <1>3, <1>4, Zenon DEF Quiet

\* Every step of the log is a step of AtomicDisk or changes nothing that it sees: the write
\* of the header is Commit, Modify is Write, and a crash is a crash.
LEMMA RefineStep ==
  ASSUME Base, Counted, TypeOK', EntryInv', Limit <= nlog - 1, [Next]_vars
  PROVE  [Abstract!Next]_(Abstract!vars)
<1>1. CASE UNCHANGED vars
  <2>1. UNCHANGED <<home, logdisk, hdr, cache, boot, pc>>
    BY <1>1 DEF vars
  <2>2. Recovered' = Recovered
    BY <2>1, DiskFrame, Zenon DEF Base
  <2>3. Visible' = Visible /\ Active' = Active
    BY <2>1, <2>2, ZenonT(30) DEF Visible, Bread, Active
  <2> QED
    BY <2>2, <2>3, SMTT(30) DEF Abstract!vars
<1>2. /\ pc \in [Procs -> Locations]
      /\ blk \in [Procs -> Blocks]
      /\ lh \in Seq(Blocks) /\ hdr \in Seq(Blocks)
      /\ cache \in [Blocks -> Data \cup {Uncached}]
      /\ home \in [Blocks -> Data] /\ logdisk \in [LogSlots -> Data]
  BY DEF TypeOK, Base
<1>B. TypeOK /\ AloneInv /\ SpaceInv /\ EntryInv /\ DiskInv
  BY DEF Base
<1> USE  <1>B, <1>2, BlockAssumption
<1>3. ASSUME NEW p \in Procs, BeginCall(p)
      PROVE  [Abstract!Next]_(Abstract!vars)
  <2>1. UNCHANGED <<home, logdisk, hdr, cache, boot>>
    BY <1>3 DEF BeginCall, Goto, At, disk, bufs, log
  <2>2. Recovered' = Recovered
    BY <2>1, DiskFrame, Zenon
  <2>3. Visible' = Visible
    BY <2>1, <2>2, Zenon DEF Visible, Bread
  <2>4. Active' = Active
    BY <1>3, SMTT(30) DEF Active, InOp, BeginCall, Goto, At, disk, bufs, log
  <2> QED
    BY <2>2, <2>3, <2>4, SMTT(30) DEF Abstract!vars
<1>4. ASSUME NEW p \in Procs, BeginSleep(p)
      PROVE  [Abstract!Next]_(Abstract!vars)
  <2>1. UNCHANGED <<home, logdisk, hdr, cache, boot>>
    BY <1>4, SMTT(30) DEF BeginSleep, Goto, At, disk, bufs, log
  <2>2. Recovered' = Recovered
    BY <2>1, DiskFrame, Zenon
  <2>3. Visible' = Visible
    BY <2>1, <2>2, Zenon DEF Visible, Bread
  <2>4. Active' = Active
    BY <1>4 DEF Active, InOp, BeginSleep, Goto, At, disk, bufs, log
  <2> QED
    BY <2>2, <2>3, <2>4 DEF Abstract!vars
<1>5. ASSUME NEW p \in Procs, BeginOp(p)
      PROVE  [Abstract!Next]_(Abstract!vars)
  <2>1. UNCHANGED <<home, logdisk, hdr, cache, boot>>
    BY <1>5, SMTT(30) DEF BeginOp, Goto, At, disk, bufs, log, MustWait
  <2>2. Recovered' = Recovered
    BY <2>1, DiskFrame, Zenon
  <2>3. Visible' = Visible
    BY <2>1, <2>2, Zenon DEF Visible, Bread
  <2>4. p \notin Active /\ Active' = Active \cup {p}
    BY <1>5, SMTT(30) DEF Active, InOp, BeginOp, Goto, At, disk, bufs, log, MustWait
  <2> QED
    BY <2>2, <2>3, <2>4, Zenon DEF Abstract!Next, Abstract!BeginOp
<1>6. ASSUME NEW p \in Procs, Kill(p)
      PROVE  [Abstract!Next]_(Abstract!vars)
  <2>1. UNCHANGED <<home, logdisk, hdr, cache, boot>>
    BY <1>6, SMTT(30) DEF Kill, Goto, At, disk, bufs, log
  <2>2. Recovered' = Recovered
    BY <2>1, DiskFrame, Zenon
  <2>3. Visible' = Visible
    BY <2>1, <2>2, Zenon DEF Visible, Bread
  <2>4. Active' = Active
    BY <1>6 DEF Active, InOp, Kill, Goto, At, disk, bufs, log
  <2> QED
    BY <2>2, <2>3, <2>4 DEF Abstract!vars
<1>7. ASSUME NEW p \in Procs, NEW b \in Blocks, NEW d \in Data, Modify(p, b, d)
      PROVE  [Abstract!Next]_(Abstract!vars)
  <2>1. /\ UNCHANGED <<home, logdisk, hdr, boot>> /\ boot = "up"
        /\ cache' = [cache EXCEPT ![b] = d]
    BY <1>7 DEF Modify, Goto, At, disk
  <2>2. Recovered' = Recovered
    BY <2>1, DiskFrame, Zenon
  <2>3. p \in Active /\ Active' = Active
    BY <1>7 DEF Active, InOp, Modify, Goto, At
  <2>4. Visible' = [Visible EXCEPT ![b] = d]
    BY <2>1, Zenon DEF Visible, Bread
  <2> QED
    BY <2>2, <2>3, <2>4, Zenon DEF Abstract!Next, Abstract!Write
<1>8. ASSUME NEW p \in Procs, LogWriteCheck(p)
      PROVE  [Abstract!Next]_(Abstract!vars)
  <2>1. UNCHANGED <<home, logdisk, hdr, cache, boot>>
    BY <1>8, SMTT(30) DEF LogWriteCheck, Goto, At, disk, bufs, log, TooBig
  <2>2. Recovered' = Recovered
    BY <2>1, DiskFrame, Zenon
  <2>3. Visible' = Visible
    BY <2>1, <2>2, Zenon DEF Visible, Bread
  <2>4. Active' = Active
    BY <1>8, SMTT(30) DEF Active, InOp, LogWriteCheck, Goto, At, disk, bufs, log, TooBig
  <2> QED
    BY <2>2, <2>3, <2>4 DEF Abstract!vars
<1>9. ASSUME NEW p \in Procs, LogWrite(p)
      PROVE  [Abstract!Next]_(Abstract!vars)
  <2>1. UNCHANGED <<home, logdisk, hdr, cache, boot>>
    BY <1>9, SMTT(30) DEF LogWrite, Goto, At, disk, bufs, log
  <2>2. Recovered' = Recovered
    BY <2>1, DiskFrame, Zenon
  <2>3. Visible' = Visible
    BY <2>1, <2>2, Zenon DEF Visible, Bread
  <2>4. Active' = Active
    BY <1>9 DEF Active, InOp, LogWrite, Goto, At, disk, bufs, log
  <2> QED
    BY <2>2, <2>3, <2>4 DEF Abstract!vars
<1>10. ASSUME NEW b \in Blocks, Evict(b)
      PROVE  [Abstract!Next]_(Abstract!vars)
  <2>1. /\ UNCHANGED <<home, logdisk, hdr, boot, pc>> /\ boot = "up"
        /\ cache[b] # Uncached /\ cache' = [cache EXCEPT ![b] = Uncached]
    BY <1>10 DEF Evict, disk
  <2>2. Recovered' = Recovered /\ Active' = Active
    BY <2>1, DiskFrame, Zenon DEF Active
  <2>3. cache[b] = home[b]
    BY <1>10, <2>1, EvictClean, Zenon DEF Clean
  <2>4. Visible' = Visible
    BY <2>1, <2>3 DEF Visible, Bread
  <2> QED
    BY <2>2, <2>4, SMTT(30) DEF Abstract!vars
<1>11. ASSUME NEW p \in Procs, EndOp(p)
      PROVE  [Abstract!Next]_(Abstract!vars)
  <2>1. UNCHANGED <<home, logdisk, hdr, cache, boot>>
    BY <1>11, SMTT(30) DEF EndOp, At, disk, bufs, log, WakeupLog
  <2>2. Recovered' = Recovered
    BY <2>1, DiskFrame, Zenon
  <2>3. Visible' = Visible
    BY <2>1, <2>2, Zenon DEF Visible, Bread
  <2>4. p \in Active /\ Active' = Active \ {p}
    BY <1>11, SMTT(30) DEF Active, InOp, EndOp, At, disk, bufs, log, WakeupLog
  <2> QED
    BY <2>2, <2>3, <2>4, Zenon DEF Abstract!Next, Abstract!EndOp
<1>12. ASSUME NEW p \in Procs, EndOpCommit(p)
      PROVE  [Abstract!Next]_(Abstract!vars)
  <2>1. UNCHANGED <<home, logdisk, hdr, cache, boot>>
    BY <1>12, SMTT(30) DEF EndOpCommit, Goto, At, disk, bufs, log
  <2>2. Recovered' = Recovered
    BY <2>1, DiskFrame, Zenon
  <2>3. Visible' = Visible
    BY <2>1, <2>2, Zenon DEF Visible, Bread
  <2>4. p \in Active /\ Active' = Active \ {p}
    BY <1>12, SMTT(30) DEF Active, InOp, EndOpCommit, Goto, At, disk, bufs, log
  <2> QED
    BY <2>2, <2>3, <2>4, Zenon DEF Abstract!Next, Abstract!EndOp
<1>13. ASSUME NEW p \in Procs, WriteLog(p)
      PROVE  [Abstract!Next]_(Abstract!vars)
  <2>1. UNCHANGED <<home, hdr, cache, boot>>
    BY <1>13, SMTT(30) DEF WriteLog, Goto, At, disk, bufs, log
  <2>2. Quiet
    BY <1>13 DEF Quiet, AloneInv, Committer, WriteLog, Goto, At, disk, bufs, log
  <2>3. hdr = << >>
    BY <2>2, Zenon DEF DiskInv, QuietInv
  <2>4. 1 .. Len(hdr) = {}
    BY <2>3, SMTT(30)
  <2>5. Recovered' = Recovered
    BY <2>1, <2>4, Zenon DEF Recovered
  <2>6. Visible' = Visible
    BY <2>1, <2>5, Zenon DEF Visible, Bread
  <2>7. Active' = Active
    BY <1>13 DEF Active, InOp, WriteLog, Goto, At, disk, bufs, log
  <2> QED
    BY <2>5, <2>6, <2>7 DEF Abstract!vars
<1>14. ASSUME NEW p \in Procs, WriteHead(p)
      PROVE  [Abstract!Next]_(Abstract!vars)
  <2>1. UNCHANGED <<home, logdisk, cache, lh, boot>> /\ hdr' = lh /\ boot = "up"
    BY <1>14, SMTT(30) DEF WriteHead, Goto, At, disk, bufs, log
  <2>2. Quiet /\ \A b \in Blocks : Unlocked(b)
    BY <1>14
    DEF Quiet, Unlocked, AloneInv, Committer, InOp, WriteHead, Goto, At, disk, bufs, log
  <2>3. \A b \in Blocks : ~Logged(b) => Clean(b)
    BY <2>2, Zenon DEF DiskInv, QuietInv
  <2>4. \A b \in Blocks : Logged(b) => cache[b] # Uncached
    BY <2>2, Zenon DEF DiskInv, QuietInv
  <2>5. \A i \in 1 .. Len(lh) : logdisk[i] = cache[lh[i]]
    BY <1>14, Zenon DEF DiskInv, CommitInv, WriteHead, Goto, At
  <2>6. Shape'
    BY RecoveredShape, PTL
  <2>7. /\ Visible = [b \in Blocks |-> Visible[b]]
        /\ \A b \in Blocks : Visible[b] = Bread(b)
    BY <2>1, VisibleShape
  <2>8. \A b \in Blocks : Recovered'[b] = Visible[b]
    <3> TAKE b \in Blocks
    <3>1. CASE ~Logged(b)
      BY <2>1, <2>3, <2>6, <2>7, <3>1, ZenonT(30) DEF Shape, InHead, Logged, Clean, Bread
    <3>2. ASSUME NEW i \in 1 .. Len(lh), lh[i] = b
          PROVE  Recovered'[b] = Visible[b]
      BY <2>1, <2>4, <2>5, <2>6, <2>7, <3>2, SMTT(30) DEF Shape, Logged, Bread
    <3> QED
      BY <3>1, <3>2, Zenon DEF Logged
  <2>9. Recovered' = Visible
    BY <2>6, <2>7, <2>8, Extensional DEF Shape
  <2>10. Visible' = Visible
    BY <2>1, Zenon DEF Visible, Bread
  <2>11. Active' = Active /\ Active = {}
    BY <1>14 DEF Active, InOp, AloneInv, Committer, WriteHead, Goto, At, disk, bufs, log
  <2> QED
    BY <2>9, <2>10, <2>11, Zenon DEF Abstract!Next, Abstract!Commit
<1>15. ASSUME NEW p \in Procs, Install(p)
      PROVE  [Abstract!Next]_(Abstract!vars)
  <2>1. /\ Installing /\ InstallBlock /\ UNCHANGED <<lh, boot>> /\ boot = "up"
        /\ \A i \in tail + 1 .. Len(lh) : cache[lh[i]] = logdisk[i]
    BY <1>15, Zenon DEF DiskInv, CommitInv, Install, Goto, At, log
  <2>2. Recovered' = Recovered
    BY <2>1, InstallKeeps, Zenon
  <2>3. lh[tail + 1] \in Blocks /\ tail + 1 \in LogSlots /\ tail + 1 \in tail + 1 .. Len(lh)
    <3>1. tail < Len(lh) /\ tail \in Nat
      BY <2>1, Zenon DEF Installing, TypeOK
    <3>2. Len(lh) \in Nat /\ Len(lh) <= Limit
      BY SMTT(30) DEF TypeOK, Counted
    <3> QED
      BY <3>1, <3>2, SizeAssumption, LimitFacts DEF LogSlots
  <2>4. logdisk[tail + 1] = cache[lh[tail + 1]] /\ logdisk[tail + 1] # Uncached
    BY <2>1, <2>3, BlockAssumption, SMTT(30) DEF TypeOK
  <2>5. \A b \in Blocks : /\ cache'[b] = cache[b]
                          /\ b # lh[tail + 1] => home'[b] = home[b]
    BY <2>1, <2>3, <2>4, Zenon DEF TypeOK, InstallBlock
  <2>6. \A b \in Blocks : Bread(b)' = Bread(b)
    BY <2>4, <2>5, Zenon DEF Bread
  <2>7. Visible' = Visible
    BY <2>1, <2>6, Zenon DEF Visible
  <2>8. Active' = Active
    BY <1>15 DEF Active, InOp, Install, Goto, At
  <2> QED
    BY <2>2, <2>7, <2>8 DEF Abstract!vars
<1>16. ASSUME NEW p \in Procs, Clear(p)
      PROVE  [Abstract!Next]_(Abstract!vars)
  <2>1. Installed /\ ClearHead /\ UNCHANGED <<cache, boot>>
    BY <1>16, Zenon DEF DiskInv, CommitInv, Clear, Goto, At, bufs
  <2>2. Recovered' = Recovered
    BY <2>1, ClearKeeps, Zenon
  <2>3. Visible' = Visible
    BY <2>1, <2>2, Zenon DEF Visible, Bread, ClearHead
  <2>4. Active' = Active
    BY <1>16, SMTT(30) DEF Active, InOp, Clear, Goto, At
  <2> QED
    BY <2>2, <2>3, <2>4 DEF Abstract!vars
<1>17. ASSUME NEW p \in Procs, EndCommit(p)
      PROVE  [Abstract!Next]_(Abstract!vars)
  <2>1. UNCHANGED <<home, logdisk, hdr, cache, boot>>
    BY <1>17, SMTT(30) DEF EndCommit, At, disk, bufs, log, WakeupLog
  <2>2. Recovered' = Recovered
    BY <2>1, DiskFrame, Zenon
  <2>3. Visible' = Visible
    BY <2>1, <2>2, Zenon DEF Visible, Bread
  <2>4. Active' = Active
    BY <1>17 DEF Active, InOp, EndCommit, At, disk, bufs, log, WakeupLog
  <2> QED
    BY <2>2, <2>3, <2>4 DEF Abstract!vars
<1>18. ASSUME BootReadHead
      PROVE  [Abstract!Next]_(Abstract!vars)
  <2>1. UNCHANGED <<home, logdisk, hdr, pc>> /\ boot # "up" /\ boot' # "up"
    BY <1>18 DEF BootReadHead, disk
  <2>2. /\ Recovered' = Recovered /\ Visible' = Recovered' /\ Visible = Recovered
        /\ Active' = Active
    BY <2>1, DiskFrame, Zenon DEF Visible, Active
  <2> QED
    BY <2>2 DEF Abstract!vars
<1>19. ASSUME BootInstall
      PROVE  [Abstract!Next]_(Abstract!vars)
  <2>1. Installing /\ InstallBlock /\ pc' = pc /\ boot # "up" /\ boot' # "up"
    BY <1>19 DEF DiskInv, BootInv, BootInstall
  <2>2. Recovered' = Recovered
    BY <2>1, InstallKeeps, Zenon
  <2>3. Visible' = Visible /\ Active' = Active
    BY <2>1, <2>2, ZenonT(30) DEF Visible, Active
  <2> QED
    BY <2>2, <2>3, SMTT(30) DEF Abstract!vars
<1>20. ASSUME BootClear
      PROVE  [Abstract!Next]_(Abstract!vars)
  <2>1. Installed /\ ClearHead /\ UNCHANGED <<cache, pc>> /\ boot # "up" /\ boot' = "up"
    BY <1>20 DEF DiskInv, BootInv, BootClear, bufs
  <2>2. Recovered' = Recovered /\ \A b \in Blocks : Recovered[b] = home[b]
    BY <2>1, ClearKeeps, Zenon
  <2>3. \A b \in Blocks : Bread(b)' = home[b]
    BY <2>1, Zenon DEF Installed, Clean, Bread, ClearHead
  <2>4. (boot = "up" => /\ Visible = [b \in Blocks |-> Visible[b]]
                        /\ \A b \in Blocks : Visible[b] = Bread(b))'
    BY VisibleShape, PTL
  <2>5. Shape
    BY RecoveredShape, SMTT(30)
  <2>6. Visible' = Recovered
    BY <2>1, <2>2, <2>3, <2>4, <2>5, Extensional DEF Shape
  <2>7. Visible = Recovered /\ Active' = Active
    BY <2>1, Zenon DEF Visible, Active
  <2> QED
    BY <2>2, <2>6, <2>7, Zenon DEF Abstract!vars
<1>21. ASSUME Crash
      PROVE  [Abstract!Next]_(Abstract!vars)
  <2>1. UNCHANGED <<home, logdisk, hdr>> /\ boot' # "up"
    BY <1>21 DEF Crash, disk
  <2>2. Recovered' = Recovered /\ Visible' = Recovered'
    BY <2>1, DiskFrame, Zenon DEF Visible
  <2>3. Active' = {}
    BY <1>21 DEF Active, InOp, Crash
  <2> QED
    BY <2>2, <2>3, Zenon DEF Abstract!Next, Abstract!Crash
<1> QED
  BY <1>1, <1>2, <1>3, <1>4, <1>5, <1>6, <1>7, <1>8, <1>9, <1>10, <1>11, <1>12, <1>13,
     <1>14, <1>15, <1>16, <1>17, <1>18, <1>19, <1>20, <1>21, Zenon
  DEF Next, Step, Recover

\* The log implements AtomicDisk: whole operations become durable together, at the
\* write of the header, and a crash at any step, also of the recovery, loses no
\* committed operation and keeps no part of another.
THEOREM LogIsAtomic ==
  ASSUME Limit <= nlog - 1
  PROVE  Spec => AtomicCommit
<1>1. Init => Abstract!Init
  <2> SUFFICES ASSUME Init PROVE Abstract!Init
    OBVIOUS
  <2>1. Shape
    BY InitBase, RecoveredShape, Zenon DEF Base
  <2>2. \A b \in Blocks : Recovered[b] = Blank
    BY <2>1 DEF Init, Shape, InHead
  <2>3. Recovered = [b \in Blocks |-> Blank]
    BY <2>1, <2>2 DEF Shape
  <2>4. Visible = [b \in Blocks |-> Blank]
    BY DEF Init, Visible, Bread
  <2>5. Active = {}
    BY DEF Init, Active, InOp
  <2> QED
    BY <2>3, <2>4, <2>5 DEF Abstract!Init
<1>2. ASSUME IInv, IInv', [Next]_vars
      PROVE  [Abstract!Next]_(Abstract!vars)
  <2>1. Base /\ Counted /\ TypeOK' /\ EntryInv'
    BY <1>2, CountedFacts, Zenon DEF IInv, Base
  <2> QED
    BY <1>2, <2>1, RefineStep, Zenon
<1>3. IInv /\ IInv' /\ [Next]_vars => [Abstract!Next]_(Abstract!vars)
  BY <1>2
<1> QED
  BY <1>1, <1>3, Invariance, PTL DEF Spec, AtomicCommit, Abstract!Spec
=============================================================================
