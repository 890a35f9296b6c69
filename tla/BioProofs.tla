----------------------------- MODULE BioProofs -----------------------------
(***************************************************************************)
(* The buffer cache and the disk driver, for any number of processes,      *)
(* blocks and buffers: refcnt counts the users of a buffer and bget does   *)
(* not run out of buffers, the request queue agrees with the processes     *)
(* that sleep in iderw, and bread returns what was last stored.            *)
(*                                                                         *)
(* The invariant says who has a buffer's lock (LockInv), which buffer      *)
(* stands for a block (BlockInv), and how the flags, the request queue and *)
(* the locations of the processes agree (FlagInv, QueueInv).  First what   *)
(* each step keeps of it, then the counting, then the theorems.            *)
(***************************************************************************)
EXTENDS Bio, FiniteSetTheorems, TLAPS

Users(b) == {p \in Procs : pc[p] # "idle" /\ buf[p] = b}
Locked == {"rw", "wait", "woken", "held"}
Queued(b) == b \in Range(idequeue)
Done(b) == valid[b] /\ ~dirty[b]   \* what iderw waits for

UserInv == refcnt = [b \in Bufs |-> Cardinality(Users(b))]

\* A buffer is locked exactly while its owner is at a location where it has the lock.
LockInv ==
  /\ \A p \in Procs : pc[p] \in Locked => owner[buf[p]] = p
  /\ \A b \in Bufs : owner[b] # None => pc[owner[b]] \in Locked /\ buf[owner[b]] = b

\* A buffer is not recycled under its user, and no block has two buffers.
BlockInv ==
  /\ \A p \in Procs : pc[p] # "idle" => blockno[buf[p]] = want[p]
  /\ \A b, c \in Bufs : blockno[b] = blockno[c] /\ blockno[b] # NoBlock => b = c

\* The flags of a buffer, and its place in the queue, at each location of its user.
FlagInv ==
  /\ \A b \in Bufs : dirty[b] => valid[b] /\ data[b] \in Data
  /\ \A b \in Bufs : valid[b] => blockno[b] # NoBlock
  /\ \A p \in Procs :
       /\ pc[p] = "held" => valid[buf[p]]
       /\ pc[p] = "rw" => ~Done(buf[p]) /\ ~Queued(buf[p])
       /\ pc[p] = "wait" => Queued(buf[p])
       /\ pc[p] = "woken" => Queued(buf[p]) \/ Done(buf[p])

\* Every request in the queue has something to do, and an owner that waits for it.
QueueInv ==
  /\ drive = IF idequeue = << >> THEN None ELSE idequeue[1]
  /\ done => idequeue # << >>
  /\ IsInjective(idequeue)
  /\ \A b \in Range(idequeue) :
       ~Done(b) /\ owner[b] # None /\ pc[owner[b]] \in {"wait", "woken"}

\* Dirty buffers that no process is about to write: those that log_write left.
Writing(b) == \E p \in Procs : buf[p] = b /\ pc[p] \in {"rw", "wait", "woken"}
Pinned == {b \in Bufs : dirty[b] /\ ~Writing(b)}
PinInv == Cardinality(Pinned) <= MaxPinned /\ NoPanic

IInv == TypeOK /\ UserInv /\ LockInv /\ BlockInv /\ FlagInv /\ QueueInv /\ PinInv

\* Where the contents of a block are, if the drive does not fail: in its buffer when
\* that is valid, and on the disk unless its buffer is dirty or just written.
DataInv ==
  /\ ~failed
  /\ \A b \in Bufs : valid[b] => data[b] = latest[blockno[b]]
  /\ \A k \in Blocks : disk[k] = latest[k] \/ \E b \in Bufs : blockno[b] = k /\ dirty[b]
  /\ done => disk[blockno[idequeue[1]]] = latest[blockno[idequeue[1]]]

----------------------------------------------------------------------------
\* What the counting below needs to know of a step

UsersCounted ==
  \A b \in Bufs : refcnt[b] = 0 => \A p \in Procs : buf[p] = b => pc[p] = "idle"

UsersChange ==
  \/ refcnt' = refcnt /\ \A b \in Bufs : Users(b)' = Users(b)
  \/ \E p \in Procs, b \in Bufs :
       /\ p \notin Users(b) /\ Users(b)' = Users(b) \cup {p}
       /\ refcnt' = [refcnt EXCEPT ![b] = @ + 1]
       /\ \A c \in Bufs : c # b => Users(c)' = Users(c)
  \/ \E p \in Procs, b \in Bufs :
       /\ p \in Users(b) /\ Users(b)' = Users(b) \ {p}
       /\ refcnt' = [refcnt EXCEPT ![b] = @ - 1]
       /\ \A c \in Bufs : c # b => Users(c)' = Users(c)

PinnedChange ==
  \/ Pinned' \subseteq Pinned
  \/ \E b \in Bufs :
       /\ Pinned' \subseteq {c \in Bufs : dirty[c]} \cup {b}
       /\ Cardinality({c \in Bufs : dirty[c]}) < MaxPinned

PanicChange == panicked' => panicked \/ (Unused = {} /\ \E p \in Procs : pc[p] = "idle")

----------------------------------------------------------------------------

\* The buffers in the queue after a request is added, and after the first is done.
LEMMA RangeAppend ==
  ASSUME idequeue \in Seq(Bufs), NEW b \in Bufs
  PROVE  Range(Append(idequeue, b)) = Range(idequeue) \cup {b}
<1> DEFINE q == Append(idequeue, b)
<1>1. /\ DOMAIN q = DOMAIN idequeue \cup {Len(idequeue) + 1}
      /\ q[Len(idequeue) + 1] = b
      /\ \A i \in DOMAIN idequeue : q[i] = idequeue[i]
  OBVIOUS
<1> HIDE DEF q
<1>2. Range(q) = Range(idequeue) \cup {b}
  BY <1>1 DEF Range
<1> QED
  BY <1>2 DEF q

LEMMA QueuedBufs == TypeOK => Range(idequeue) \subseteq Bufs
  BY DEF TypeOK, Range

LEMMA RangeTail ==
  ASSUME idequeue \in Seq(Bufs), idequeue # << >>, IsInjective(idequeue)
  PROVE  /\ Head(idequeue) \in Bufs
         /\ Head(idequeue) = idequeue[1]
         /\ Head(idequeue) \in Range(idequeue)
         /\ Range(Tail(idequeue)) = Range(idequeue) \ {Head(idequeue)}
         /\ IsInjective(Tail(idequeue))
<1>1. /\ Head(idequeue) \in Bufs /\ Head(idequeue) = idequeue[1]
      /\ 1 \in DOMAIN idequeue
  OBVIOUS
<1>2. IsInjective(Tail(idequeue))
  BY DEF IsInjective
<1>3. ASSUME NEW x \in Range(Tail(idequeue))
      PROVE  x \in Range(idequeue) \ {Head(idequeue)}
  BY DEF Range, IsInjective
<1>4. ASSUME NEW x \in Range(idequeue) \ {Head(idequeue)}
      PROVE  x \in Range(Tail(idequeue))
  <2>1. PICK i \in DOMAIN idequeue : x = idequeue[i]
    BY DEF Range
  <2>2. i # 1 /\ i - 1 \in DOMAIN Tail(idequeue) /\ Tail(idequeue)[i - 1] = x
    BY <1>1, <2>1
  <2> QED
    BY <2>2, Zenon DEF Range
<1>5. Head(idequeue) \in Range(idequeue)
  BY <1>1, Zenon DEF Range
<1> QED
  BY <1>1, <1>2, <1>3, <1>4, <1>5, Zenon

\* One process at a time has a buffer's lock.
LEMMA LockStep ==
  ASSUME TypeOK, LockInv, [Next]_vars
  PROVE  LockInv'
<1>1. CASE UNCHANGED vars
  BY <1>1, Zenon DEF vars, LockInv
<1>2. /\ pc \in [Procs -> Locations]
      /\ buf \in [Procs -> Bufs]
      /\ owner \in [Bufs -> Procs \cup {None}]
      /\ None \notin Procs
  BY SizeAssumption, NoneAssumption DEF TypeOK
<1> USE <1>2 DEF LockInv, Locked
<1>3. ASSUME NEW p \in Procs, NEW k \in Blocks, BgetHit(p, k)
      PROVE  LockInv'
  BY <1>3 DEF BgetHit, Goto, At, bufs, ide, proc
<1>4. ASSUME NEW p \in Procs, NEW k \in Blocks, BgetRecycle(p, k)
      PROVE  LockInv'
  BY <1>4 DEF BgetRecycle, At, bufs, ide, proc
<1>5. ASSUME NEW p \in Procs, Lock(p)
      PROVE  LockInv'
  BY <1>5 DEF Lock, Goto, At, bufs, ide, proc
<1>6. ASSUME NEW p \in Procs, Iderw(p)
      PROVE  LockInv'
  BY <1>6 DEF Iderw, Goto, At, bufs, ide, proc
<1>7. ASSUME DriveDone
      PROVE  LockInv'
  BY <1>7 DEF DriveDone, bufs, ide, proc
<1>8. ASSUME Ideintr
      PROVE  LockInv'
  BY <1>8 DEF Ideintr, bufs, ide, proc
<1>9. ASSUME NEW p \in Procs, WakeEarly(p)
      PROVE  LockInv'
  BY <1>9 DEF WakeEarly, Goto, At, bufs, ide, proc
<1>10. ASSUME NEW p \in Procs, IderwTest(p)
      PROVE  LockInv'
  BY <1>10 DEF IderwTest, Goto, At, bufs, ide, proc
<1>11. ASSUME NEW p \in Procs, NEW d \in Data, LogWrite(p, d)
      PROVE  LockInv'
  BY <1>11 DEF LogWrite, At, bufs, ide, proc
<1>12. ASSUME NEW p \in Procs, NEW d \in Data, Bwrite(p, d)
      PROVE  LockInv'
  BY <1>12 DEF Bwrite, Goto, At, bufs, ide, proc
<1>13. ASSUME NEW p \in Procs, Brelse(p)
      PROVE  LockInv'
  BY <1>13 DEF Brelse, Goto, At, bufs, ide, proc
<1>14. ASSUME NEW p \in Procs, BrelsePut(p)
      PROVE  LockInv'
  BY <1>14 DEF BrelsePut, Goto, At, bufs, ide, proc
<1> HIDE DEF LockInv, Locked
<1> QED
  BY <1>1, <1>2, <1>3, <1>4, <1>5, <1>6, <1>7, <1>8, <1>9, <1>10, <1>11, <1>12, <1>13,
     <1>14, Zenon
  DEF Next, Call, Step, Device

\* bget recycles a buffer without users, and only if the block has no buffer.
LEMMA BlockStep ==
  ASSUME TypeOK, BlockInv, UsersCounted, [Next]_vars
  PROVE  BlockInv'
<1>1. CASE UNCHANGED vars
  BY <1>1, Zenon DEF vars, BlockInv
<1>2. /\ pc \in [Procs -> Locations]
      /\ buf \in [Procs -> Bufs]
      /\ blockno \in [Bufs -> Blocks \cup {NoBlock}]
      /\ want \in [Procs -> Blocks]
      /\ NoBlock \notin Blocks
  BY SizeAssumption, NoneAssumption DEF TypeOK
<1> USE <1>2 DEF BlockInv, UsersCounted
<1>3. ASSUME NEW p \in Procs, NEW k \in Blocks, BgetHit(p, k)
      PROVE  BlockInv'
  BY <1>3 DEF BgetHit, Goto, At, bufs, ide, proc, Cached
<1>4. ASSUME NEW p \in Procs, NEW k \in Blocks, BgetRecycle(p, k)
      PROVE  BlockInv'
  BY <1>4 DEF BgetRecycle, At, bufs, ide, proc, Cached, LeastRecent, Unused
<1>5. ASSUME NEW p \in Procs, Lock(p)
      PROVE  BlockInv'
  BY <1>5 DEF Lock, Goto, At, bufs, ide, proc
<1>6. ASSUME NEW p \in Procs, Iderw(p)
      PROVE  BlockInv'
  BY <1>6 DEF Iderw, Goto, At, bufs, ide, proc
<1>7. ASSUME DriveDone
      PROVE  BlockInv'
  BY <1>7 DEF DriveDone, bufs, ide, proc
<1>8. ASSUME Ideintr
      PROVE  BlockInv'
  BY <1>8 DEF Ideintr, bufs, ide, proc
<1>9. ASSUME NEW p \in Procs, WakeEarly(p)
      PROVE  BlockInv'
  BY <1>9 DEF WakeEarly, Goto, At, bufs, ide, proc
<1>10. ASSUME NEW p \in Procs, IderwTest(p)
      PROVE  BlockInv'
  BY <1>10 DEF IderwTest, Goto, At, bufs, ide, proc
<1>11. ASSUME NEW p \in Procs, NEW d \in Data, LogWrite(p, d)
      PROVE  BlockInv'
  BY <1>11 DEF LogWrite, At, bufs, ide, proc
<1>12. ASSUME NEW p \in Procs, NEW d \in Data, Bwrite(p, d)
      PROVE  BlockInv'
  BY <1>12 DEF Bwrite, Goto, At, bufs, ide, proc
<1>13. ASSUME NEW p \in Procs, Brelse(p)
      PROVE  BlockInv'
  BY <1>13 DEF Brelse, Goto, At, bufs, ide, proc
<1>14. ASSUME NEW p \in Procs, BrelsePut(p)
      PROVE  BlockInv'
  BY <1>14 DEF BrelsePut, Goto, At, bufs, ide, proc
<1> HIDE DEF BlockInv, UsersCounted
<1> QED
  BY <1>1, <1>2, <1>3, <1>4, <1>5, <1>6, <1>7, <1>8, <1>9, <1>10, <1>11, <1>12, <1>13,
     <1>14, Zenon
  DEF Next, Call, Step, Device

\* A queued buffer has a user, so it stands for a block.
LEMMA QueuedBlock ==
  ASSUME TypeOK, LockInv, BlockInv, QueueInv, NEW b \in Bufs, b \in Range(idequeue)
  PROVE  blockno[b] \in Blocks
<1>1. owner[b] # None /\ pc[owner[b]] \in {"wait", "woken"}
  BY Zenon DEF QueueInv
<1>2. owner[b] \in Procs
  BY <1>1 DEF TypeOK
<1>3. buf[owner[b]] = b
  BY <1>1, Zenon DEF LockInv
<1>4. blockno[b] = want[owner[b]]
  BY <1>1, <1>2, <1>3 DEF BlockInv
<1> QED
  BY <1>2, <1>4 DEF TypeOK

\* Nothing changes the flags of a queued buffer but ideintr, which wakes its owner.
LEMMA FlagStep ==
  ASSUME TypeOK, LockInv, BlockInv, UsersCounted, QueueInv, FlagInv, [Next]_vars
  PROVE  FlagInv'
<1>1. CASE UNCHANGED vars
  BY <1>1, Zenon DEF vars, FlagInv, Done, Queued
<1>2. /\ pc \in [Procs -> Locations]
      /\ buf \in [Procs -> Bufs]
      /\ owner \in [Bufs -> Procs \cup {None}]
      /\ None \notin Procs
      /\ valid \in [Bufs -> BOOLEAN]
      /\ dirty \in [Bufs -> BOOLEAN]
      /\ data \in [Bufs -> Data \cup {NoData}]
      /\ idequeue \in Seq(Bufs)
      /\ blockno \in [Bufs -> Blocks \cup {NoBlock}]
      /\ NoBlock \notin Blocks
      /\ want \in [Procs -> Blocks]
  BY SizeAssumption, NoneAssumption DEF TypeOK
<1> USE <1>2 DEF FlagInv, LockInv, Locked, Done, Queued
<1>3. ASSUME NEW p \in Procs, NEW k \in Blocks, BgetHit(p, k)
      PROVE  FlagInv'
  BY <1>3 DEF BgetHit, Goto, At, bufs, ide, proc, Cached
<1>4. ASSUME NEW p \in Procs, NEW k \in Blocks, BgetRecycle(p, k)
      PROVE  FlagInv'
  <2>1. CASE Unused = {}
    BY <1>4, <2>1 DEF BgetRecycle, bufs, ide, proc
  <2>2. CASE Unused # {}
    <3>1. PICK b \in Bufs :
            /\ b \in Unused
            /\ blockno' = [blockno EXCEPT ![b] = k]
            /\ valid' = [valid EXCEPT ![b] = FALSE]
            /\ dirty' = [dirty EXCEPT ![b] = FALSE]
            /\ buf' = [buf EXCEPT ![p] = b]
      BY <1>4, <2>2, Zenon DEF BgetRecycle, LeastRecent
    <3>2. pc' = [pc EXCEPT ![p] = "lock"] /\ UNCHANGED <<data, idequeue>>
      BY <1>4, <2>2, Zenon DEF BgetRecycle, ide
    <3>3. \A q \in Procs : buf[q] = b => pc[q] = "idle"
      BY <3>1, Zenon DEF Unused, UsersCounted
    <3> QED
      BY <3>1, <3>2, <3>3
  <2> QED
    BY <2>1, <2>2, Zenon
<1>5. ASSUME NEW p \in Procs, Lock(p)
      PROVE  FlagInv'
  BY <1>5 DEF Lock, Goto, At, bufs, ide, proc, QueueInv
<1>6. ASSUME NEW p \in Procs, Iderw(p)
      PROVE  FlagInv'
  <2>1. /\ pc[p] = "rw" /\ pc' = [pc EXCEPT ![p] = "wait"]
        /\ idequeue' = Append(idequeue, buf[p])
        /\ UNCHANGED <<blockno, valid, dirty, data, buf>>
    BY <1>6 DEF Iderw, Goto, At, bufs
  <2>2. Range(idequeue') = Range(idequeue) \cup {buf[p]}
    BY <2>1, RangeAppend, ZenonT(30)
  <2>3. \A q \in Procs : pc[q] \in Locked /\ buf[q] = buf[p] => q = p
    BY <2>1
  <2>4. \A q \in Procs : pc'[q] = IF q = p THEN "wait" ELSE pc[q]
    BY <2>1
  <2> QED
    BY <2>1, <2>2, <2>3, <2>4
<1>7. ASSUME DriveDone
      PROVE  FlagInv'
  BY <1>7 DEF DriveDone, bufs, ide, proc
<1>8. ASSUME Ideintr
      PROVE  FlagInv'
  <2>1. /\ idequeue # << >> /\ IsInjective(idequeue)
        /\ idequeue' = Tail(idequeue)
        /\ UNCHANGED <<blockno, buf>>
    BY <1>8, Zenon DEF Ideintr, QueueInv
  <2>2. PICK b \in Bufs : b = Head(idequeue)
    BY <2>1
  <2>3. /\ valid' = [valid EXCEPT ![b] = TRUE]
        /\ dirty' = [dirty EXCEPT ![b] = FALSE]
        /\ pc' = [q \in Procs |-> IF pc[q] = "wait" /\ buf[q] = b THEN "woken" ELSE pc[q]]
    BY <1>8, <2>2 DEF Ideintr
  <2>7. \A c \in Bufs : c # b => data'[c] = data[c]
    BY <1>8, <2>2 DEF Ideintr
  <2>4. Range(idequeue') = Range(idequeue) \ {b} /\ b \in Range(idequeue)
    BY <2>1, <2>2, RangeTail, Zenon
  <2>5. owner[b] # None /\ pc[owner[b]] \in {"wait", "woken"}
    BY <2>4, Zenon DEF QueueInv
  <2>6. blockno[b] # NoBlock
    BY <2>5 DEF BlockInv
  <2> QED
    BY <2>1, <2>2, <2>3, <2>4, <2>5, <2>6, <2>7
<1>9. ASSUME NEW p \in Procs, WakeEarly(p)
      PROVE  FlagInv'
  BY <1>9 DEF WakeEarly, Goto, At, bufs, ide, proc
<1>10. ASSUME NEW p \in Procs, IderwTest(p)
      PROVE  FlagInv'
  BY <1>10 DEF IderwTest, Goto, At, bufs, ide, proc
<1>11. ASSUME NEW p \in Procs, NEW d \in Data, LogWrite(p, d)
      PROVE  FlagInv'
  BY <1>11 DEF LogWrite, At, bufs, ide, proc
<1>12. ASSUME NEW p \in Procs, NEW d \in Data, Bwrite(p, d)
      PROVE  FlagInv'
  BY <1>12 DEF Bwrite, Goto, At, bufs, ide, proc, QueueInv
<1>13. ASSUME NEW p \in Procs, Brelse(p)
      PROVE  FlagInv'
  BY <1>13 DEF Brelse, Goto, At, bufs, ide, proc
<1>14. ASSUME NEW p \in Procs, BrelsePut(p)
      PROVE  FlagInv'
  BY <1>14 DEF BrelsePut, Goto, At, bufs, ide, proc
<1> HIDE DEF FlagInv, LockInv, Locked, Done, Queued
<1> QED
  BY <1>1, <1>2, <1>3, <1>4, <1>5, <1>6, <1>7, <1>8, <1>9, <1>10, <1>11, <1>12, <1>13,
     <1>14, Zenon
  DEF Next, Call, Step, Device

\* iderw puts a buffer in the queue once, and ideintr goes on with the next.
LEMMA QueueStep ==
  ASSUME TypeOK, LockInv, BlockInv, UsersCounted, FlagInv, QueueInv, [Next]_vars
  PROVE  QueueInv'
<1>1. CASE UNCHANGED vars
  BY <1>1, Zenon DEF vars, QueueInv, Done, Queued
<1>2. /\ pc \in [Procs -> Locations]
      /\ buf \in [Procs -> Bufs]
      /\ owner \in [Bufs -> Procs \cup {None}]
      /\ None \notin Procs
      /\ valid \in [Bufs -> BOOLEAN]
      /\ dirty \in [Bufs -> BOOLEAN]
      /\ data \in [Bufs -> Data \cup {NoData}]
      /\ idequeue \in Seq(Bufs)
      /\ blockno \in [Bufs -> Blocks \cup {NoBlock}]
      /\ NoBlock \notin Blocks
      /\ done \in BOOLEAN
      /\ drive \in Bufs \cup {None}
  BY SizeAssumption, NoneAssumption DEF TypeOK
<1> USE <1>2, QueuedBufs DEF QueueInv, LockInv, Locked, Done, Queued
<1>3. ASSUME NEW p \in Procs, NEW k \in Blocks, BgetHit(p, k)
      PROVE  QueueInv'
  BY <1>3 DEF BgetHit, Goto, At, bufs, ide, proc, Cached
<1>4. ASSUME NEW p \in Procs, NEW k \in Blocks, BgetRecycle(p, k)
      PROVE  QueueInv'
  BY <1>4 DEF BgetRecycle, At, bufs, ide, proc, Cached, LeastRecent, Unused, UsersCounted
<1>5. ASSUME NEW p \in Procs, Lock(p)
      PROVE  QueueInv'
  BY <1>5 DEF Lock, Goto, At, bufs, ide, proc
<1>6. ASSUME NEW p \in Procs, Iderw(p)
      PROVE  QueueInv'
  BY <1>6 DEF Iderw, Goto, At, bufs, ide, proc, FlagInv, Range, IsInjective
<1>7. ASSUME DriveDone
      PROVE  QueueInv'
  BY <1>7 DEF DriveDone, bufs, ide, proc
<1>8. ASSUME Ideintr
      PROVE  QueueInv'
  <2>1. /\ idequeue # << >> /\ IsInjective(idequeue)
        /\ idequeue' = Tail(idequeue)
        /\ drive' = IF Tail(idequeue) = << >> THEN None ELSE Head(Tail(idequeue))
        /\ done' = FALSE
        /\ UNCHANGED <<owner, buf>>
    BY <1>8, Zenon DEF Ideintr, QueueInv
  <2>2. PICK b \in Bufs : b = Head(idequeue)
    BY <2>1
  <2>3. /\ valid' = [valid EXCEPT ![b] = TRUE]
        /\ dirty' = [dirty EXCEPT ![b] = FALSE]
        /\ pc' = [q \in Procs |-> IF pc[q] = "wait" /\ buf[q] = b THEN "woken" ELSE pc[q]]
    BY <1>8, <2>2 DEF Ideintr
  <2>4. /\ Range(idequeue') = Range(idequeue) \ {b} /\ b \in Range(idequeue)
        /\ IsInjective(idequeue')
    BY <2>1, <2>2, RangeTail, Zenon
  <2>5. drive' = IF idequeue' = << >> THEN None ELSE idequeue'[1]
    BY <2>1
  <2>6. Range(idequeue) \subseteq Bufs
    BY DEF Range
  <2> QED
    BY <2>1, <2>2, <2>3, <2>4, <2>5, <2>6, SMTT(20)
<1>9. ASSUME NEW p \in Procs, WakeEarly(p)
      PROVE  QueueInv'
  BY <1>9 DEF WakeEarly, Goto, At, bufs, ide, proc
<1>10. ASSUME NEW p \in Procs, IderwTest(p)
      PROVE  QueueInv'
  BY <1>10 DEF IderwTest, Goto, At, bufs, ide, proc, FlagInv
<1>11. ASSUME NEW p \in Procs, NEW d \in Data, LogWrite(p, d)
      PROVE  QueueInv'
  BY <1>11 DEF LogWrite, At, bufs, ide, proc
<1>12. ASSUME NEW p \in Procs, NEW d \in Data, Bwrite(p, d)
      PROVE  QueueInv'
  BY <1>12 DEF Bwrite, Goto, At, bufs, ide, proc
<1>13. ASSUME NEW p \in Procs, Brelse(p)
      PROVE  QueueInv'
  BY <1>13 DEF Brelse, Goto, At, bufs, ide, proc
<1>14. ASSUME NEW p \in Procs, BrelsePut(p)
      PROVE  QueueInv'
  BY <1>14 DEF BrelsePut, Goto, At, bufs, ide, proc
<1> HIDE DEF QueueInv, LockInv, Locked, Done, Queued
<1> QED
  BY <1>1, <1>2, <1>3, <1>4, <1>5, <1>6, <1>7, <1>8, <1>9, <1>10, <1>11, <1>12, <1>13,
     <1>14, Zenon
  DEF Next, Call, Step, Device

\* brelse's list still has every buffer.
LEMMA FrontType ==
  ASSUME NBUF \in Nat \ {0}, lru \in [Bufs -> Bufs], Range(lru) = Bufs, NEW b \in Bufs
  PROVE  /\ MoveToFront(b) \in [Bufs -> Bufs]
         /\ Range(MoveToFront(b)) = Bufs
<1> DEFINE i == CHOOSE x \in Bufs : lru[x] = b
           f == MoveToFront(b)
<1>1. i \in Bufs /\ lru[i] = b
  <2>1. \E x \in Bufs : lru[x] = b
    BY DEF Range
  <2> QED
    BY <2>1, Zenon
<1>2. f = [j \in Bufs |-> IF j = 1 THEN b ELSE IF j <= i THEN lru[j - 1] ELSE lru[j]]
  BY Zenon DEF MoveToFront
<1> HIDE DEF i, f
<1>3. \A j \in Bufs : f[j] = IF j = 1 THEN b ELSE IF j <= i THEN lru[j - 1] ELSE lru[j]
  BY <1>2, Zenon
<1>4. f \in [Bufs -> Bufs]
  <2>1. \A j \in Bufs : j # 1 => j - 1 \in Bufs
    BY DEF Bufs
  <2>2. \A j \in Bufs : (IF j = 1 THEN b ELSE IF j <= i THEN lru[j - 1] ELSE lru[j]) \in Bufs
    BY <2>1
  <2> QED
    BY <1>2, <2>2
<1>5. ASSUME NEW c \in Bufs
      PROVE  \E j \in Bufs : f[j] = c
  <2>1. PICK x \in Bufs : lru[x] = c
    BY DEF Range
  <2>2. CASE c = b
    BY <1>2, <2>2 DEF Bufs
  <2>3. CASE c # b /\ x < i
    <3>1. x + 1 \in Bufs
      BY <1>1, <2>3 DEF Bufs
    <3>2. ASSUME NEW y \in Bufs, y = x + 1
          PROVE  f[y] = c
      <4>1. y # 1 /\ y <= i /\ y - 1 = x
        BY <1>1, <2>3, <3>2 DEF Bufs
      <4>2. f[y] = lru[y - 1]
        BY <1>3, <4>1, Zenon
      <4> QED
        BY <2>1, <4>1, <4>2
    <3> QED
      BY <3>1, <3>2, Zenon
  <2>4. CASE c # b /\ ~(x < i)
    <3>1. x # i
      BY <1>1, <2>1, <2>4
    <3>2. x # 1 /\ ~(x <= i)
      BY <1>1, <2>4, <3>1 DEF Bufs
    <3> QED
      BY <1>2, <2>1, <3>2
  <2> QED
    BY <2>2, <2>3, <2>4
<1>6. Range(f) = Bufs
  BY <1>4, <1>5 DEF Range
<1> QED
  BY <1>4, <1>6 DEF f

\* Every variable keeps its type; refcnt's is a matter of counting.
LEMMA TypeStep ==
  ASSUME TypeOK, LockInv, BlockInv, FlagInv, QueueInv, refcnt' \in [Bufs -> 0 .. Cardinality(Procs)], [Next]_vars
  PROVE  TypeOK'
<1>1. CASE UNCHANGED vars
  BY <1>1, Zenon DEF vars, TypeOK
<1> USE SizeAssumption DEF TypeOK, Locations
<1>2. ASSUME NEW p \in Procs, NEW k \in Blocks, BgetHit(p, k)
      PROVE  TypeOK'
  BY <1>2 DEF BgetHit, Goto, At, bufs, ide, proc
<1>3. ASSUME NEW p \in Procs, NEW k \in Blocks, BgetRecycle(p, k)
      PROVE  TypeOK'
  <2>1. CASE Unused = {}
    BY <1>3, <2>1 DEF BgetRecycle, bufs, ide, proc
  <2>2. CASE Unused # {}
    <3>1. PICK b \in Bufs :
            /\ blockno' = [blockno EXCEPT ![b] = k]
            /\ valid' = [valid EXCEPT ![b] = FALSE]
            /\ dirty' = [dirty EXCEPT ![b] = FALSE]
            /\ buf' = [buf EXCEPT ![p] = b]
      BY <1>3, <2>2, Zenon DEF BgetRecycle
    <3>2. /\ want' = [want EXCEPT ![p] = k]
          /\ pc' = [pc EXCEPT ![p] = "lock"]
          /\ UNCHANGED <<data, owner, panicked, lru, ide, latest>>
      BY <1>3, <2>2, Zenon DEF BgetRecycle
    <3> QED
      BY <3>1, <3>2 DEF ide
  <2> QED
    BY <2>1, <2>2, Zenon
<1>4. ASSUME NEW p \in Procs, Lock(p)
      PROVE  TypeOK'
  BY <1>4 DEF Lock, Goto, At, bufs, ide, proc
<1>5. ASSUME NEW p \in Procs, Iderw(p)
      PROVE  TypeOK'
  BY <1>5 DEF Iderw, Goto, At, bufs, ide, proc
<1>6. ASSUME DriveDone
      PROVE  TypeOK'
  <2>1. drive \in Bufs /\ (dirty[drive] => data[drive] \in Data /\ blockno[drive] \in Blocks)
    BY <1>6 DEF DriveDone, FlagInv
  <2>2. failed' \in BOOLEAN /\ disk' \in [Blocks -> Data]
    BY <1>6, <2>1, Zenon DEF DriveDone
  <2> QED
    BY <1>6, <2>2, SMTT(30) DEF DriveDone, bufs, proc
<1>7. ASSUME Ideintr
      PROVE  TypeOK'
  <2>1. idequeue # << >> /\ idequeue' = Tail(idequeue)
    BY <1>7, Zenon DEF Ideintr
  <2>2. PICK b \in Bufs : b = Head(idequeue)
    BY <2>1
  <2>3. b \in Range(idequeue)
    BY <2>1, <2>2, RangeTail, Zenon DEF QueueInv
  <2>4. blockno[b] \in Blocks
    BY <2>2, <2>3, QueuedBlock, Zenon
  <2>5. data' \in [Bufs -> Data \cup {NoData}]
    BY <1>7, <2>2, <2>4 DEF Ideintr
  <2> QED
    <3>1. /\ valid' = [valid EXCEPT ![b] = TRUE]
          /\ dirty' = [dirty EXCEPT ![b] = FALSE]
          /\ pc' = [q \in Procs |-> IF pc[q] = "wait" /\ buf[q] = b THEN "woken" ELSE pc[q]]
          /\ UNCHANGED <<blockno, owner, lru, failed, disk, buf, want, latest, panicked>>
      BY <1>7, <2>2 DEF Ideintr
    <3>2. idequeue' \in Seq(Bufs) /\ drive' \in Bufs \cup {None} /\ done' = FALSE
      BY <1>7, <2>1 DEF Ideintr
    <3> QED
      BY <2>5, <3>1, <3>2, Zenon
<1>8. ASSUME NEW p \in Procs, WakeEarly(p)
      PROVE  TypeOK'
  BY <1>8 DEF WakeEarly, Goto, At, bufs, ide, proc
<1>9. ASSUME NEW p \in Procs, IderwTest(p)
      PROVE  TypeOK'
  BY <1>9, SMTT(30) DEF IderwTest, Goto, At, bufs, ide, proc
<1>10. ASSUME NEW p \in Procs, NEW d \in Data, LogWrite(p, d)
      PROVE  TypeOK'
  BY <1>10 DEF LogWrite, At, bufs, ide, proc
<1>11. ASSUME NEW p \in Procs, NEW d \in Data, Bwrite(p, d)
      PROVE  TypeOK'
  BY <1>11 DEF Bwrite, Goto, At, bufs, ide, proc
<1>12. ASSUME NEW p \in Procs, Brelse(p)
      PROVE  TypeOK'
  BY <1>12 DEF Brelse, Goto, At, bufs, ide, proc
<1>13. ASSUME NEW p \in Procs, BrelsePut(p)
      PROVE  TypeOK'
  <2>1. lru' \in [Bufs -> Bufs] /\ Range(lru') = Bufs
    BY <1>13, FrontType DEF BrelsePut
  <2> QED
    BY <1>13, <2>1 DEF BrelsePut, Goto, At, ide
<1> HIDE DEF TypeOK, Locations
<1> QED
  BY <1>1, <1>2, <1>3, <1>4, <1>5, <1>6, <1>7, <1>8, <1>9, <1>10, <1>11, <1>12, <1>13, Zenon
  DEF Next, Call, Step, Device

\* bget and brelse change refcnt together with the users of the buffer.
LEMMA UsersStep ==
  ASSUME TypeOK, UsersCounted, [Next]_vars
  PROVE  UsersChange
<1>1. CASE UNCHANGED vars
  BY <1>1, Zenon DEF vars, UsersChange, Users
<1>2. /\ pc \in [Procs -> Locations]
      /\ buf \in [Procs -> Bufs]
      /\ refcnt \in [Bufs -> Nat]
  BY SizeAssumption, NoneAssumption DEF TypeOK
<1> USE <1>2
<1>3. ASSUME NEW p \in Procs, NEW k \in Blocks, BgetHit(p, k)
      PROVE  UsersChange
  <2>1. PICK b \in Bufs : refcnt' = [refcnt EXCEPT ![b] = @ + 1] /\ buf' = [buf EXCEPT ![p] = b]
    BY <1>3, Zenon DEF BgetHit, Cached
  <2>2. pc[p] = "idle" /\ pc' = [pc EXCEPT ![p] = "lock"]
    BY <1>3 DEF BgetHit, Goto, At
  <2>3. p \notin Users(b) /\ Users(b)' = Users(b) \cup {p}
    BY <2>1, <2>2 DEF Users
  <2>4. \A c \in Bufs : c # b => Users(c)' = Users(c)
    BY <2>1, <2>2 DEF Users
  <2> QED
    BY <2>1, <2>3, <2>4, Zenon DEF UsersChange
<1>4. ASSUME NEW p \in Procs, NEW k \in Blocks, BgetRecycle(p, k)
      PROVE  UsersChange
  <2>1. CASE Unused = {}
    BY <1>4, <2>1 DEF BgetRecycle, bufs, proc, UsersChange, Users
  <2>2. CASE Unused # {}
    <3>1. PICK b \in Bufs :
            /\ b \in Unused
            /\ refcnt' = [refcnt EXCEPT ![b] = 1]
            /\ buf' = [buf EXCEPT ![p] = b]
      BY <1>4, <2>2, Zenon DEF BgetRecycle, LeastRecent
    <3>2. pc[p] = "idle" /\ pc' = [pc EXCEPT ![p] = "lock"]
      BY <1>4, <2>2, Zenon DEF BgetRecycle, At
    <3>3. refcnt' = [refcnt EXCEPT ![b] = @ + 1]
      BY <3>1 DEF Unused
    <3>4. p \notin Users(b) /\ Users(b)' = Users(b) \cup {p}
      BY <3>1, <3>2 DEF Users
    <3>5. \A c \in Bufs : c # b => Users(c)' = Users(c)
      BY <3>1, <3>2 DEF Users
    <3> QED
      BY <3>3, <3>4, <3>5, Zenon DEF UsersChange
  <2> QED
    BY <2>1, <2>2, Zenon
<1>5. ASSUME NEW p \in Procs, Lock(p)
      PROVE  UsersChange
  BY <1>5, SMTT(20) DEF Lock, Goto, At, bufs, ide, proc, UsersChange, Users
<1>6. ASSUME NEW p \in Procs, Iderw(p)
      PROVE  UsersChange
  BY <1>6, SMTT(20) DEF Iderw, Goto, At, bufs, ide, proc, UsersChange, Users
<1>7. ASSUME DriveDone
      PROVE  UsersChange
  BY <1>7, SMTT(20) DEF DriveDone, bufs, ide, proc, UsersChange, Users
<1>8. ASSUME Ideintr
      PROVE  UsersChange
  BY <1>8, SMTT(20) DEF Ideintr, bufs, ide, proc, UsersChange, Users
<1>9. ASSUME NEW p \in Procs, WakeEarly(p)
      PROVE  UsersChange
  BY <1>9, SMTT(20) DEF WakeEarly, Goto, At, bufs, ide, proc, UsersChange, Users
<1>10. ASSUME NEW p \in Procs, IderwTest(p)
      PROVE  UsersChange
  BY <1>10, SMTT(20) DEF IderwTest, Goto, At, bufs, ide, proc, UsersChange, Users
<1>11. ASSUME NEW p \in Procs, NEW d \in Data, LogWrite(p, d)
      PROVE  UsersChange
  BY <1>11, SMTT(20) DEF LogWrite, At, bufs, ide, proc, UsersChange, Users
<1>12. ASSUME NEW p \in Procs, NEW d \in Data, Bwrite(p, d)
      PROVE  UsersChange
  BY <1>12, SMTT(20) DEF Bwrite, Goto, At, bufs, ide, proc, UsersChange, Users
<1>13. ASSUME NEW p \in Procs, Brelse(p)
      PROVE  UsersChange
  BY <1>13, SMTT(20) DEF Brelse, Goto, At, bufs, ide, proc, UsersChange, Users
<1>14. ASSUME NEW p \in Procs, BrelsePut(p)
      PROVE  UsersChange
  <2>1. PICK b \in Bufs : b = buf[p]
    OBVIOUS
  <2>2. pc[p] = "put" /\ pc' = [pc EXCEPT ![p] = "idle"] /\ buf' = buf
    BY <1>14 DEF BrelsePut, Goto, At
  <2>3. p \in Users(b) /\ Users(b)' = Users(b) \ {p}
    BY <2>1, <2>2 DEF Users
  <2>4. \A c \in Bufs : c # b => Users(c)' = Users(c)
    BY <2>1, <2>2 DEF Users
  <2>5. refcnt' = [refcnt EXCEPT ![b] = @ - 1]
    BY <1>14, <2>1, Zenon DEF BrelsePut
  <2> QED
    BY <2>3, <2>4, <2>5, Zenon DEF UsersChange
<1> QED
  BY <1>1, <1>2, <1>3, <1>4, <1>5, <1>6, <1>7, <1>8, <1>9, <1>10, <1>11, <1>12, <1>13,
     <1>14, Zenon
  DEF Next, Call, Step, Device

\* Only log_write leaves a buffer dirty, within its bound.
LEMMA PinStep ==
  ASSUME TypeOK, LockInv, FlagInv, [Next]_vars
  PROVE  PinnedChange
<1>1. CASE UNCHANGED vars
  BY <1>1, Zenon DEF vars, PinnedChange, Pinned, Writing
<1>2. /\ pc \in [Procs -> Locations]
      /\ buf \in [Procs -> Bufs]
      /\ valid \in [Bufs -> BOOLEAN]
      /\ dirty \in [Bufs -> BOOLEAN]
      /\ idequeue \in Seq(Bufs)
  BY SizeAssumption, NoneAssumption DEF TypeOK
<1> USE <1>2
<1>3. ASSUME NEW p \in Procs, NEW k \in Blocks, BgetHit(p, k)
      PROVE  PinnedChange
  BY <1>3 DEF BgetHit, Goto, At, bufs, ide, proc, PinnedChange, Pinned, Writing
<1>4. ASSUME NEW p \in Procs, NEW k \in Blocks, BgetRecycle(p, k)
      PROVE  PinnedChange
  <2>1. CASE Unused = {}
    BY <1>4, <2>1 DEF BgetRecycle, bufs, proc, PinnedChange, Pinned, Writing
  <2>2. CASE Unused # {}
    <3>1. PICK b \in Bufs :
            /\ dirty' = [dirty EXCEPT ![b] = FALSE]
            /\ buf' = [buf EXCEPT ![p] = b]
      BY <1>4, <2>2, Zenon DEF BgetRecycle
    <3>2. pc[p] = "idle" /\ pc' = [pc EXCEPT ![p] = "lock"]
      BY <1>4, <2>2, Zenon DEF BgetRecycle, At
    <3> QED
      BY <3>1, <3>2 DEF PinnedChange, Pinned, Writing
  <2> QED
    BY <2>1, <2>2, Zenon
<1>5. ASSUME NEW p \in Procs, Lock(p)
      PROVE  PinnedChange
  BY <1>5 DEF Lock, Goto, At, bufs, ide, proc, PinnedChange, Pinned, Writing
<1>6. ASSUME NEW p \in Procs, Iderw(p)
      PROVE  PinnedChange
  BY <1>6 DEF Iderw, Goto, At, bufs, ide, proc, PinnedChange, Pinned, Writing
<1>7. ASSUME DriveDone
      PROVE  PinnedChange
  BY <1>7 DEF DriveDone, bufs, ide, proc, PinnedChange, Pinned, Writing
<1>8. ASSUME Ideintr
      PROVE  PinnedChange
  BY <1>8 DEF Ideintr, bufs, ide, proc, PinnedChange, Pinned, Writing
<1>9. ASSUME NEW p \in Procs, WakeEarly(p)
      PROVE  PinnedChange
  BY <1>9 DEF WakeEarly, Goto, At, bufs, ide, proc, PinnedChange, Pinned, Writing
<1>10. ASSUME NEW p \in Procs, IderwTest(p)
      PROVE  PinnedChange
  BY <1>10 DEF IderwTest, Goto, At, bufs, ide, proc, PinnedChange, Pinned, Writing
<1>11. ASSUME NEW p \in Procs, NEW d \in Data, LogWrite(p, d)
      PROVE  PinnedChange
  BY <1>11, Zenon DEF LogWrite, At, bufs, ide, proc, PinnedChange, Pinned, Writing
<1>12. ASSUME NEW p \in Procs, NEW d \in Data, Bwrite(p, d)
      PROVE  PinnedChange
  BY <1>12 DEF Bwrite, Goto, At, bufs, ide, proc, PinnedChange, Pinned, Writing
<1>13. ASSUME NEW p \in Procs, Brelse(p)
      PROVE  PinnedChange
  BY <1>13 DEF Brelse, Goto, At, bufs, ide, proc, PinnedChange, Pinned, Writing
<1>14. ASSUME NEW p \in Procs, BrelsePut(p)
      PROVE  PinnedChange
  BY <1>14, SMTT(30) DEF BrelsePut, Goto, At, bufs, ide, proc, PinnedChange, Pinned, Writing
<1> QED
  BY <1>1, <1>2, <1>3, <1>4, <1>5, <1>6, <1>7, <1>8, <1>9, <1>10, <1>11, <1>12, <1>13,
     <1>14, Zenon
  DEF Next, Call, Step, Device

\* iderw and brelse have a locked buffer with something to do; bget panics without one.
LEMMA PanicStep ==
  ASSUME TypeOK, LockInv, FlagInv, [Next]_vars
  PROVE  PanicChange
<1>1. CASE UNCHANGED vars
  BY <1>1 DEF vars, PanicChange
<1>2. /\ pc \in [Procs -> Locations]
      /\ buf \in [Procs -> Bufs]
      /\ valid \in [Bufs -> BOOLEAN]
      /\ dirty \in [Bufs -> BOOLEAN]
      /\ idequeue \in Seq(Bufs)
  BY SizeAssumption, NoneAssumption DEF TypeOK
<1> USE <1>2 DEF PanicChange
<1>3. ASSUME NEW p \in Procs, NEW k \in Blocks, BgetHit(p, k)
      PROVE  PanicChange
  BY <1>3 DEF BgetHit, Goto, At, bufs, ide, proc
<1>4. ASSUME NEW p \in Procs, NEW k \in Blocks, BgetRecycle(p, k)
      PROVE  PanicChange
  BY <1>4, Zenon DEF BgetRecycle, At, bufs, ide, proc
<1>5. ASSUME NEW p \in Procs, Lock(p)
      PROVE  PanicChange
  BY <1>5 DEF Lock, Goto, At, bufs, ide, proc
<1>6. ASSUME NEW p \in Procs, Iderw(p)
      PROVE  PanicChange
  <2>1. pc[p] = "rw" /\ panicked' = (owner[buf[p]] # p \/ (valid[buf[p]] /\ ~dirty[buf[p]]))
    BY <1>6, Zenon DEF Iderw, Goto, At
  <2>2. ~(owner[buf[p]] # p) /\ ~(valid[buf[p]] /\ ~dirty[buf[p]])
    BY <2>1, Zenon DEF LockInv, FlagInv, Done, Locked
  <2> QED
    BY <2>1, <2>2, Zenon
<1>7. ASSUME DriveDone
      PROVE  PanicChange
  BY <1>7 DEF DriveDone, bufs, ide, proc
<1>8. ASSUME Ideintr
      PROVE  PanicChange
  BY <1>8 DEF Ideintr, bufs, ide, proc
<1>9. ASSUME NEW p \in Procs, WakeEarly(p)
      PROVE  PanicChange
  BY <1>9 DEF WakeEarly, Goto, At, bufs, ide, proc
<1>10. ASSUME NEW p \in Procs, IderwTest(p)
      PROVE  PanicChange
  BY <1>10 DEF IderwTest, Goto, At, bufs, ide, proc
<1>11. ASSUME NEW p \in Procs, NEW d \in Data, LogWrite(p, d)
      PROVE  PanicChange
  BY <1>11, SMTT(30) DEF LogWrite, At, bufs, ide, proc
<1>12. ASSUME NEW p \in Procs, NEW d \in Data, Bwrite(p, d)
      PROVE  PanicChange
  BY <1>12 DEF Bwrite, Goto, At, bufs, ide, proc
<1>13. ASSUME NEW p \in Procs, Brelse(p)
      PROVE  PanicChange
  <2>1. pc[p] = "held" /\ panicked' = (owner[buf[p]] # p)
    BY <1>13, Zenon DEF Brelse, Goto, At
  <2>2. ~(owner[buf[p]] # p)
    BY <2>1, Zenon DEF LockInv, Locked
  <2> QED
    BY <2>1, <2>2, Zenon
<1>14. ASSUME NEW p \in Procs, BrelsePut(p)
      PROVE  PanicChange
  BY <1>14 DEF BrelsePut, Goto, At, bufs, ide, proc
<1> HIDE DEF PanicChange
<1> QED
  BY <1>1, <1>2, <1>3, <1>4, <1>5, <1>6, <1>7, <1>8, <1>9, <1>10, <1>11, <1>12, <1>13,
     <1>14, Zenon
  DEF Next, Call, Step, Device

\* A stored block reaches the disk before its buffer is clean, and is read back from there.
LEMMA DataStep ==
  ASSUME TypeOK, LockInv, BlockInv, UsersCounted, FlagInv, QueueInv, DataInv, DiskErrors = FALSE, [Next]_vars
  PROVE  DataInv'
<1>1. CASE UNCHANGED vars
  BY <1>1, Zenon DEF vars, DataInv
<1>2. /\ pc \in [Procs -> Locations]
      /\ buf \in [Procs -> Bufs]
      /\ want \in [Procs -> Blocks]
      /\ owner \in [Bufs -> Procs \cup {None}]
      /\ None \notin Procs
      /\ blockno \in [Bufs -> Blocks \cup {NoBlock}]
      /\ NoBlock \notin Blocks
      /\ valid \in [Bufs -> BOOLEAN]
      /\ dirty \in [Bufs -> BOOLEAN]
      /\ data \in [Bufs -> Data \cup {NoData}]
      /\ disk \in [Blocks -> Data]
      /\ latest \in [Blocks -> Data]
      /\ idequeue \in Seq(Bufs)
  BY SizeAssumption, NoneAssumption DEF TypeOK
<1> USE <1>2
<1>3. ASSUME NEW p \in Procs, NEW k \in Blocks, BgetHit(p, k)
      PROVE  DataInv'
  BY <1>3, Zenon DEF BgetHit, Goto, At, bufs, ide, proc, DataInv
<1>4. ASSUME NEW p \in Procs, NEW k \in Blocks, BgetRecycle(p, k)
      PROVE  DataInv'
  <2>1. CASE Unused = {}
    <3>1. UNCHANGED <<blockno, valid, dirty, data, latest, disk, failed, done, idequeue>>
      BY <1>4, <2>1, Zenon DEF BgetRecycle, bufs, ide
    <3> QED
      BY <3>1, Zenon DEF DataInv
  <2>2. CASE Unused # {}
    <3>1. PICK b \in Bufs :
            /\ b \in Unused
            /\ blockno' = [blockno EXCEPT ![b] = k]
            /\ valid' = [valid EXCEPT ![b] = FALSE]
            /\ dirty' = [dirty EXCEPT ![b] = FALSE]
      BY <1>4, <2>2, Zenon DEF BgetRecycle, LeastRecent
    <3>2. UNCHANGED <<data, latest, disk, failed, done, idequeue>>
      BY <1>4, <2>2, Zenon DEF BgetRecycle, ide
    <3>3. ~dirty[b] /\ \A q \in Procs : buf[q] = b => pc[q] = "idle"
      BY <3>1, Zenon DEF Unused, UsersCounted
    <3>4. \A c \in Bufs : valid'[c] => data[c] = latest[blockno'[c]]
      BY <3>1 DEF DataInv
    <3>5. \A j \in Blocks : disk[j] = latest[j] \/ \E c \in Bufs : blockno'[c] = j /\ dirty'[c]
      BY <3>1, <3>3, SMTT(20) DEF DataInv
    <3>6. done => blockno'[idequeue[1]] = blockno[idequeue[1]]
      <4> SUFFICES ASSUME done PROVE blockno'[idequeue[1]] = blockno[idequeue[1]]
        OBVIOUS
      <4>1. PICK c \in Bufs : c = idequeue[1] /\ c \in Range(idequeue)
        BY RangeTail, Zenon DEF QueueInv
      <4>2. c # b
        BY <3>3, <4>1 DEF QueueInv, LockInv
      <4> QED
        BY <3>1, <4>1, <4>2, SMTT(30)
    <3> QED
      BY <3>2, <3>4, <3>5, <3>6, Zenon DEF DataInv
  <2> QED
    BY <2>1, <2>2, Zenon
<1>5. ASSUME NEW p \in Procs, Lock(p)
      PROVE  DataInv'
  BY <1>5, Zenon DEF Lock, Goto, At, bufs, ide, proc, DataInv
<1>6. ASSUME NEW p \in Procs, Iderw(p)
      PROVE  DataInv'
  <2>1. UNCHANGED bufs /\ UNCHANGED <<done, failed, disk, latest>>
    BY <1>6, Zenon DEF Iderw
  <2>2. done => idequeue'[1] = idequeue[1]
    BY <1>6 DEF Iderw, QueueInv
  <2> QED
    BY <2>1, <2>2, Zenon DEF DataInv, bufs
<1>7. ASSUME DriveDone
      PROVE  DataInv'
  <2>1. idequeue # << >> /\ drive = idequeue[1] /\ UNCHANGED bufs /\ UNCHANGED <<idequeue, latest>>
    BY <1>7, Zenon DEF DriveDone, QueueInv
  <2>2. PICK b \in Bufs : b = idequeue[1] /\ b \in Range(idequeue)
    BY <2>1, RangeTail, Zenon DEF QueueInv
  <2>3. ~failed'
    BY <1>7 DEF DriveDone
  <2>4. disk' = IF dirty[b] THEN [disk EXCEPT ![blockno[b]] = data[b]] ELSE disk
    BY <1>7, <2>1, <2>2, <2>3, Zenon DEF DriveDone
  <2>5. blockno[b] \in Blocks
    BY <2>2, QueuedBlock, Zenon
  <2>6. \A c \in Bufs : blockno[c] = blockno[b] => c = b
    BY <2>5, Zenon DEF BlockInv
  <2>7. CASE dirty[b]
    <3>1. data[b] = latest[blockno[b]]
      BY <2>7, Zenon DEF DataInv, FlagInv
    <3>2. \A j \in Blocks : disk'[j] = IF j = blockno[b] THEN latest[j] ELSE disk[j]
      BY <2>4, <2>5, <2>7, <3>1
    <3> QED
      BY <2>1, <2>2, <2>3, <2>5, <3>2, Zenon DEF DataInv, bufs
  <2>8. CASE ~dirty[b]
    <3>1. disk' = disk /\ disk[blockno[b]] = latest[blockno[b]]
      BY <2>4, <2>5, <2>6, <2>8, ZenonT(30) DEF DataInv
    <3> QED
      BY <2>1, <2>2, <2>3, <3>1, Zenon DEF DataInv, bufs
  <2> QED
    BY <2>7, <2>8
<1>8. ASSUME Ideintr
      PROVE  DataInv'
  <2>1. /\ idequeue # << >> /\ done /\ ~done' /\ ~failed
        /\ UNCHANGED <<blockno, failed, disk, latest>>
    BY <1>8, Zenon DEF Ideintr, DataInv
  <2>2. PICK b \in Bufs : b = Head(idequeue) /\ b = idequeue[1] /\ b \in Range(idequeue)
    BY <2>1, RangeTail, Zenon DEF QueueInv
  <2>3. /\ data' = IF ~dirty[b] THEN [data EXCEPT ![b] = disk[blockno[b]]] ELSE data
        /\ valid' = [valid EXCEPT ![b] = TRUE]
        /\ dirty' = [dirty EXCEPT ![b] = FALSE]
    BY <1>8, <2>1, <2>2 DEF Ideintr
  <2>4. disk[blockno[b]] = latest[blockno[b]] /\ blockno[b] \in Blocks
    BY <2>1, <2>2, QueuedBlock, Zenon DEF DataInv
  <2>5. data'[b] = latest[blockno[b]] /\ \A c \in Bufs : c # b => data'[c] = data[c]
    <3>1. CASE dirty[b]
      BY <2>3, <3>1, Zenon DEF DataInv, FlagInv
    <3>2. CASE ~dirty[b]
      BY <2>3, <2>4, <3>2
    <3> QED
      BY <3>1, <3>2
  <2>6. \A c \in Bufs : valid'[c] => data'[c] = latest[blockno[c]]
    BY <2>3, <2>5 DEF DataInv
  <2>7. \A k \in Blocks : disk[k] = latest[k] \/ \E c \in Bufs : blockno[c] = k /\ dirty'[c]
    BY <2>3, <2>4 DEF DataInv
  <2> QED
    BY <2>1, <2>6, <2>7, Zenon DEF DataInv
<1>9. ASSUME NEW p \in Procs, WakeEarly(p)
      PROVE  DataInv'
  BY <1>9, Zenon DEF WakeEarly, Goto, At, bufs, ide, proc, DataInv
<1>10. ASSUME NEW p \in Procs, IderwTest(p)
      PROVE  DataInv'
  BY <1>10, Zenon DEF IderwTest, Goto, At, bufs, ide, proc, DataInv
<1>11. ASSUME NEW p \in Procs, NEW d \in Data, LogWrite(p, d)
      PROVE  DataInv'
  <2>1. /\ pc[p] = "held"
        /\ data' = [data EXCEPT ![buf[p]] = d]
        /\ dirty' = [dirty EXCEPT ![buf[p]] = TRUE]
        /\ latest' = [latest EXCEPT ![want[p]] = d]
        /\ UNCHANGED <<blockno, valid, disk, failed, done, idequeue>>
    BY <1>11, Zenon DEF LogWrite, At, ide
  <2>2. blockno[buf[p]] = want[p] /\ owner[buf[p]] = p
    BY <2>1, Zenon DEF BlockInv, LockInv, Locked
  <2>3. \A b \in Bufs : blockno[b] = want[p] => b = buf[p]
    BY <2>2 DEF BlockInv
  <2>4. done => blockno[idequeue[1]] # want[p]
    <3>1. ASSUME done PROVE idequeue[1] \in Bufs /\ idequeue[1] \in Range(idequeue)
      BY <3>1, RangeTail, Zenon DEF QueueInv
    <3>2. buf[p] \notin Range(idequeue)
      BY <2>1, <2>2 DEF QueueInv
    <3> QED
      BY <2>3, <3>1, <3>2, Zenon
  <2>5. \A k \in Blocks : latest'[k] = IF k = want[p] THEN d ELSE latest[k]
    BY <2>1, Zenon
  <2>6. \A b \in Bufs : valid[b] => data'[b] = latest'[blockno[b]]
    BY <2>1, <2>2, <2>3, <2>5, SMTT(30) DEF DataInv, FlagInv
  <2>7. \A k \in Blocks : disk[k] = latest'[k] \/ \E b \in Bufs : blockno[b] = k /\ dirty'[b]
    <3> SUFFICES ASSUME NEW k \in Blocks
                 PROVE  disk[k] = latest'[k] \/ \E b \in Bufs : blockno[b] = k /\ dirty'[b]
      OBVIOUS
    <3>1. CASE k = want[p]
      BY <2>1, <2>2, <3>1
    <3>2. CASE k # want[p]
      <4>1. latest'[k] = latest[k]
        BY <2>5, <3>2
      <4>2. \A b \in Bufs : dirty[b] => dirty'[b]
        BY <2>1, ZenonT(30)
      <4> QED
        BY <4>1, <4>2, Zenon DEF DataInv
    <3> QED
      BY <3>1, <3>2, ZenonT(30)
  <2>8. done => disk[blockno[idequeue[1]]] = latest'[blockno[idequeue[1]]]
    <3> SUFFICES ASSUME done
                 PROVE  disk[blockno[idequeue[1]]] = latest'[blockno[idequeue[1]]]
      OBVIOUS
    <3>1. PICK b \in Bufs : b = idequeue[1] /\ b \in Range(idequeue)
      BY RangeTail, Zenon DEF QueueInv
    <3>2. blockno[b] \in Blocks /\ disk[blockno[b]] = latest[blockno[b]]
      BY <3>1, QueuedBlock, Zenon DEF DataInv
    <3> QED
      BY <2>4, <2>5, <3>1, <3>2, SMTT(30)
  <2> QED
    <3>1. ~failed'
      BY <2>1, Zenon DEF DataInv
    <3>2. (\A b \in Bufs : valid[b] => data[b] = latest[blockno[b]])'
      BY <2>1, <2>6, Zenon
    <3>3. (\A k \in Blocks : disk[k] = latest[k] \/ \E b \in Bufs : blockno[b] = k /\ dirty[b])'
      BY <2>1, <2>7, Zenon
    <3>4. (done => disk[blockno[idequeue[1]]] = latest[blockno[idequeue[1]]])'
      BY <2>1, <2>8, Zenon
    <3> QED
      BY <3>1, <3>2, <3>3, <3>4, Zenon DEF DataInv
<1>12. ASSUME NEW p \in Procs, NEW d \in Data, Bwrite(p, d)
      PROVE  DataInv'
  <2>1. /\ pc[p] = "held"
        /\ data' = [data EXCEPT ![buf[p]] = d]
        /\ dirty' = [dirty EXCEPT ![buf[p]] = TRUE]
        /\ latest' = [latest EXCEPT ![want[p]] = d]
        /\ UNCHANGED <<blockno, valid, disk, failed, done, idequeue>>
    BY <1>12, Zenon DEF Bwrite, Goto, At, ide
  <2>2. blockno[buf[p]] = want[p] /\ owner[buf[p]] = p
    BY <2>1, Zenon DEF BlockInv, LockInv, Locked
  <2>3. \A b \in Bufs : blockno[b] = want[p] => b = buf[p]
    BY <2>2 DEF BlockInv
  <2>4. done => blockno[idequeue[1]] # want[p]
    <3>1. ASSUME done PROVE idequeue[1] \in Bufs /\ idequeue[1] \in Range(idequeue)
      BY <3>1, RangeTail, Zenon DEF QueueInv
    <3>2. buf[p] \notin Range(idequeue)
      BY <2>1, <2>2 DEF QueueInv
    <3> QED
      BY <2>3, <3>1, <3>2, Zenon
  <2>5. \A k \in Blocks : latest'[k] = IF k = want[p] THEN d ELSE latest[k]
    BY <2>1, Zenon
  <2>6. \A b \in Bufs : valid[b] => data'[b] = latest'[blockno[b]]
    BY <2>1, <2>2, <2>3, <2>5 DEF DataInv, FlagInv
  <2>7. \A k \in Blocks : disk[k] = latest'[k] \/ \E b \in Bufs : blockno[b] = k /\ dirty'[b]
    <3> SUFFICES ASSUME NEW k \in Blocks
                 PROVE  disk[k] = latest'[k] \/ \E b \in Bufs : blockno[b] = k /\ dirty'[b]
      OBVIOUS
    <3>1. CASE k = want[p]
      BY <2>1, <2>2, <3>1
    <3>2. CASE k # want[p]
      <4>1. latest'[k] = latest[k]
        BY <2>5, <3>2
      <4>2. \A b \in Bufs : dirty[b] => dirty'[b]
        BY <2>1, Zenon
      <4> QED
        BY <4>1, <4>2, Zenon DEF DataInv
    <3> QED
      BY <3>1, <3>2
  <2>8. done => disk[blockno[idequeue[1]]] = latest'[blockno[idequeue[1]]]
    <3> SUFFICES ASSUME done
                 PROVE  disk[blockno[idequeue[1]]] = latest'[blockno[idequeue[1]]]
      OBVIOUS
    <3>1. PICK b \in Bufs : b = idequeue[1] /\ b \in Range(idequeue)
      BY RangeTail, Zenon DEF QueueInv
    <3>2. blockno[b] \in Blocks /\ disk[blockno[b]] = latest[blockno[b]]
      BY <3>1, QueuedBlock, Zenon DEF DataInv
    <3> QED
      BY <2>4, <2>5, <3>1, <3>2
  <2> QED
    <3>1. ~failed'
      BY <2>1, Zenon DEF DataInv
    <3>2. (\A b \in Bufs : valid[b] => data[b] = latest[blockno[b]])'
      BY <2>1, <2>6, Zenon
    <3>3. (\A k \in Blocks : disk[k] = latest[k] \/ \E b \in Bufs : blockno[b] = k /\ dirty[b])'
      BY <2>1, <2>7, Zenon
    <3>4. (done => disk[blockno[idequeue[1]]] = latest[blockno[idequeue[1]]])'
      BY <2>1, <2>8, Zenon
    <3> QED
      BY <3>1, <3>2, <3>3, <3>4, Zenon DEF DataInv
<1>13. ASSUME NEW p \in Procs, Brelse(p)
      PROVE  DataInv'
  BY <1>13, Zenon DEF Brelse, Goto, At, bufs, ide, proc, DataInv
<1>14. ASSUME NEW p \in Procs, BrelsePut(p)
      PROVE  DataInv'
  BY <1>14, Zenon DEF BrelsePut, Goto, At, bufs, ide, proc, DataInv
<1> QED
  BY <1>1, <1>2, <1>3, <1>4, <1>5, <1>6, <1>7, <1>8, <1>9, <1>10, <1>11, <1>12, <1>13,
     <1>14, Zenon
  DEF Next, Call, Step, Device

----------------------------------------------------------------------------
\* Counting

\* A buffer without references has no users.
LEMMA Uncounted == UserInv => UsersCounted
<1> SUFFICES ASSUME UserInv, NEW b \in Bufs, refcnt[b] = 0
             PROVE  Users(b) = {}
  BY Zenon DEF UsersCounted, Users
<1>1. IsFiniteSet(Users(b))
  BY ProcsAssumption, FS_Subset, Zenon DEF Users
<1> QED
  BY <1>1, FS_EmptySet DEF UserInv

LEMMA RefcntType == UserInv => refcnt \in [Bufs -> 0 .. Cardinality(Procs)]
<1> SUFFICES ASSUME UserInv
             PROVE  \A b \in Bufs : Cardinality(Users(b)) \in 0 .. Cardinality(Procs)
  BY DEF UserInv
<1> TAKE b \in Bufs
<1>1. Users(b) \in SUBSET Procs
  BY Zenon DEF Users
<1>2. IsFiniteSet(Users(b)) /\ Cardinality(Users(b)) <= Cardinality(Procs)
  BY <1>1, ProcsAssumption, FS_Subset, Zenon
<1>3. Cardinality(Users(b)) \in Nat /\ Cardinality(Procs) \in Nat
  BY <1>2, ProcsAssumption, FS_CardinalityType, Zenon
<1> QED
  BY <1>2, <1>3

\* refcnt follows the users.
LEMMA UserStep ==
  ASSUME UserInv, UsersChange
  PROVE  UserInv'
<1>1. \A b \in Bufs : IsFiniteSet(Users(b)) /\ Cardinality(Users(b)) \in Nat
  BY ProcsAssumption, FS_Subset, FS_CardinalityType, Zenon DEF Users
<1>2. CASE refcnt' = refcnt /\ \A b \in Bufs : Users(b)' = Users(b)
  BY <1>2 DEF UserInv
<1>3. ASSUME NEW p \in Procs, NEW b \in Bufs,
             p \notin Users(b), Users(b)' = Users(b) \cup {p},
             refcnt' = [refcnt EXCEPT ![b] = @ + 1],
             \A c \in Bufs : c # b => Users(c)' = Users(c)
      PROVE  UserInv'
  <2>1. Cardinality(Users(b)') = Cardinality(Users(b)) + 1
    BY <1>1, <1>3, FS_AddElement, ZenonT(30)
  <2> QED
    BY <1>3, <2>1 DEF UserInv
<1>4. ASSUME NEW p \in Procs, NEW b \in Bufs,
             p \in Users(b), Users(b)' = Users(b) \ {p},
             refcnt' = [refcnt EXCEPT ![b] = @ - 1],
             \A c \in Bufs : c # b => Users(c)' = Users(c)
      PROVE  UserInv'
  <2>1. Cardinality(Users(b)') = Cardinality(Users(b)) - 1
    BY <1>1, <1>4, FS_RemoveElement, ZenonT(30)
  <2> QED
    BY <1>4, <2>1 DEF UserInv
<1> QED
  BY <1>2, <1>3, <1>4, Zenon DEF UsersChange

\* Every process but the one in bget uses one buffer at most, and the log pins
\* MaxPinned: with one more buffer than that, bget finds one to recycle.
LEMMA Enough ==
  ASSUME TypeOK, UserInv, Cardinality(Pinned) <= MaxPinned,
         NEW p \in Procs, pc[p] = "idle", Unused = {}
  PROVE  ~(NBUF >= MaxPinned + Cardinality(Procs))
<1> DEFINE others == Procs \ {p}
           f == [q \in others |-> buf[q]]
           used == {buf[q] : q \in others}
<1>1. /\ IsFiniteSet(others) /\ Cardinality(others) = Cardinality(Procs) - 1
      /\ Cardinality(Procs) \in Nat
  BY ProcsAssumption, FS_RemoveElement, FS_CardinalityType, Zenon
<1>2. f \in Surjection(others, used)
  BY Zenon DEF Surjection
<1>3. IsFiniteSet(used) /\ Cardinality(used) <= Cardinality(others)
  BY <1>1, <1>2, FS_Surjection, Zenon
<1>4. IsFiniteSet(Bufs) /\ Cardinality(Bufs) = NBUF
  BY SizeAssumption, FS_Interval DEF Bufs
<1>5. IsFiniteSet(Pinned)
  BY <1>4, FS_Subset, Zenon DEF Pinned
<1>6. Bufs \subseteq Pinned \cup used
  <2> SUFFICES ASSUME NEW b \in Bufs, b \notin used
               PROVE  b \in Pinned
    OBVIOUS
  <2>1. \A q \in Procs : buf[q] = b => pc[q] = "idle"
    OBVIOUS
  <2>2. Users(b) = {}
    BY <2>1, Zenon DEF Users
  <2>3. refcnt[b] = 0
    BY <2>2, FS_EmptySet DEF UserInv
  <2>4. dirty[b]
    BY <2>3, Zenon DEF Unused
  <2>5. ~Writing(b)
    BY <2>1 DEF Writing
  <2> QED
    BY <2>4, <2>5, Zenon DEF Pinned
<1> HIDE DEF others, used
<1>7. /\ IsFiniteSet(Pinned \cup used)
      /\ Cardinality(Pinned \cup used)
           = Cardinality(Pinned) + Cardinality(used) - Cardinality(Pinned \cap used)
  BY <1>3, <1>5, FS_Union, Zenon
<1>8. NBUF <= Cardinality(Pinned \cup used)
  BY <1>4, <1>6, <1>7, FS_Subset, Zenon
<1>9. /\ Cardinality(Pinned) \in Nat /\ Cardinality(used) \in Nat
      /\ Cardinality(Pinned \cap used) \in Nat
  BY <1>3, <1>5, FS_Intersection, FS_CardinalityType, Zenon
<1> QED
  BY <1>1, <1>3, <1>7, <1>8, <1>9, SizeAssumption

LEMMA PinCount ==
  ASSUME Cardinality(Pinned) <= MaxPinned, PinnedChange
  PROVE  Cardinality(Pinned') <= MaxPinned
<1>1. IsFiniteSet(Bufs)
  BY SizeAssumption, FS_Interval DEF Bufs
<1>2. IsFiniteSet(Pinned) /\ Cardinality(Pinned) \in Nat
  BY <1>1, FS_Subset, FS_CardinalityType, Zenon DEF Pinned
<1>3. CASE Pinned' \subseteq Pinned
  <2>1. Cardinality(Pinned') <= Cardinality(Pinned) /\ Cardinality(Pinned') \in Nat
    BY <1>2, <1>3, FS_Subset, FS_CardinalityType, Zenon
  <2> QED
    BY <1>2, <2>1, SizeAssumption
<1>4. ASSUME NEW b \in Bufs, Pinned' \subseteq {c \in Bufs : dirty[c]} \cup {b},
             Cardinality({c \in Bufs : dirty[c]}) < MaxPinned
      PROVE  Cardinality(Pinned') <= MaxPinned
  <2> DEFINE D == {c \in Bufs : dirty[c]}
  <2>1. IsFiniteSet(D) /\ Cardinality(D) \in Nat
    BY <1>1, FS_Subset, FS_CardinalityType, Zenon
  <2> HIDE DEF D
  <2>2. /\ IsFiniteSet(D \cup {b})
        /\ Cardinality(D \cup {b}) = Cardinality(D) \/ Cardinality(D \cup {b}) = Cardinality(D) + 1
    BY <2>1, FS_AddElement, Zenon
  <2>3. Pinned' \subseteq D \cup {b}
    BY <1>4 DEF D
  <2>4. Cardinality(Pinned') <= Cardinality(D \cup {b}) /\ Cardinality(Pinned') \in Nat
    BY <2>2, <2>3, FS_Subset, FS_CardinalityType, Zenon
  <2>5. Cardinality(D) < MaxPinned
    BY <1>4 DEF D
  <2> QED
    BY <2>1, <2>2, <2>4, <2>5, SizeAssumption
<1> QED
  BY <1>3, <1>4, Zenon DEF PinnedChange

----------------------------------------------------------------------------

LEMMA InitInv == Init => IInv
<1> SUFFICES ASSUME Init PROVE IInv
  OBVIOUS
<1> USE DEF Init
<1>1. UserInv
  <2>1. \A b \in Bufs : Users(b) = {}
    BY DEF Users
  <2> QED
    BY <2>1, FS_EmptySet, Zenon DEF UserInv
<1>2. LockInv /\ BlockInv
  BY NoneAssumption DEF LockInv, BlockInv, Locked
<1>3. QueueInv /\ FlagInv
  <2>1. Range(idequeue) = {} /\ IsInjective(idequeue)
    BY DEF Range, IsInjective
  <2> QED
    BY <2>1 DEF QueueInv, FlagInv
<1>4. PinInv
  <2>1. Pinned = {}
    BY DEF Pinned
  <2> QED
    BY <2>1, FS_EmptySet, SizeAssumption DEF PinInv, NoPanic
<1>5. lru \in [Bufs -> Bufs] /\ Range(lru) = Bufs
  <2>1. \A i \in Bufs : NBUF + 1 - i \in Bufs /\ NBUF + 1 - (NBUF + 1 - i) = i
    BY SizeAssumption DEF Bufs
  <2>2. lru \in [Bufs -> Bufs]
    BY <2>1
  <2>3. \A b \in Bufs : lru[NBUF + 1 - b] = b
    BY <2>1
  <2> QED
    BY <2>1, <2>2, <2>3 DEF Range
<1>6. refcnt \in [Bufs -> 0 .. Cardinality(Procs)]
  BY <1>1, RefcntType, Zenon
<1>7. 1 \in Bufs
  BY SizeAssumption DEF Bufs
<1>8. TypeOK
  <2>1. /\ blockno \in [Bufs -> Blocks \cup {NoBlock}]
        /\ data \in [Bufs -> Data \cup {NoData}]
        /\ owner \in [Bufs -> Procs \cup {None}]
        /\ pc \in [Procs -> Locations]
        /\ buf \in [Procs -> Bufs]
    BY <1>7 DEF Locations
  <2>2. /\ valid \in [Bufs -> BOOLEAN] /\ dirty \in [Bufs -> BOOLEAN]
        /\ done \in BOOLEAN /\ failed \in BOOLEAN /\ panicked \in BOOLEAN
    BY Zenon
  <2>3. /\ idequeue \in Seq(Bufs) /\ drive \in Bufs \cup {None}
        /\ disk \in [Blocks -> Data] /\ latest \in [Blocks -> Data]
        /\ want \in [Procs -> Blocks]
    OBVIOUS
  <2> HIDE DEF Init
  <2> QED
    BY <1>5, <1>6, <2>1, <2>2, <2>3, Zenon DEF TypeOK
<1> QED
  BY <1>1, <1>2, <1>3, <1>4, <1>8 DEF IInv

LEMMA StepInv ==
  ASSUME IInv, [Next]_vars
  PROVE  IInv'
<1> USE DEF IInv
<1>1. UsersCounted
  BY Uncounted, Zenon
<1>2. UserInv'
  BY <1>1, UsersStep, UserStep, Zenon
<1>3. refcnt' \in [Bufs -> 0 .. Cardinality(Procs)]
  <2>1. (refcnt \in [Bufs -> 0 .. Cardinality(Procs)])'
    BY <1>2, RefcntType, PTL
  <2> QED
    BY <2>1
<1>4. LockInv' /\ BlockInv' /\ FlagInv' /\ QueueInv'
  BY <1>1, LockStep, BlockStep, FlagStep, QueueStep, Zenon
<1>5. TypeOK'
  BY <1>3, TypeStep, Zenon
<1>6. Cardinality(Pinned') <= MaxPinned
  BY PinStep, PinCount, Zenon DEF PinInv
<1>7. NoPanic'
  BY PanicStep, Enough, Zenon DEF PinInv, NoPanic, PanicChange
<1> QED
  BY <1>2, <1>4, <1>5, <1>6, <1>7, Zenon DEF PinInv

\* The invariant holds in every reachable state, whether the drive fails or not.
THEOREM Invariance == Spec => []IInv
  BY InitInv, StepInv, PTL DEF Spec

\* refcnt is the number of processes between bget and the end of brelse, a buffer's lock
\* is with one of them, no block is cached twice, and with a buffer per process beyond
\* the pinned ones neither bget, iderw nor brelse panics.
THEOREM RefcntAlwaysExact == Spec => []RefcntExact
<1>1. ASSUME IInv
      PROVE  RefcntExact
  <2> USE <1>1 DEF IInv
  <2>1. OneBufferPerBlock
    <3> SUFFICES ASSUME NEW k \in Blocks
                 PROVE  Cardinality(Cached(k)) <= 1
      BY DEF OneBufferPerBlock
    <3>1. CASE Cached(k) = {}
      BY <3>1, FS_EmptySet
    <3>2. CASE Cached(k) # {}
      <4>1. PICK b \in Bufs : blockno[b] = k
        BY <3>2, SMTT(30) DEF Cached
      <4>2. Cached(k) = {b}
        BY <4>1, NoneAssumption DEF Cached, BlockInv
      <4>3. Cardinality({b}) = 1
        BY FS_Singleton, Zenon
      <4> QED
        BY <4>2, <4>3
    <3> QED
      BY <3>1, <3>2
  <2>2. \A b \in Bufs : refcnt[b] = Cardinality(Users(b))
    BY DEF UserInv
  <2>3. \A b \in Bufs : owner[b] # None => owner[b] \in Users(b)
    <3>1. \A b \in Bufs : owner[b] # None => owner[b] \in Procs
      BY DEF TypeOK
    <3> QED
      BY <3>1 DEF LockInv, Locked, Users
  <2> QED
    BY <2>1, <2>2, <2>3, Zenon DEF RefcntExact, PinInv, Users
<1> QED
  BY <1>1, Invariance, PTL

\* The drive works on the first request; every request is of a locked buffer whose owner
\* is in iderw's loop; and whoever sleeps there has its request in the queue, so that an
\* interrupt will wake it, also if kill() has woken it before.
THEOREM QueueAlwaysSound == Spec => []QueueSound
<1>1. ASSUME IInv
      PROVE  QueueSound
  <2>1. \A b \in Range(idequeue) :
          \E p \in Procs : owner[b] = p /\ buf[p] = b /\ pc[p] \in {"wait", "woken"}
    <3> SUFFICES ASSUME NEW b \in Range(idequeue)
                 PROVE  owner[b] \in Procs /\ buf[owner[b]] = b
                        /\ pc[owner[b]] \in {"wait", "woken"}
      BY Zenon
    <3>1. b \in Bufs
      BY <1>1, QueuedBufs, Zenon DEF IInv
    <3>2. owner[b] # None /\ pc[owner[b]] \in {"wait", "woken"}
      BY <1>1, Zenon DEF IInv, QueueInv
    <3> QED
      BY <1>1, <3>1, <3>2 DEF IInv, LockInv, TypeOK
  <2> QED
    BY <1>1, <2>1, Zenon DEF IInv, QueueInv, FlagInv, Queued, QueueSound
<1> QED
  BY <1>1, Invariance, PTL

\* With a drive that does not fail, the holder of a buffer has the one buffer of its
\* block with what was last stored there, also after the buffer has been recycled and the
\* block read back, and nothing that was stored is forgotten.
THEOREM AlwaysReadsLatest ==
  ASSUME DiskErrors = FALSE
  PROVE  Spec => []ReadsLatest
<1>1. Init => DataInv
  BY NoneAssumption DEF Init, DataInv
<1>2. ASSUME IInv, DataInv, [Next]_vars
      PROVE  DataInv'
  BY <1>2, Uncounted, DataStep, Zenon DEF IInv
<1>3. ASSUME IInv, DataInv
      PROVE  ReadsLatest
  <2>1. StoredSomewhere
    <3>1. \A k \in Blocks : disk[k] = latest[k] \/ \E b \in Bufs : blockno[b] = k /\ dirty[b]
      BY <1>3, Zenon DEF DataInv
    <3>2. \A b \in Bufs : dirty[b] => data[b] = latest[blockno[b]]
      BY <1>3, Zenon DEF IInv, DataInv, FlagInv
    <3>3. ASSUME NEW k \in Blocks, disk[k] # latest[k]
          PROVE  \E b \in Cached(k) : dirty[b] /\ data[b] = latest[k]
      <4>1. PICK b \in Bufs : blockno[b] = k /\ dirty[b]
        BY <3>1, <3>3, Zenon
      <4> QED
        BY <3>2, <4>1, Zenon DEF Cached
    <3> QED
      BY <3>3, Zenon DEF StoredSomewhere
  <2>2. ASSUME NEW p \in Procs, pc[p] = "held"
        PROVE  owner[buf[p]] = p /\ blockno[buf[p]] = want[p] /\ valid[buf[p]]
    BY <1>3, <2>2, Zenon DEF IInv, LockInv, Locked, BlockInv, FlagInv
  <2>3. \A p \in Procs : buf[p] \in Bufs
    BY <1>3 DEF IInv, TypeOK
  <2> QED
    BY <1>3, <2>1, <2>2, <2>3, ZenonT(30) DEF ReadsLatest, DataInv
<1> QED
  BY <1>1, <1>2, <1>3, Invariance, PTL DEF Spec
=============================================================================
