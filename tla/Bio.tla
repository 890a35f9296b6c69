-------------------------------- MODULE Bio --------------------------------
(***************************************************************************)
(* The buffer cache (bio.c) on top of the disk driver (ide.c).             *)
(*                                                                         *)
(* bget's search and brelse's bookkeeping are critical sections of         *)
(* bcache.lock, iderw and ideintr of idelock: each is a step.  A buffer's  *)
(* sleep lock is its owner; module SleepLock models how it is acquired.    *)
(* A process uses one buffer at a time.                                    *)
(***************************************************************************)
EXTENDS Naturals, Sequences, FiniteSets, Functions

CONSTANTS
  Procs, None,    \* processes; no process
  Blocks,         \* block numbers of the disk in use
  NoBlock,        \* what binit leaves in a buffer: matches no block
  Data, NoData,   \* contents of a block; of a buffer never filled
  NBUF,
  MaxPinned,      \* bound: buffers the log keeps dirty at a time
  DiskErrors      \* whether the drive may fail a request

ASSUME SizeAssumption == NBUF \in Nat \ {0} /\ MaxPinned \in Nat /\ DiskErrors \in BOOLEAN
ASSUME ProcsAssumption == IsFiniteSet(Procs)
ASSUME NoneAssumption == None \notin Procs /\ NoBlock \notin Blocks /\ NoData \notin Data

Bufs == 1 .. NBUF

VARIABLES
  blockno, valid, dirty, refcnt, data, owner,   \* struct buf, by buffer
  lru,        \* the list through head.next: most recently used first
  idequeue,   \* requests, the active one first
  drive,      \* the command the drive works on: None, or the buffer
  done,       \* the drive has finished it and interrupts
  failed,     \* ... with an error
  disk,       \* contents of the disk
  pc, buf, want,   \* where a process is, its buffer and block
  latest,     \* auxiliary: what was last stored in each block
  panicked

bufs == <<blockno, valid, dirty, refcnt, data, owner>>
ide == <<idequeue, drive, done, failed, disk>>
proc == <<pc, buf, want>>
vars == <<blockno, valid, dirty, refcnt, data, owner, lru, idequeue, drive, done, failed,
          disk, pc, buf, want, latest, panicked>>

Locations == {"idle", "lock", "rw", "wait", "woken", "held", "put"}

TypeOK ==
  /\ blockno \in [Bufs -> Blocks \cup {NoBlock}]
  /\ valid \in [Bufs -> BOOLEAN]
  /\ dirty \in [Bufs -> BOOLEAN]
  /\ refcnt \in [Bufs -> 0 .. Cardinality(Procs)]
  /\ data \in [Bufs -> Data \cup {NoData}]
  /\ owner \in [Bufs -> Procs \cup {None}]
  /\ lru \in [Bufs -> Bufs] /\ Range(lru) = Bufs
  /\ idequeue \in Seq(Bufs)
  /\ drive \in Bufs \cup {None}
  /\ done \in BOOLEAN
  /\ failed \in BOOLEAN
  /\ disk \in [Blocks -> Data]
  /\ pc \in [Procs -> Locations]
  /\ buf \in [Procs -> Bufs]
  /\ want \in [Procs -> Blocks]
  /\ latest \in [Blocks -> Data]
  /\ panicked \in BOOLEAN

\* binit inserts every buffer at the front of the list.
Init ==
  /\ blockno = [b \in Bufs |-> NoBlock]
  /\ valid = [b \in Bufs |-> FALSE]
  /\ dirty = [b \in Bufs |-> FALSE]
  /\ refcnt = [b \in Bufs |-> 0]
  /\ data = [b \in Bufs |-> NoData]
  /\ owner = [b \in Bufs |-> None]
  /\ lru = [i \in Bufs |-> NBUF + 1 - i]
  /\ idequeue = << >>
  /\ drive = None
  /\ done = FALSE
  /\ failed = FALSE
  /\ disk \in [Blocks -> Data]
  /\ pc = [p \in Procs |-> "idle"]
  /\ buf = [p \in Procs |-> 1]
  /\ want \in [Procs -> Blocks]
  /\ latest = disk
  /\ panicked = FALSE

At(p, from) == ~panicked /\ pc[p] = from
Goto(p, from, to) == At(p, from) /\ pc' = [pc EXCEPT ![p] = to]

----------------------------------------------------------------------------
\* bget

Cached(k) == {b \in Bufs : blockno[b] = k}
Unused == {b \in Bufs : refcnt[b] = 0 /\ ~dirty[b]}
LeastRecent(b, S) ==
  /\ b \in S
  /\ \E i \in Bufs : lru[i] = b /\ \A j \in i + 1 .. NBUF : lru[j] \notin S

\* Faulty variant: the new user is not counted.
BgetHitUncounted(p, k) ==
  /\ Goto(p, "idle", "lock")
  /\ \E b \in Cached(k) : buf' = [buf EXCEPT ![p] = b]
  /\ want' = [want EXCEPT ![p] = k]
  /\ UNCHANGED <<bufs, lru, ide, latest, panicked>>

BgetHit(p, k) ==
  /\ Goto(p, "idle", "lock")
  /\ \E b \in Cached(k) :
       /\ refcnt' = [refcnt EXCEPT ![b] = @ + 1]
       /\ buf' = [buf EXCEPT ![p] = b]
  /\ want' = [want EXCEPT ![p] = k]
  /\ UNCHANGED <<blockno, valid, dirty, data, owner, lru, ide, latest, panicked>>

\* Faulty variant: b->flags = 0 is forgotten.
BgetRecycleStillValid(p, k) ==
  /\ At(p, "idle")
  /\ Cached(k) = {}
  /\ IF Unused = {}
       THEN panicked' = TRUE /\ UNCHANGED <<bufs, proc>>
       ELSE /\ \E b \in Bufs :
                 /\ LeastRecent(b, Unused)
                 /\ blockno' = [blockno EXCEPT ![b] = k]
                 /\ dirty' = [dirty EXCEPT ![b] = FALSE]
                 /\ refcnt' = [refcnt EXCEPT ![b] = 1]
                 /\ buf' = [buf EXCEPT ![p] = b]
            /\ want' = [want EXCEPT ![p] = k]
            /\ pc' = [pc EXCEPT ![p] = "lock"]
            /\ UNCHANGED <<valid, data, owner, panicked>>
  /\ UNCHANGED <<lru, ide, latest>>

\* Without a buffer to recycle, bget panics.
BgetRecycle(p, k) ==
  /\ At(p, "idle")
  /\ Cached(k) = {}
  /\ IF Unused = {}
       THEN panicked' = TRUE /\ UNCHANGED <<bufs, proc>>
       ELSE /\ \E b \in Bufs :
                 /\ LeastRecent(b, Unused)
                 /\ blockno' = [blockno EXCEPT ![b] = k]
                 /\ valid' = [valid EXCEPT ![b] = FALSE]
                 /\ dirty' = [dirty EXCEPT ![b] = FALSE]
                 /\ refcnt' = [refcnt EXCEPT ![b] = 1]
                 /\ buf' = [buf EXCEPT ![p] = b]
            /\ want' = [want EXCEPT ![p] = k]
            /\ pc' = [pc EXCEPT ![p] = "lock"]
            /\ UNCHANGED <<data, owner, panicked>>
  /\ UNCHANGED <<lru, ide, latest>>

\* acquiresleep, then bread's test of B_VALID
Lock(p) ==
  LET b == buf[p] IN
  /\ Goto(p, "lock", IF valid[b] THEN "held" ELSE "rw")
  /\ owner[b] = None
  /\ owner' = [owner EXCEPT ![b] = p]
  /\ UNCHANGED <<blockno, valid, dirty, refcnt, data, lru, ide, buf, want, latest, panicked>>

----------------------------------------------------------------------------
\* ide.c

Iderw(p) ==
  LET b == buf[p] IN
  /\ Goto(p, "rw", "wait")
  /\ panicked' = (owner[b] # p \/ (valid[b] /\ ~dirty[b]))
  /\ idequeue' = Append(idequeue, b)
  /\ drive' = IF idequeue = << >> THEN b ELSE drive   \* idestart
  /\ UNCHANGED <<bufs, lru, done, failed, disk, buf, want, latest>>

\* The drive works on its command; a write leaves the buffer's data on the disk.
DriveDone ==
  /\ ~panicked
  /\ drive # None /\ ~done
  /\ done' = TRUE
  /\ failed' \in IF DiskErrors THEN BOOLEAN ELSE {FALSE}
  /\ disk' = IF dirty[drive] /\ ~failed'
               THEN [disk EXCEPT ![blockno[drive]] = data[drive]] ELSE disk
  /\ UNCHANGED <<bufs, lru, idequeue, drive, proc, latest, panicked>>

\* Faulty variant: nobody is woken.
IdeintrQuiet ==
  LET b == Head(idequeue) IN
  /\ ~panicked
  /\ done
  /\ idequeue # << >>
  /\ data' = IF ~dirty[b] /\ ~failed THEN [data EXCEPT ![b] = disk[blockno[b]]] ELSE data
  /\ valid' = [valid EXCEPT ![b] = TRUE]
  /\ dirty' = [dirty EXCEPT ![b] = FALSE]
  /\ idequeue' = Tail(idequeue)
  /\ drive' = IF Tail(idequeue) = << >> THEN None ELSE Head(Tail(idequeue))
  /\ done' = FALSE
  /\ UNCHANGED <<pc, blockno, refcnt, owner, lru, failed, disk, buf, want, latest, panicked>>

\* The interrupt of the drive: idewait(1) is negative after an error.
Ideintr ==
  LET b == Head(idequeue) IN
  /\ ~panicked
  /\ done
  /\ idequeue # << >>
  /\ data' = IF ~dirty[b] /\ ~failed THEN [data EXCEPT ![b] = disk[blockno[b]]] ELSE data
  /\ valid' = [valid EXCEPT ![b] = TRUE]
  /\ dirty' = [dirty EXCEPT ![b] = FALSE]
  /\ pc' = [p \in Procs |-> IF pc[p] = "wait" /\ buf[p] = b THEN "woken" ELSE pc[p]]
  /\ idequeue' = Tail(idequeue)
  /\ drive' = IF Tail(idequeue) = << >> THEN None ELSE Head(Tail(idequeue))
  /\ done' = FALSE
  /\ UNCHANGED <<blockno, refcnt, owner, lru, failed, disk, buf, want, latest, panicked>>

\* kill() wakes a sleeper before its request is done.
WakeEarly(p) ==
  /\ Goto(p, "wait", "woken")
  /\ UNCHANGED <<bufs, lru, ide, buf, want, latest, panicked>>

\* The test of iderw's loop after sleep() returned
IderwTest(p) ==
  LET b == buf[p] IN
  /\ Goto(p, "woken", IF valid[b] /\ ~dirty[b] THEN "held" ELSE "wait")
  /\ UNCHANGED <<bufs, lru, ide, buf, want, latest, panicked>>

----------------------------------------------------------------------------
\* What the holder of a buffer does with it

\* New contents, marked by log_write to be kept until they are written.
LogWrite(p, d) ==
  LET b == buf[p] IN
  /\ At(p, "held")
  /\ dirty[b] \/ Cardinality({c \in Bufs : dirty[c]}) < MaxPinned
  /\ data' = [data EXCEPT ![b] = d]
  /\ dirty' = [dirty EXCEPT ![b] = TRUE]
  /\ latest' = [latest EXCEPT ![want[p]] = d]
  /\ UNCHANGED <<blockno, valid, refcnt, owner, lru, ide, proc, panicked>>

\* bwrite, of what the buffer has or of new contents
Bwrite(p, d) ==
  LET b == buf[p] IN
  /\ Goto(p, "held", "rw")
  /\ owner[b] = p
  /\ data' = [data EXCEPT ![b] = d]
  /\ dirty' = [dirty EXCEPT ![b] = TRUE]
  /\ latest' = [latest EXCEPT ![want[p]] = d]
  /\ UNCHANGED <<blockno, valid, refcnt, owner, lru, ide, buf, want, panicked>>

\* brelse: releasesleep, and later the critical section of bcache.lock
Brelse(p) ==
  LET b == buf[p] IN
  /\ Goto(p, "held", "put")
  /\ owner' = [owner EXCEPT ![b] = None]
  /\ panicked' = (owner[b] # p)
  /\ UNCHANGED <<blockno, valid, dirty, refcnt, data, lru, ide, buf, want, latest>>

\* The list with b taken out and put in after head.
MoveToFront(b) ==
  LET i == CHOOSE i \in Bufs : lru[i] = b IN
  [j \in Bufs |-> IF j = 1 THEN b ELSE IF j <= i THEN lru[j - 1] ELSE lru[j]]

BrelsePut(p) ==
  LET b == buf[p] IN
  /\ Goto(p, "put", "idle")
  /\ refcnt' = [refcnt EXCEPT ![b] = @ - 1]
  /\ lru' = IF refcnt[b] = 1 THEN MoveToFront(b) ELSE lru
  /\ UNCHANGED <<blockno, valid, dirty, data, owner, ide, buf, want, latest, panicked>>

----------------------------------------------------------------------------

Call(p) ==
  \/ \E k \in Blocks : BgetHit(p, k) \/ BgetRecycle(p, k)
  \/ \E d \in Data : LogWrite(p, d) \/ Bwrite(p, d)
  \/ WakeEarly(p)

Step(p) == Lock(p) \/ Iderw(p) \/ IderwTest(p) \/ Brelse(p) \/ BrelsePut(p)

Device == DriveDone \/ Ideintr

Next == Device \/ \E p \in Procs : Call(p) \/ Step(p)

Spec == Init /\ [][Next]_vars

----------------------------------------------------------------------------

\* bget caches a block in one buffer at most, whoever asks for it at the same
\* time: the search and the recycling are one critical section.
OneBufferPerBlock == \A k \in Blocks : Cardinality(Cached(k)) <= 1

\* iderw has a locked buffer and something to do, brelse has a locked buffer, and
\* bget finds a buffer as long as the log leaves one for each process.
NoPanic == NBUF >= MaxPinned + Cardinality(Procs) => ~panicked

\* refcnt counts the processes between bget and the end of brelse, and a buffer
\* is locked by one of those (bget, brelse); no block has two buffers, and nothing
\* panics.
RefcntExact ==
  /\ TypeOK
  /\ OneBufferPerBlock
  /\ NoPanic
  /\ \A b \in Bufs :
       LET users == {p \in Procs : pc[p] # "idle" /\ buf[p] = b} IN
       /\ refcnt[b] = Cardinality(users)
       /\ owner[b] # None => owner[b] \in users

\* Every block whose newest contents are not in a dirty or queued buffer has them
\* on the disk: nothing is forgotten when bget recycles a buffer.
StoredSomewhere ==
  \A k \in Blocks :
    disk[k] = latest[k] \/ \E b \in Cached(k) : dirty[b] /\ data[b] = latest[k]

\* "Return a locked buf with the contents of the indicated block": bread's caller
\* holds the one buffer of its block, and finds there what was last stored, also
\* after the buffer was recycled and the block read back.
ReadsLatest ==
  /\ StoredSomewhere
  /\ \A p \in Procs :
       pc[p] = "held" =>
         /\ owner[buf[p]] = p
         /\ blockno[buf[p]] = want[p]
         /\ data[buf[p]] = latest[want[p]]

\* The drive works on the first request, each queued buffer is queued once, is
\* locked, and its owner waits in iderw.  The other way round, a process sleeps in
\* iderw only while its buffer is queued, so that a wakeup is still to come: ideintr
\* wakes the owner in the step that takes the buffer off the queue.
QueueSound ==
  /\ drive = IF idequeue = << >> THEN None ELSE idequeue[1]
  /\ IsInjective(idequeue)
  /\ \A b \in Range(idequeue) :
       \E p \in Procs : owner[b] = p /\ buf[p] = b /\ pc[p] \in {"wait", "woken"}
  /\ \A p \in Procs : pc[p] = "wait" => buf[p] \in Range(idequeue)
=============================================================================
