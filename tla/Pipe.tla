-------------------------------- MODULE Pipe --------------------------------
(***************************************************************************)
(* A pipe (pipe.c) shared by processes that inherited its two ends, from   *)
(* pipealloc to the last pipeclose.                                        *)
(*                                                                         *)
(* p->lock is explicit and every turn of the loops of pipewrite and        *)
(* piperead is a step.  sleep() gives the lock up and goes to sleep in one *)
(* step: module SleepLock shows that no wakeup gets in between.  The two   *)
(* counters are unsigned and wrap around at Wrap (2^32 in the code).       *)
(* left and closing, locals of a call, go back to a default when it ends.  *)
(***************************************************************************)
EXTENDS Naturals, Sequences, FiniteSets

CONSTANTS
  Procs,      \* processes that hold the pipe open at first
  None,       \* p->lock is free
  Bytes,      \* contents of a byte
  NoByte,     \* nothing has been read yet
  PIPESIZE,   \* bytes of the ring
  Wrap,       \* where the counters wrap around
  MaxN,       \* bound: bytes asked for in one call
  MaxKills    \* bound: processes that are killed

ASSUME SizeAssumption ==
  /\ PIPESIZE \in Nat \ {0}
  /\ Wrap \in Nat /\ Wrap % PIPESIZE = 0 /\ Wrap > PIPESIZE
  /\ MaxN \in Nat /\ MaxKills \in Nat
ASSUME NoneAssumption == None \notin Procs /\ NoByte \notin Bytes

Ends == {"read", "write"}

VARIABLES
  nread, nwrite, data,    \* struct pipe
  readopen, writeopen,
  lock,                   \* the process that holds p->lock, or None
  freed,                  \* the pipe's page has been given to kfree
  holds,                  \* ends of which a process has a file descriptor
  pc, left, closing,      \* where a process is, bytes it has still to move,
                          \* and the end whose last descriptor it has dropped
  killed,
  got                     \* auxiliary: the byte piperead copied out last

ring == <<nread, nwrite, data>>
pipe == <<nread, nwrite, data, readopen, writeopen, freed>>
vars == <<nread, nwrite, data, readopen, writeopen, lock, freed, holds, pc, left,
          closing, killed, got>>

Locations == {"idle", "write_lock", "write", "write_doze", "write_sleep",
              "read_lock", "read", "read_doze", "read_sleep", "read_copy", "close_lock"}

TypeOK ==
  /\ nread \in 0 .. Wrap - 1
  /\ nwrite \in 0 .. Wrap - 1
  /\ data \in [0 .. PIPESIZE - 1 -> Bytes]
  /\ readopen \in BOOLEAN
  /\ writeopen \in BOOLEAN
  /\ lock \in Procs \cup {None}
  /\ freed \in BOOLEAN
  /\ holds \in [Procs -> SUBSET Ends]
  /\ pc \in [Procs -> Locations]
  /\ left \in [Procs -> 0 .. MaxN]
  /\ closing \in [Procs -> Ends]
  /\ killed \in [Procs -> BOOLEAN]
  /\ got \in Bytes \cup {NoByte}

\* pipealloc, then forks that duplicate both descriptors; the page of the pipe
\* comes from kalloc with any contents.
Init ==
  /\ nread = 0
  /\ nwrite = 0
  /\ data \in [0 .. PIPESIZE - 1 -> Bytes]
  /\ readopen = TRUE
  /\ writeopen = TRUE
  /\ lock = None
  /\ freed = FALSE
  /\ holds = [p \in Procs |-> Ends]
  /\ pc = [p \in Procs |-> "idle"]
  /\ left = [p \in Procs |-> 0]
  /\ closing = [p \in Procs |-> "read"]
  /\ killed = [p \in Procs |-> FALSE]
  /\ got = NoByte

\* Faulty variant: the ring is taken to hold one byte more than it does.
FullLate == nwrite = (nread + PIPESIZE + 1) % Wrap

Full == nwrite = (nread + PIPESIZE) % Wrap
Empty == nread = nwrite

\* Faulty variant: wakeup() stops at the first sleeper it finds.
WokenOne(f, from, to) ==
  IF \E q \in Procs : f[q] = from
    THEN [f EXCEPT ![CHOOSE q \in Procs : f[q] = from] = to]
    ELSE f

\* wakeup(): the sleepers at "from" have to reacquire the lock at "to".
Woken(f, from, to) == [q \in Procs |-> IF f[q] = from THEN to ELSE f[q]]
WakeReaders(f) == Woken(f, "read_sleep", "read_lock")
WakeWriters(f) == Woken(f, "write_sleep", "write_lock")

Goto(p, from, to) ==
  /\ pc[p] = from
  /\ pc' = [pc EXCEPT ![p] = to]

----------------------------------------------------------------------------
\* pipewrite

WriteCall(p, n) ==
  /\ Goto(p, "idle", "write_lock")
  /\ "write" \in holds[p]
  /\ left' = [left EXCEPT ![p] = n]
  /\ UNCHANGED <<pipe, lock, holds, closing, killed, got>>

\* acquire(&p->lock), at the start or at the end of sleep()
WriteLock(p) ==
  /\ Goto(p, "write_lock", "write")
  /\ lock = None
  /\ lock' = p
  /\ UNCHANGED <<pipe, holds, left, closing, killed, got>>

WriteByte(p, b) ==
  /\ pc[p] = "write"
  /\ left[p] > 0
  /\ ~Full
  /\ data' = [data EXCEPT ![nwrite % PIPESIZE] = b]
  /\ nwrite' = (nwrite + 1) % Wrap
  /\ left' = [left EXCEPT ![p] = @ - 1]
  /\ UNCHANGED <<nread, readopen, writeopen, lock, freed, holds, pc, closing, killed, got>>

\* The pipe is full and nobody can read it, or the writer was killed.
WriteFail(p) ==
  /\ Goto(p, "write", "idle")
  /\ left[p] > 0
  /\ Full
  /\ ~readopen \/ killed[p]
  /\ lock' = None
  /\ left' = [left EXCEPT ![p] = 0]
  /\ UNCHANGED <<pipe, holds, closing, killed, got>>

\* kill() does not take p->lock: it may come after this test, before the sleep.
WriteBlock(p) ==
  /\ pc[p] = "write"
  /\ left[p] > 0
  /\ Full
  /\ readopen /\ ~killed[p]
  /\ pc' = [WakeReaders(pc) EXCEPT ![p] = "write_doze"]
  /\ UNCHANGED <<pipe, lock, holds, left, closing, killed, got>>

WriteSleep(p) ==
  /\ Goto(p, "write_doze", "write_sleep")
  /\ lock' = None
  /\ UNCHANGED <<pipe, holds, left, closing, killed, got>>

WriteReturn(p) ==
  /\ pc[p] = "write"
  /\ left[p] = 0
  /\ pc' = [WakeReaders(pc) EXCEPT ![p] = "idle"]
  /\ lock' = None
  /\ UNCHANGED <<pipe, holds, left, closing, killed, got>>

----------------------------------------------------------------------------
\* piperead

ReadCall(p, n) ==
  /\ Goto(p, "idle", "read_lock")
  /\ "read" \in holds[p]
  /\ left' = [left EXCEPT ![p] = n]
  /\ UNCHANGED <<pipe, lock, holds, closing, killed, got>>

ReadLock(p) ==
  /\ Goto(p, "read_lock", "read")
  /\ lock = None
  /\ lock' = p
  /\ UNCHANGED <<pipe, holds, left, closing, killed, got>>

ReadFail(p) ==
  /\ Goto(p, "read", "idle")
  /\ Empty /\ writeopen
  /\ killed[p]
  /\ lock' = None
  /\ left' = [left EXCEPT ![p] = 0]
  /\ UNCHANGED <<pipe, holds, closing, killed, got>>

ReadBlock(p) ==
  /\ Goto(p, "read", "read_doze")
  /\ Empty /\ writeopen
  /\ ~killed[p]
  /\ UNCHANGED <<pipe, lock, holds, left, closing, killed, got>>

ReadSleep(p) ==
  /\ Goto(p, "read_doze", "read_sleep")
  /\ lock' = None
  /\ UNCHANGED <<pipe, holds, left, closing, killed, got>>

ReadReady(p) ==
  /\ Goto(p, "read", "read_copy")
  /\ ~(Empty /\ writeopen)
  /\ UNCHANGED <<pipe, lock, holds, left, closing, killed, got>>

ReadByte(p) ==
  /\ pc[p] = "read_copy"
  /\ left[p] > 0
  /\ ~Empty
  /\ got' = data[nread % PIPESIZE]
  /\ nread' = (nread + 1) % Wrap
  /\ left' = [left EXCEPT ![p] = @ - 1]
  /\ UNCHANGED <<nwrite, data, readopen, writeopen, lock, freed, holds, pc, closing, killed>>

ReadReturn(p) ==
  /\ pc[p] = "read_copy"
  /\ left[p] = 0 \/ Empty
  /\ pc' = [WakeWriters(pc) EXCEPT ![p] = "idle"]
  /\ lock' = None
  /\ left' = [left EXCEPT ![p] = 0]
  /\ UNCHANGED <<pipe, holds, closing, killed, got>>

----------------------------------------------------------------------------
\* fileclose and pipeclose

\* A process drops its descriptor of an end; the last one goes on to pipeclose.
Close(p, e) ==
  /\ pc[p] = "idle"
  /\ e \in holds[p]
  /\ holds' = [holds EXCEPT ![p] = @ \ {e}]
  /\ IF \E q \in Procs \ {p} : e \in holds[q]
       THEN UNCHANGED <<pc, closing>>
       ELSE /\ pc' = [pc EXCEPT ![p] = "close_lock"]
            /\ closing' = [closing EXCEPT ![p] = e]
  /\ UNCHANGED <<pipe, lock, left, killed, got>>

\* Faulty variant: the pipe is freed with the first end closed.
PipeCloseEither(p) ==
  /\ pc[p] = "close_lock"
  /\ lock = None
  /\ IF closing[p] = "write"
       THEN /\ writeopen' = FALSE
            /\ pc' = [WakeReaders(pc) EXCEPT ![p] = "idle"]
            /\ UNCHANGED readopen
       ELSE /\ readopen' = FALSE
            /\ pc' = [WakeWriters(pc) EXCEPT ![p] = "idle"]
            /\ UNCHANGED writeopen
  /\ freed' = (~readopen' \/ ~writeopen')
  /\ closing' = [closing EXCEPT ![p] = "read"]
  /\ UNCHANGED <<ring, lock, holds, left, killed, got>>

PipeClose(p) ==
  /\ pc[p] = "close_lock"
  /\ lock = None
  /\ IF closing[p] = "write"
       THEN /\ writeopen' = FALSE
            /\ pc' = [WakeReaders(pc) EXCEPT ![p] = "idle"]
            /\ UNCHANGED readopen
       ELSE /\ readopen' = FALSE
            /\ pc' = [WakeWriters(pc) EXCEPT ![p] = "idle"]
            /\ UNCHANGED writeopen
  /\ freed' = (~readopen' /\ ~writeopen')
  /\ closing' = [closing EXCEPT ![p] = "read"]
  /\ UNCHANGED <<ring, lock, holds, left, killed, got>>

\* kill(): a sleeper runs again; the bound is one kill per process.
Kill(p) ==
  /\ ~killed[p]
  /\ Cardinality({q \in Procs : killed[q]}) < MaxKills
  /\ killed' = [killed EXCEPT ![p] = TRUE]
  /\ pc' = [pc EXCEPT ![p] = IF @ = "read_sleep" THEN "read_lock"
                             ELSE IF @ = "write_sleep" THEN "write_lock" ELSE @]
  /\ UNCHANGED <<pipe, lock, holds, left, closing, got>>

----------------------------------------------------------------------------

\* Steps of a process inside pipewrite, piperead or pipeclose.
Step(p) ==
  \/ WriteLock(p) \/ WriteFail(p) \/ WriteBlock(p) \/ WriteSleep(p) \/ WriteReturn(p)
  \/ \E b \in Bytes : WriteByte(p, b)
  \/ ReadLock(p) \/ ReadFail(p) \/ ReadBlock(p) \/ ReadSleep(p) \/ ReadReady(p)
  \/ ReadByte(p) \/ ReadReturn(p)
  \/ PipeClose(p)

Call(p) ==
  \/ \E n \in 0 .. MaxN : WriteCall(p, n) \/ ReadCall(p, n)
  \/ \E e \in Ends : Close(p, e)
  \/ Kill(p)

Next == \E p \in Procs : Call(p) \/ Step(p)

Spec == Init /\ [][Next]_vars

----------------------------------------------------------------------------

\* The bytes in the ring, oldest first.
InTransit ==
  [i \in 1 .. (nwrite + Wrap - nread) % Wrap |-> data[((nread + i - 1) % Wrap) % PIPESIZE]]

Queue == INSTANCE ByteQueue WITH queue <- InTransit, Capacity <- PIPESIZE

\* Whatever the interleaving of readers and writers, and across the wrap-around
\* of the counters, the pipe is a bounded first-in first-out queue: no byte is
\* lost, repeated, reordered or overwritten (pipewrite and piperead).
Fifo == Queue!Spec

\* A writer sleeps only on a full pipe that can still be read, and a reader only
\* on an empty pipe that can still be written: whoever changes that wakes it
\* before p->lock is released (pipewrite, piperead, pipeclose).  The exception is
\* pipewrite's return -1: a killed writer that has filled the pipe returns
\* without a wakeup, so after a kill a reader may sleep on a pipe with bytes.
SleepersHaveReason ==
  lock = None =>
    \A p \in Procs :
      /\ pc[p] = "write_sleep" => Full /\ readopen
      /\ pc[p] = "read_sleep" => writeopen /\ (Empty \/ \E q \in Procs : killed[q])

\* pipeclose frees the pipe once, and not while a process is in the pipe code or
\* has one of its ends open.
NoUseAfterFree ==
  /\ TypeOK
  /\ freed => \A p \in Procs : pc[p] = "idle" /\ holds[p] = {}
  /\ \A p \in Procs : pc[p] = "close_lock" => ~freed
=============================================================================
