-------------------------------- MODULE File -------------------------------
(***************************************************************************)
(* Descriptors and open files (file.c, the descriptor calls of sysfile.c,  *)
(* pipealloc), the mode bits of a file, and the table of blocked system    *)
(* calls (syscall.c, sysproc.c).                                           *)
(*                                                                         *)
(* Each section under ftable.lock is a step, and so is what fileclose does *)
(* after it has freed the slot.  The inode cache is its entries, with the  *)
(* inode and the reference count of each; module Inode has its locks, Pipe *)
(* the bytes of a pipe, and Blocks those of a file.  Calls that fail       *)
(* before they take anything leave the state alone and are no steps.       *)
(***************************************************************************)
EXTENDS Integers, FiniteSets

CONSTANTS
  Procs,     \* process slots
  initproc,  \* runs from the start and does not exit
  Slots,     \* ftable.file, NFILE slots
  NoSlot,    \* a null pointer
  NOFILE,    \* descriptors of a process
  NINODE,    \* entries of the inode cache
  Inodes,    \* files on disk; bound: they fit in the cache
  Pipes,     \* pages pipealloc can get
  Modes,     \* bound: the modes chmod sets
  BlockIds,  \* bound: the calls sys_block is asked to block
  MaxLeaks   \* bound: successful calls of sys_chmod and sys_exec on one entry

ASSUME InitAssumption == initproc \in Procs
ASSUME SlotAssumption == NoSlot \notin Slots /\ Pipes # {} /\ Inodes # {}
ASSUME SizeAssumption ==
  /\ NOFILE \in Nat /\ NINODE \in Nat /\ MaxLeaks \in Nat
  /\ IsFiniteSet(Procs) /\ IsFiniteSet(Slots)
  /\ IsFiniteSet(Inodes) /\ Cardinality(Inodes) <= NINODE
ASSUME ModeAssumption == \A m \in Modes : m \subseteq {"r", "w", "x"}

VARIABLES
  file,      \* ftable.file
  ofile,     \* p->ofile
  icache,    \* inode number and ref of each entry
  mode,      \* mode bits of each inode
  pipe,      \* readopen and writeopen of each pipe; both FALSE once it is freed
  blocked,   \* blocked_syscalls
  alive,     \* processes that are not UNUSED or ZOMBIE
  leaked,    \* history: references namei gave sys_chmod and sys_exec
  loc,       \* where a process is, and what its call holds
  panicked   \* panic() has been called

vars == <<file, ofile, icache, mode, pipe, blocked, alive, leaked, loc, panicked>>

FDs == 0 .. NOFILE - 1
Entries == 1 .. NINODE
Bits == {"r", "w", "x"}
\* struct file without off (Blocks). The type FD_PIPE is split by writable; whether
\* an FD_INODE is readable or writable only makes a transfer fail, and is left out.
Files == [ref : Nat, type : {"NONE", "READEND", "WRITEEND", "INODE"},
          pipe : Pipes, ip : 0 .. NINODE]
Ends == {"READEND", "WRITEEND"}

\* A struct file of the zeroed table (its pipe is no pipe's).
NoFile == [ref |-> 0, type |-> "NONE", pipe |-> CHOOSE q \in Pipes : TRUE, ip |-> 0]

\* What a call holds: one or two slots without a descriptor, a reference to an inode,
\* and fileclose's copy ff of a slot it has freed.
Idle == [pc |-> "user", f0 |-> NoSlot, f1 |-> NoSlot, e |-> 0, ff |-> NoFile,
         child |-> initproc, i |-> 0]
Locations == [pc : {"user", "filealloc", "fdalloc", "pipe1", "pipe2", "pipefd", "close", "fork",
                    "exit", "rw"},
              f0 : Slots \cup {NoSlot}, f1 : Slots \cup {NoSlot}, e : 0 .. NINODE, ff : Files,
              child : Procs, i : 0 .. NOFILE]

TypeOK ==
  /\ file \in [Slots -> Files]
  /\ ofile \in [Procs -> [FDs -> Slots \cup {NoSlot}]]
  /\ icache \in [Entries -> [inum : Inodes, ref : Nat]]
  /\ mode \in [Inodes -> SUBSET Bits]
  /\ pipe \in [Pipes -> [readopen : BOOLEAN, writeopen : BOOLEAN]]
  /\ blocked \subseteq BlockIds
  /\ alive \subseteq Procs
  /\ leaked \in [Entries -> Nat]
  /\ loc \in [Procs -> Locations]
  /\ panicked \in BOOLEAN

Init ==
  /\ file = [s \in Slots |-> NoFile]
  /\ ofile = [p \in Procs |-> [fd \in FDs |-> NoSlot]]
  /\ icache = [e \in Entries |-> [inum |-> CHOOSE i \in Inodes : TRUE, ref |-> 0]]
  /\ mode = [i \in Inodes |-> Bits]
  /\ pipe = [q \in Pipes |-> [readopen |-> FALSE, writeopen |-> FALSE]]
  /\ blocked = {}
  /\ alive = {initproc}
  /\ leaked = [e \in Entries |-> 0]
  /\ loc = [p \in Procs |-> Idle]
  /\ panicked = FALSE

At(p, l) == ~panicked /\ loc[p].pc = l
Become(p, l) == loc' = [loc EXCEPT ![p] = l]
First(x, S) == x \in S /\ \A y \in S : x <= y

\* syscall(): process p makes call c, which is not blocked.
Call(p, c) == At(p, "user") /\ p \in alive /\ (c \notin blocked \/ c = "exec")

----------------------------------------------------------------------------
\* The tables

\* filealloc: which of the free slots it takes makes no difference.
FreeSlots == {s \in Slots : file[s].ref = 0}
\* argfd: the descriptor is in use.
argfd(p, fd) == ofile[p][fd] # NoSlot
FreeFDs(p) == {fd \in FDs : ofile[p][fd] = NoSlot}

\* iget(i) returns e, the entry of inode i or else the first empty one.  There is one, as
\* the files fit in the cache; module Inode has the panic.
Holding(i) == {e \in Entries : icache[e].ref > 0 /\ icache[e].inum = i}
Empty == {e \in Entries : icache[e].ref = 0}
iget(i, e) ==
  /\ e \in Holding(i) \/ (Holding(i) = {} /\ First(e, Empty))
  /\ icache' = [icache EXCEPT ![e] = [inum |-> i, ref |-> @.ref + 1]]

----------------------------------------------------------------------------
\* open

\* namei or create, ilock, and the test of the mode: only O_WRONLY without
\* O_CREATE is refused (O_RDONLY is 0, so its test never is true).
Open(p, i, acc, creat) ==
  /\ Call(p, "open")
  /\ ~(acc = "wronly" /\ ~creat /\ "w" \notin mode[i])
  /\ \E e \in Entries : iget(i, e) /\ Become(p, [Idle EXCEPT !.pc = "filealloc", !.e = e])
  /\ UNCHANGED <<file, ofile, mode, pipe, blocked, alive, leaked, panicked>>

\* The way out of sys_open, pipealloc and sys_pipe: what the call holds is given back.
Abandon(p) == Become(p, [loc[p] EXCEPT !.pc = "close"])

OpenFile(p) ==
  /\ At(p, "filealloc")
  /\ \/ \E s \in FreeSlots : /\ file' = [file EXCEPT ![s].ref = 1]
                              /\ Become(p, [loc[p] EXCEPT !.pc = "fdalloc", !.f0 = s])
     \/ FreeSlots = {} /\ Abandon(p) /\ UNCHANGED file
  /\ UNCHANGED <<ofile, icache, mode, pipe, blocked, alive, leaked, panicked>>

OpenFd(p) ==
  LET s == loc[p].f0 IN
  /\ At(p, "fdalloc")
  /\ \/ \E fd \in FDs :
          /\ First(fd, FreeFDs(p))
          /\ ofile' = [ofile EXCEPT ![p][fd] = s]
          /\ file' = [file EXCEPT ![s] = [@ EXCEPT !.type = "INODE", !.ip = loc[p].e]]
          /\ Become(p, Idle)
     \/ FreeFDs(p) = {} /\ Abandon(p) /\ UNCHANGED <<ofile, file>>
  /\ UNCHANGED <<icache, mode, pipe, blocked, alive, leaked, panicked>>

----------------------------------------------------------------------------
\* pipe: pipealloc takes two slots and a page, sys_pipe two descriptors

PipeFile0(p, s) ==
  /\ Call(p, "pipe") 
  /\ file' = [file EXCEPT ![s].ref = 1]
  /\ Become(p, [Idle EXCEPT !.pc = "pipe1", !.f0 = s])
  /\ UNCHANGED <<ofile, icache, mode, pipe, blocked, alive, leaked, panicked>>

PipeFile1(p) ==
  /\ At(p, "pipe1")
  /\ \/ \E s \in FreeSlots : /\ file' = [file EXCEPT ![s].ref = 1]
                              /\ Become(p, [loc[p] EXCEPT !.pc = "pipe2", !.f1 = s])
     \/ FreeSlots = {} /\ Abandon(p) /\ UNCHANGED file
  /\ UNCHANGED <<ofile, icache, mode, pipe, blocked, alive, leaked, panicked>>

PipeNoMemory(p) ==
  /\ At(p, "pipe2")
  /\ Abandon(p)
  /\ UNCHANGED <<file, ofile, icache, mode, pipe, blocked, alive, leaked, panicked>>

PipeInit(p, q) ==
  /\ At(p, "pipe2") /\ ~pipe[q].readopen /\ ~pipe[q].writeopen
  /\ pipe' = [pipe EXCEPT ![q] = [readopen |-> TRUE, writeopen |-> TRUE]]
  /\ file' = [s \in Slots |->
                IF s \in {loc[p].f0, loc[p].f1}
                THEN [file[s] EXCEPT !.type = IF s = loc[p].f0 THEN "READEND" ELSE "WRITEEND",
                                     !.pipe = q]
                ELSE file[s]]
  /\ Become(p, [loc[p] EXCEPT !.pc = "pipefd"])
  /\ UNCHANGED <<ofile, icache, mode, blocked, alive, leaked, panicked>>

PipeFds(p) ==
  /\ At(p, "pipefd")
  /\ \/ \E fd0, fd1 \in FDs :
          /\ First(fd0, FreeFDs(p)) /\ First(fd1, FreeFDs(p) \ {fd0})
          /\ ofile' = [ofile EXCEPT ![p][fd0] = loc[p].f0, ![p][fd1] = loc[p].f1]
          /\ Become(p, Idle)
     \/ Cardinality(FreeFDs(p)) < 2 /\ Abandon(p) /\ UNCHANGED ofile
  /\ UNCHANGED <<file, icache, mode, pipe, blocked, alive, leaked, panicked>>

----------------------------------------------------------------------------
\* fileclose

\* A call that has nothing left to release returns.
Settle(l) ==
  IF l.pc = "close" /\ l.f0 = NoSlot /\ l.f1 = NoSlot /\ l.ff.type = "NONE" /\ l.e = 0
    THEN Idle ELSE l

\* Faulty variant: the type of a freed slot is left as it was.
filecloseKeepsType(p, s, l) ==
  /\ panicked' = (file[s].ref < 1)
  /\ file' = [file EXCEPT ![s].ref = @ - 1]
  /\ Become(p, Settle([l EXCEPT !.ff = IF file[s].ref = 1 THEN [file[s] EXCEPT !.ref = 0]
                                       ELSE NoFile]))

\* Under ftable.lock: slot s loses a reference, and is free with the last one; p goes
\* on with l, and with the copy ff of what it freed.
fileclose(p, s, l) ==
  LET last == file[s].ref = 1 IN
  /\ panicked' = (file[s].ref < 1)
  /\ file' = [file EXCEPT ![s] = [file[s] EXCEPT !.ref = @ - 1, !.type = IF last THEN "NONE" ELSE @]]
  /\ Become(p, Settle([l EXCEPT !.ff = IF last THEN [file[s] EXCEPT !.ref = 0] ELSE NoFile]))

\* The next of the slots that a failing call gives back.
FileClose(p) ==
  /\ At(p, "close") /\ loc[p].ff.type = "NONE"
  /\ \/ loc[p].f0 # NoSlot /\ fileclose(p, loc[p].f0, [loc[p] EXCEPT !.f0 = NoSlot])
     \/ /\ loc[p].f0 = NoSlot /\ loc[p].f1 # NoSlot
        /\ fileclose(p, loc[p].f1, [loc[p] EXCEPT !.f1 = NoSlot])
  /\ UNCHANGED <<ofile, icache, mode, pipe, blocked, alive, leaked>>

\* Faulty variant: pipeclose is told the other end.
FileCloseRestOther(p) ==
  LET ff == loc[p].ff IN
  /\ ~panicked /\ ff.type # "NONE"
  /\ \/ /\ ff.type \in Ends
        /\ pipe' = IF ff.type = "READEND" THEN [pipe EXCEPT ![ff.pipe].writeopen = FALSE]
                   ELSE [pipe EXCEPT ![ff.pipe].readopen = FALSE]
        /\ UNCHANGED icache
     \/ /\ ff.type = "INODE"
        /\ icache' = [icache EXCEPT ![ff.ip].ref = @ - 1]
        /\ UNCHANGED pipe
  /\ Become(p, Settle([loc[p] EXCEPT !.ff = NoFile]))
  /\ UNCHANGED <<file, ofile, mode, blocked, alive, leaked, panicked>>

\* After it: pipeclose or iput, from the copy.
FileCloseRest(p) ==
  LET ff == loc[p].ff IN
  /\ ~panicked /\ ff.type # "NONE"
  /\ \/ /\ ff.type \in Ends
        /\ pipe' = IF ff.type = "WRITEEND" THEN [pipe EXCEPT ![ff.pipe].writeopen = FALSE]
                   ELSE [pipe EXCEPT ![ff.pipe].readopen = FALSE]
        /\ UNCHANGED icache
     \/ /\ ff.type = "INODE"
        /\ icache' = [icache EXCEPT ![ff.ip].ref = @ - 1]
        /\ UNCHANGED pipe
  /\ Become(p, Settle([loc[p] EXCEPT !.ff = NoFile]))
  /\ UNCHANGED <<file, ofile, mode, blocked, alive, leaked, panicked>>

\* sys_open then gives its inode back.
OpenPut(p) ==
  /\ At(p, "close") /\ loc[p].f0 = NoSlot /\ loc[p].f1 = NoSlot /\ loc[p].ff.type = "NONE"
  /\ icache' = [icache EXCEPT ![loc[p].e].ref = @ - 1]
  /\ Become(p, Idle)
  /\ UNCHANGED <<file, ofile, mode, pipe, blocked, alive, leaked, panicked>>

----------------------------------------------------------------------------
\* dup, close, fork, exit

\* Faulty variant: a single reference is taken for none.
filedupOffByOne(s) ==
  /\ panicked' = (file[s].ref <= 1)
  /\ file' = [file EXCEPT ![s].ref = @ + 1]

filedup(s) ==
  /\ panicked' = (file[s].ref < 1)
  /\ file' = [file EXCEPT ![s].ref = @ + 1]

Dup(p, fd) ==
  LET s == ofile[p][fd] IN
  /\ Call(p, "dup") /\ argfd(p, fd)
  /\ \E new \in FDs : First(new, FreeFDs(p)) /\ ofile' = [ofile EXCEPT ![p][new] = s]
  /\ filedup(s)
  /\ UNCHANGED <<icache, mode, pipe, blocked, alive, leaked, loc>>

Close(p, fd) ==
  /\ Call(p, "close") /\ argfd(p, fd)
  /\ ofile' = [ofile EXCEPT ![p][fd] = NoSlot]
  /\ fileclose(p, ofile[p][fd], [Idle EXCEPT !.pc = "close"])
  /\ UNCHANGED <<icache, mode, pipe, blocked, alive, leaked>>

\* fork duplicates the descriptors one by one; the child runs when it is done.
Fork(p, q) ==
  /\ Call(p, "fork") /\ q \notin alive /\ \A r \in Procs : ~(loc[r].pc = "fork" /\ loc[r].child = q)
  /\ Become(p, [Idle EXCEPT !.pc = "fork", !.child = q])
  /\ UNCHANGED <<file, ofile, icache, mode, pipe, blocked, alive, leaked, panicked>>

ForkDup(p) ==
  LET q == loc[p].child  fd == loc[p].i  s == ofile[p][fd] IN
  /\ At(p, "fork")
  /\ \/ /\ fd < NOFILE
        /\ IF s = NoSlot THEN UNCHANGED <<file, panicked>>
           ELSE filedup(s)
        /\ ofile' = [ofile EXCEPT ![q][fd] = s]
        /\ Become(p, [loc[p] EXCEPT !.i = fd + 1])
        /\ UNCHANGED alive
     \/ /\ fd = NOFILE
        /\ alive' = alive \cup {q}
        /\ Become(p, Idle)
        /\ UNCHANGED <<file, ofile, panicked>>
  /\ UNCHANGED <<icache, mode, pipe, blocked, leaked>>

Exit(p) ==
  /\ Call(p, "exit") /\ p # initproc
  /\ Become(p, [Idle EXCEPT !.pc = "exit"])
  /\ UNCHANGED <<file, ofile, icache, mode, pipe, blocked, alive, leaked, panicked>>

\* exit calls fileclose itself, whatever is blocked.
ExitClose(p) ==
  LET open == FDs \ FreeFDs(p) IN
  /\ At(p, "exit") /\ loc[p].ff.type = "NONE"
  /\ \/ /\ \E fd \in FDs : /\ First(fd, open)
                          /\ fileclose(p, ofile[p][fd], loc[p])
                          /\ ofile' = [ofile EXCEPT ![p][fd] = NoSlot]
        /\ UNCHANGED alive
     \/ /\ open = {}
        /\ alive' = alive \ {p}
        /\ Become(p, Idle)
        /\ UNCHANGED <<ofile, file, panicked>>
  /\ UNCHANGED <<icache, mode, pipe, blocked, leaked>>

----------------------------------------------------------------------------
\* read and write, chmod and exec, block and unblock

\* fileread and filewrite, whose effect is in Blocks and Pipe, know no other types.
TransferPanics(s) == file[s].type \notin Ends \cup {"INODE"}

\* sys_read and sys_write lock f->ip, whatever the file is, and test its mode before
\* they call fileread or filewrite.
ReadWrite(p, fd, bit) ==
  LET s == ofile[p][fd]  e == file[s].ip IN
  /\ Call(p, IF bit = "r" THEN "read" ELSE "write") /\ argfd(p, fd)
  /\ panicked' = IF e = 0 \/ icache[e].ref < 1 THEN TRUE
                 ELSE bit \in mode[icache[e].inum] /\ TransferPanics(s)
  /\ loc' = IF panicked' THEN [loc EXCEPT ![p] = [Idle EXCEPT !.pc = "rw", !.i = fd]] ELSE loc
  /\ UNCHANGED <<file, ofile, icache, mode, pipe, blocked, alive, leaked>>

\* namei's reference is never given back.
Leak(i) ==
  \E e \in Entries : /\ leaked[e] < MaxLeaks
                     /\ iget(i, e)
                     /\ leaked' = [leaked EXCEPT ![e] = @ + 1]

Chmod(p, i, m) ==
  /\ Call(p, "chmod")
  /\ Leak(i)
  /\ mode' = [mode EXCEPT ![i] = m]
  /\ UNCHANGED <<file, ofile, pipe, blocked, alive, loc, panicked>>

Exec(p, i) ==
  /\ Call(p, "exec") /\ "x" \in mode[i]
  /\ Leak(i)
  /\ UNCHANGED <<file, ofile, mode, pipe, blocked, alive, loc, panicked>>

Block(p, c) ==
  /\ Call(p, "block") /\ c \notin {"fork", "exit", "unblock"}
  /\ blocked' = blocked \cup {c}
  /\ UNCHANGED <<file, ofile, icache, mode, pipe, alive, leaked, loc, panicked>>

Unblock(p, c) ==
  /\ Call(p, "unblock")
  /\ blocked' = blocked \ {c}
  /\ UNCHANGED <<file, ofile, icache, mode, pipe, alive, leaked, loc, panicked>>

----------------------------------------------------------------------------

\* What p does inside a call.
Step(p) ==
  \/ OpenFile(p) \/ OpenFd(p) \/ PipeFile1(p) \/ PipeNoMemory(p) \/ PipeFds(p)
  \/ ForkDup(p) \/ ExitClose(p) \/ FileClose(p) \/ FileCloseRest(p) \/ OpenPut(p)
  \/ \E q \in Pipes : PipeInit(p, q)

Calls(p) ==
  \/ \E i \in Inodes, acc \in {"rdonly", "wronly", "rdwr"}, creat \in BOOLEAN :
       Open(p, i, acc, creat)
  \/ \E s \in FreeSlots : PipeFile0(p, s)
  \/ \E fd \in FDs : Dup(p, fd) \/ Close(p, fd) \/ \E bit \in {"r", "w"} : ReadWrite(p, fd, bit)
  \/ \E q \in Procs : Fork(p, q)
  \/ Exit(p)
  \/ \E i \in Inodes : Exec(p, i) \/ \E m \in Modes : Chmod(p, i, m)
  \/ \E c \in BlockIds : Block(p, c) \/ Unblock(p, c)

Next == \E p \in Procs : Step(p) \/ Calls(p)

Spec == Init /\ [][Next]_vars

----------------------------------------------------------------------------

\* References to slot s: descriptors, and what calls hold outside of a descriptor.
SlotRefs(s) ==
  Cardinality({x \in Procs \X FDs : ofile[x[1]][x[2]] = s})
  + Cardinality({p \in Procs : loc[p].f0 = s})
  + Cardinality({p \in Procs : loc[p].f1 = s})

\* References to entry e: open files, calls, and what chmod and exec forgot.
EntryRefs(e) ==
  Cardinality({s \in Slots : file[s].ref > 0 /\ file[s].type = "INODE" /\ file[s].ip = e})
  + Cardinality({p \in Procs : loc[p].ff.type = "INODE" /\ loc[p].ff.ip = e})
  + Cardinality({p \in Procs : loc[p].e = e})
  + leaked[e]

\* The counts are exact through every failing open and pipe, fork, dup and exit:
\* a slot of ftable counts the descriptors that share it, an entry of the inode
\* cache the open files on it, so neither is recycled under somebody (file.c).
RefsExact ==
  /\ TypeOK
  /\ \A s \in Slots : file[s].ref = SlotRefs(s)
  /\ \A e \in Entries : icache[e].ref = EntryRefs(e)

\* Who will still close the given end of pipe q.
EndHolders(q, end) ==
  Cardinality({s \in Slots : file[s].ref > 0 /\ file[s].type = end /\ file[s].pipe = q})
  + Cardinality({p \in Procs : loc[p].ff.type = end /\ loc[p].ff.pipe = q})

\* Each end of a pipe is closed exactly once, after its last descriptor, although
\* fileclose frees the slot, for anybody to reuse, before it calls pipeclose: an
\* open end has one file, and the page of a pipe is not freed under a file.
EndsClosedOnce ==
  \A q \in Pipes : /\ EndHolders(q, "WRITEEND") = IF pipe[q].writeopen THEN 1 ELSE 0
                   /\ EndHolders(q, "READEND") = IF pipe[q].readopen THEN 1 ELSE 0

\* The only panic the calls can reach is in the mode test that sys_read and
\* sys_write make before they look at the type of the file: a pipe has no inode,
\* and f->ip is 0, or what the slot's last file left there.
PanicsOnlyAtPipeMode ==
  panicked => \E p \in Procs : loc[p].pc = "rw" /\ file[ofile[p][loc[p].i]].type \in Ends
============================================================================
