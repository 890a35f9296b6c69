----------------------------- MODULE FileSteps -----------------------------
(***************************************************************************)
(* The invariant of the file table, that it holds initially, and what the  *)
(* steps of File do to the processes that live, to the types, to what a    *)
(* call holds and to the tables.                                           *)
(***************************************************************************)
EXTENDS File, FiniteSetTheorems, TLAPS

----------------------------------------------------------------------------
\* The counts of the model, by name

Descriptors(s) == {x \in Procs \X FDs : ofile[x[1]][x[2]] = s}
Firsts(s) == {p \in Procs : loc[p].f0 = s}
Seconds(s) == {p \in Procs : loc[p].f1 = s}
SlotInv == \A s \in Slots :
  file[s].ref = Cardinality(Descriptors(s)) + Cardinality(Firsts(s)) + Cardinality(Seconds(s))

\* What a struct file is of: the entry v if the kind k is INODE, else an end of the pipe v
IsOf(f, k, v) == f.type = k /\ (IF k = "INODE" THEN f.ip = v ELSE f.pipe = v)
FilesOf(k, v) == {s \in Slots : IsOf(file[s], k, v)}
CopiesOf(k, v) == {p \in Procs : IsOf(loc[p].ff, k, v)}
Opening(e) == {p \in Procs : loc[p].e = e}
EntryInv == \A e \in Entries :
  icache[e].ref = Cardinality(FilesOf("INODE", e)) + Cardinality(CopiesOf("INODE", e))
                  + Cardinality(Opening(e)) + leaked[e]
IsOpen(q, end) == IF end = "WRITEEND" THEN pipe[q].writeopen ELSE pipe[q].readopen
EndInv == \A q \in Pipes, end \in Ends :
  Cardinality(FilesOf(end, q)) + Cardinality(CopiesOf(end, q)) = IF IsOpen(q, end) THEN 1 ELSE 0

\* A slot has a type only while it is in use, and always when it has a descriptor.
KindInv ==
  /\ \A s \in Slots : /\ file[s].ref = 0 => file[s].type = "NONE"
                      /\ file[s].type = "INODE" => file[s].ip \in Entries
  /\ \A p \in Procs, fd \in FDs : ofile[p][fd] # NoSlot => file[ofile[p][fd]].type # "NONE"

\* What a call holds at each location.  A new slot has no type and belongs to its call alone.
LocOf(p) ==
  LET l == loc[p] IN
  /\ l.pc = "user" => l = Idle
  /\ l.pc \in {"filealloc", "fdalloc"} => l.e # 0
  /\ l.pc \notin {"filealloc", "fdalloc", "close"} => l.e = 0
  /\ l.pc \in {"fdalloc", "pipe1", "pipe2"} =>
       l.f0 # NoSlot /\ file[l.f0].ref = 1 /\ file[l.f0].type = "NONE"
  /\ l.pc = "pipe2" => l.f1 # NoSlot /\ file[l.f1].ref = 1 /\ file[l.f1].type = "NONE"
  /\ l.pc = "pipefd" => /\ l.f0 # NoSlot /\ file[l.f0].type # "NONE"
                        /\ l.f1 # NoSlot /\ file[l.f1].type # "NONE"
  /\ l.pc \notin {"fdalloc", "pipe1", "pipe2", "pipefd", "close"} => l.f0 = NoSlot
  /\ l.pc \notin {"pipe2", "pipefd", "close"} => l.f1 = NoSlot
  /\ l.pc \notin {"close", "exit"} => l.ff.type = "NONE"
  /\ l.ff.type = "INODE" => l.ff.ip \in Entries
  /\ l.pc = "close" => l.f0 # NoSlot \/ l.f1 # NoSlot \/ l.ff.type # "NONE" \/ l.e # 0
LocInv == \A p \in Procs : LocOf(p)

\* Only live processes are in calls; a process that is not alive has no descriptors but
\* those that a fork has given it.
Forking(p, q) == loc[p].pc = "fork" /\ loc[p].child = q
LiveInv ==
  /\ \A p \in Procs : loc[p].pc # "user" => p \in alive
  /\ \A p, q \in Procs : Forking(p, q) =>
       /\ q \notin alive
       /\ \A r \in Procs : Forking(r, q) => r = p
       /\ \A fd \in FDs : fd >= loc[p].i => ofile[q][fd] = NoSlot
  /\ \A q \in Procs \ alive : (\A p \in Procs : ~Forking(p, q)) =>
       \A fd \in FDs : ofile[q][fd] = NoSlot

IInv == /\ TypeOK /\ SlotInv /\ EntryInv /\ EndInv /\ KindInv /\ LocInv /\ LiveInv
        /\ PanicsOnlyAtPipeMode

----------------------------------------------------------------------------
\* The invariant holds initially.

\* The values a slot and a call begin with have their types
LEMMA Constants == NoFile \in Files /\ Idle \in Locations
<1>1. (CHOOSE q \in Pipes : TRUE) \in Pipes
  BY SlotAssumption, Zenon
<1>2. NoFile \in Files
  BY <1>1, SizeAssumption DEF NoFile, Files
<1>3. Idle \in Locations
  BY <1>2, InitAssumption, SizeAssumption DEF Idle, Locations
<1> QED
  BY <1>2, <1>3

\* A process outside of its calls holds nothing
LEMMA IdleFields ==
  /\ Idle.pc = "user" /\ Idle.f0 = NoSlot /\ Idle.f1 = NoSlot /\ Idle.e = 0
  /\ Idle.ff.type = "NONE" /\ Idle.i = 0
BY DEF Idle, NoFile

\* The tables are empty at boot
LEMMA InitInv == Init => IInv
<1> SUFFICES ASSUME Init PROVE IInv
  OBVIOUS
<1>0. /\ \A s \in Slots : file[s] = NoFile
      /\ \A p \in Procs : loc[p] = Idle /\ \A fd \in FDs : ofile[p][fd] = NoSlot
      /\ \A e \in Entries : icache[e].ref = 0 /\ leaked[e] = 0
      /\ \A q \in Pipes : pipe[q].readopen = FALSE /\ pipe[q].writeopen = FALSE
      /\ alive = {initproc} /\ panicked = FALSE
  BY DEF Init
<1>1. NoFile.ref = 0 /\ NoFile.type = "NONE"
  BY DEF NoFile
<1>2. /\ Idle.pc = "user" /\ Idle.f0 = NoSlot /\ Idle.f1 = NoSlot /\ Idle.e = 0
      /\ Idle.ff.type = "NONE"
  BY IdleFields, SMTT(30)
<1>3. TypeOK
  <2>1. (CHOOSE i \in Inodes : TRUE) \in Inodes
    BY SlotAssumption, Zenon
  <2>2. /\ file \in [Slots -> Files] /\ loc \in [Procs -> Locations]
    BY Constants DEF Init
  <2>3. icache \in [Entries -> [inum : Inodes, ref : Nat]]
    BY <2>1 DEF Init
  <2> QED
    BY <2>2, <2>3, InitAssumption, Zenon DEF Init, TypeOK
<1>4. Cardinality({}) = 0
  BY FS_EmptySet, Zenon
<1>5. SlotInv
  <2>1. ASSUME NEW s \in Slots PROVE Descriptors(s) = {} /\ Firsts(s) = {} /\ Seconds(s) = {}
    <3>1. s # NoSlot
      BY SlotAssumption
    <3> QED
      BY <1>0, <1>2, <3>1, SMTT(30) DEF Descriptors, Firsts, Seconds
  <2> QED
    BY <1>0, <1>1, <1>4, <2>1, SMTT(30) DEF SlotInv
<1>6. \A k \in Ends \cup {"INODE"} : \A v : FilesOf(k, v) = {} /\ CopiesOf(k, v) = {}
  <2>1. \A k \in Ends \cup {"INODE"} : k # "NONE"
    BY DEF Ends
  <2> QED
    BY <1>0, <1>1, <1>2, <2>1, ZenonT(30) DEF FilesOf, CopiesOf, IsOf
<1>7. EntryInv
  <2>1. ASSUME NEW e \in Entries PROVE Opening(e) = {}
    <3>1. e # 0
      BY SizeAssumption DEF Entries
    <3> QED
      BY <1>0, <1>2, <3>1, SMTT(30) DEF Opening
  <2>2. \A e \in Entries : FilesOf("INODE", e) = {} /\ CopiesOf("INODE", e) = {}
    BY <1>6, ZenonT(30)
  <2>3. ASSUME NEW e \in Entries
        PROVE  icache[e].ref = Cardinality(FilesOf("INODE", e)) + Cardinality(CopiesOf("INODE", e))
                               + Cardinality(Opening(e)) + leaked[e]
    <3>1. /\ Cardinality(FilesOf("INODE", e)) = 0 /\ Cardinality(CopiesOf("INODE", e)) = 0
          /\ Cardinality(Opening(e)) = 0
      BY <1>4, <2>1, <2>2, Zenon
    <3> QED
      BY <1>0, <3>1, SMT
  <2> QED
    BY <2>3, Zenon DEF EntryInv
<1>8. EndInv
  <2>1. ASSUME NEW q \in Pipes, NEW end \in Ends
        PROVE  FilesOf(end, q) = {} /\ CopiesOf(end, q) = {} /\ ~IsOpen(q, end)
    BY <1>0, <1>6, ZenonT(30) DEF IsOpen
  <2> QED
    BY <1>4, <2>1, SMTT(30) DEF EndInv
<1>9. KindInv
  BY <1>0, <1>1, SMTT(30) DEF KindInv
<1>10. LocInv
  BY <1>0, <1>2, SMTT(30) DEF LocInv, LocOf
<1>11. LiveInv
  BY <1>0, <1>2 DEF LiveInv, Forking
<1>12. PanicsOnlyAtPipeMode
  BY <1>0, Zenon DEF PanicsOnlyAtPipeMode
<1> QED
  BY <1>3, <1>5, <1>7, <1>8, <1>9, <1>10, <1>11, <1>12, SMTT(30) DEF IInv

----------------------------------------------------------------------------
\* Which processes live, and who forks whom

\* A step of p moves no other process.
Only(p) == \A r \in Procs \ {p} : loc'[r] = loc[r]

\* p goes to l, and nobody else moves.
LEMMA Becomes ==
  ASSUME TypeOK, NEW p \in Procs, NEW l, Become(p, l)
  PROVE  loc'[p] = l /\ Only(p) /\ (l \in Locations => loc' \in [Procs -> Locations])
BY DEF TypeOK, Become, Only

OwnRow(p) == \A r \in Procs \ {p}, fd \in FDs : ofile'[r][fd] = ofile[r][fd]
\* p acts on itself and does not fork
Stays(p) ==
  p \in alive /\ alive' = alive /\ loc[p].pc # "fork" /\ loc'[p].pc # "fork" /\ OwnRow(p)
\* fork begins, gives its child descriptor fd, ends; exit ends
Begins(p, q) ==
  /\ p \in alive /\ q \notin alive /\ alive' = alive /\ ofile' = ofile /\ loc[p].pc # "fork"
  /\ \A r \in Procs : ~Forking(r, q)
  /\ loc'[p].pc = "fork" /\ loc'[p].child = q /\ loc'[p].i = 0
Hands(p, fd) ==
  LET q == loc[p].child IN
  /\ loc[p].pc = "fork" /\ loc[p].i = fd /\ alive' = alive
  /\ loc'[p].pc = "fork" /\ loc'[p].child = q /\ loc'[p].i = fd + 1
  /\ \A r \in Procs, k \in FDs : r # q \/ k # fd => ofile'[r][k] = ofile[r][k]
Begets(p) ==
  /\ loc[p].pc = "fork" /\ loc'[p] = Idle /\ ofile' = ofile /\ alive' = alive \cup {loc[p].child}
Dies(p) ==
  /\ loc[p].pc = "exit" /\ loc'[p] = Idle /\ ofile' = ofile /\ alive' = alive \ {p}
  /\ \A fd \in FDs : ofile[p][fd] = NoSlot
LifeOf(p) ==
  \/ Stays(p) \/ Begets(p) \/ Dies(p)
  \/ \E q \in Procs : Begins(p, q)
  \/ \E fd \in 0 .. NOFILE - 1 : Hands(p, fd)

Acts(p) == Only(p) /\ LifeOf(p)

\* A process that moves inside its calls stays alive
LEMMA StaysBy ==
  ASSUME TypeOK, LiveInv, NEW p \in Procs, NEW l, Become(p, l), l.pc # "fork", loc[p].pc # "fork",
         loc[p].pc = "user" => p \in alive, alive' = alive, OwnRow(p)
  PROVE  Acts(p)
<1>1. loc'[p] = l /\ Only(p)
  BY Becomes, Zenon
<1>2. p \in alive
  BY Zenon DEF LiveInv
<1> QED
  BY <1>1, <1>2, Zenon DEF Acts, LifeOf, Stays

\* An update of p's descriptors leaves those of the others alone
LEMMA Rows ==
  ASSUME TypeOK, NEW p \in Procs
  PROVE  /\ ofile' = ofile => OwnRow(p)
         /\ \A fd \in FDs : \A s : ofile' = [ofile EXCEPT ![p][fd] = s] => OwnRow(p)
         /\ \A fd, k \in FDs : \A s, t :
              ofile' = [ofile EXCEPT ![p][fd] = s, ![p][k] = t] => OwnRow(p)
<1>1. ofile' = ofile => OwnRow(p)
  BY Zenon DEF OwnRow
<1>2. ASSUME NEW fd \in FDs, NEW s, ofile' = [ofile EXCEPT ![p][fd] = s] PROVE OwnRow(p)
  BY <1>2, SMTT(30) DEF OwnRow, TypeOK
<1>3. ASSUME NEW fd \in FDs, NEW k \in FDs, NEW s, NEW t,
             ofile' = [ofile EXCEPT ![p][fd] = s, ![p][k] = t]
      PROVE  OwnRow(p)
  BY <1>3 DEF OwnRow, TypeOK
<1> QED
  BY <1>1, <1>2, <1>3, Zenon

\* fileclose goes on in the call that made it, or returns
LEMMA FilecloseStays ==
  ASSUME TypeOK, NEW p \in Procs, NEW s, NEW l \in Locations, fileclose(p, s, l), l.pc # "fork"
  PROVE  \E m : Become(p, m) /\ m.pc # "fork"
<1> DEFINE g == IF file[s].ref = 1 THEN [file[s] EXCEPT !.ref = 0] ELSE NoFile
           m == [l EXCEPT !.ff = g]
<1>1. Become(p, Settle(m))
  BY DEF fileclose
<1>2. m.pc = l.pc
  <2> HIDE DEF g
  <2> QED
    BY DEF Locations
<1> HIDE DEF m
<1>3. Settle(m).pc # "fork"
  BY <1>2, SMTT(30) DEF Settle, Idle
<1> QED
  BY <1>1, <1>3, Zenon

\* Every action is one of these
LEMMA Lives ==
  ASSUME IInv, NEW p \in Procs, Step(p) \/ Calls(p)
  PROVE  Acts(p)
<1>0. /\ TypeOK /\ LiveInv /\ LocOf(p) /\ loc[p] \in Locations
      /\ Idle.pc # "fork" /\ Idle \in Locations
  BY Constants, SMTT(30) DEF IInv, TypeOK, LocInv, Idle
<1>a. ASSUME loc' = loc, loc[p].pc = "user", p \in alive, alive' = alive, OwnRow(p) PROVE Acts(p)
  <2>1. Only(p) /\ loc'[p].pc # "fork"
    BY <1>a DEF Only
  <2> QED
    BY <1>a, <2>1, SMTT(30) DEF Acts, LifeOf, Stays
<1>b. ASSUME Become(p, Idle), loc[p].pc # "fork", loc[p].pc # "user", alive' = alive, OwnRow(p)
      PROVE  Acts(p)
  BY <1>0, <1>b, StaysBy, Zenon
<1>c. ASSUME Abandon(p), loc[p].pc # "fork", loc[p].pc # "user", alive' = alive, ofile' = ofile
      PROVE  Acts(p)
  <2>1. [loc[p] EXCEPT !.pc = "close"].pc # "fork"
    BY <1>0 DEF Locations
  <2> QED
    BY <1>0, <1>c, <2>1, StaysBy, Rows, ZenonT(30) DEF Abandon
<1>d. ASSUME NEW s, NEW l \in Locations, fileclose(p, s, l), l.pc # "fork",
             loc[p].pc # "fork", loc[p].pc = "user" => p \in alive, alive' = alive, OwnRow(p)
      PROVE  Acts(p)
  <2>1. PICK m : Become(p, m) /\ m.pc # "fork"
    BY <1>0, <1>d, FilecloseStays, ZenonT(30)
  <2> QED
    BY <1>0, <1>d, <2>1, StaysBy, Zenon
<1>e. ASSUME NEW l, Become(p, l), l.pc # "fork", loc[p].pc # "fork", loc[p].pc = "user" => p \in alive,
             alive' = alive, ofile' = ofile
      PROVE  Acts(p)
  BY <1>0, <1>e, StaysBy, Rows, Zenon
<1>1. ASSUME NEW i \in Inodes, NEW acc, NEW creat, Open(p, i, acc, creat) PROVE Acts(p)
  <2>1. PICK e \in Entries : Become(p, [Idle EXCEPT !.pc = "filealloc", !.e = e])
    BY <1>1, Zenon DEF Open
  <2>2. [Idle EXCEPT !.pc = "filealloc", !.e = e].pc # "fork"
    BY DEF Idle
  <2>3. loc[p].pc = "user" /\ p \in alive /\ alive' = alive /\ ofile' = ofile
    BY <1>1, Zenon DEF Open, Call, At
  <2>4. loc[p].pc # "fork"
    BY <2>3
  <2> QED
    BY <1>e, <2>1, <2>2, <2>3, <2>4, Zenon
<1>2. CASE OpenFile(p)
  <2>0. loc[p].pc = "filealloc" /\ alive' = alive /\ ofile' = ofile
    BY <1>2, Zenon DEF OpenFile, At
  <2>1. CASE Abandon(p)
    BY <1>c, <2>0, <2>1, SMTT(30)
  <2>2. ASSUME NEW s, Become(p, [loc[p] EXCEPT !.pc = "fdalloc", !.f0 = s]) PROVE Acts(p)
    <3>1. [loc[p] EXCEPT !.pc = "fdalloc", !.f0 = s].pc # "fork"
      BY <1>0 DEF Locations
    <3>2. loc[p].pc # "fork" /\ (loc[p].pc = "user" => p \in alive)
      BY <2>0
    <3> QED
      BY <1>e, <2>0, <2>2, <3>1, <3>2, ZenonT(30)
  <2> QED
    BY <1>2, <2>1, <2>2, Zenon DEF OpenFile
<1>3. CASE OpenFd(p)
  <2>0. loc[p].pc = "fdalloc" /\ alive' = alive
    BY <1>3, Zenon DEF OpenFd, At
  <2>1. CASE Abandon(p) /\ ofile' = ofile
    BY <1>c, <2>0, <2>1, SMTT(30)
  <2>2. CASE Become(p, Idle) /\ OwnRow(p)
    BY <1>b, <2>0, <2>2, SMTT(30)
  <2> QED
    BY <1>0, <1>3, <2>1, <2>2, Rows, Zenon DEF OpenFd
<1>4. ASSUME NEW s \in FreeSlots, PipeFile0(p, s) PROVE Acts(p)
  <2>1. [Idle EXCEPT !.pc = "pipe1", !.f0 = s].pc # "fork"
    BY DEF Idle
  <2>2. loc[p].pc = "user" /\ p \in alive /\ alive' = alive /\ ofile' = ofile
    BY <1>4, Zenon DEF PipeFile0, Call, At
  <2>3. Become(p, [Idle EXCEPT !.pc = "pipe1", !.f0 = s])
    BY <1>4, Zenon DEF PipeFile0
  <2>4. loc[p].pc # "fork"
    BY <2>2
  <2> QED
    BY <1>e, <2>1, <2>2, <2>3, <2>4, ZenonT(30)
<1>5. CASE PipeFile1(p)
  <2>0. loc[p].pc = "pipe1" /\ alive' = alive /\ ofile' = ofile
    BY <1>5, Zenon DEF PipeFile1, At
  <2>1. CASE Abandon(p)
    BY <1>c, <2>0, <2>1, SMTT(30)
  <2>2. ASSUME NEW s, Become(p, [loc[p] EXCEPT !.pc = "pipe2", !.f1 = s]) PROVE Acts(p)
    <3>1. [loc[p] EXCEPT !.pc = "pipe2", !.f1 = s].pc # "fork"
      BY <1>0, SMTT(30) DEF Locations
    <3>2. loc[p].pc # "fork" /\ (loc[p].pc = "user" => p \in alive)
      BY <2>0, SMTT(30)
    <3> QED
      BY <1>e, <2>0, <2>2, <3>1, <3>2, Zenon
  <2> QED
    BY <1>5, <2>1, <2>2, ZenonT(30) DEF PipeFile1
<1>6. CASE PipeNoMemory(p)
  <2>0. loc[p].pc = "pipe2" /\ alive' = alive /\ ofile' = ofile /\ Abandon(p)
    BY <1>6, Zenon DEF PipeNoMemory, At
  <2> QED
    BY <1>c, <2>0, SMTT(30)
<1>7. ASSUME NEW q \in Pipes, PipeInit(p, q) PROVE Acts(p)
  <2>0. /\ loc[p].pc = "pipe2" /\ alive' = alive /\ ofile' = ofile
        /\ Become(p, [loc[p] EXCEPT !.pc = "pipefd"])
    BY <1>7, Zenon DEF PipeInit, At
  <2>1. [loc[p] EXCEPT !.pc = "pipefd"].pc # "fork"
    BY <1>0 DEF Locations
  <2>2. loc[p].pc # "fork" /\ loc[p].pc # "user"
    BY <2>0, SMTT(30)
  <2> QED
    BY <1>e, <2>0, <2>1, <2>2, Zenon
<1>8. CASE PipeFds(p)
  <2>0. loc[p].pc = "pipefd" /\ alive' = alive
    BY <1>8, Zenon DEF PipeFds, At
  <2>1. CASE Abandon(p) /\ ofile' = ofile
    BY <1>c, <2>0, <2>1, SMTT(30)
  <2>2. CASE Become(p, Idle) /\ OwnRow(p)
    BY <1>b, <2>0, <2>2, SMTT(30)
  <2> QED
    BY <1>0, <1>8, <2>1, <2>2, Rows, ZenonT(30) DEF PipeFds
<1>9. CASE FileClose(p)
  <2>0. loc[p].pc = "close" /\ alive' = alive /\ ofile' = ofile
    BY <1>9, Zenon DEF FileClose, At
  <2>1. /\ [loc[p] EXCEPT !.f0 = NoSlot] \in Locations /\ [loc[p] EXCEPT !.f0 = NoSlot].pc = "close"
        /\ [loc[p] EXCEPT !.f1 = NoSlot] \in Locations /\ [loc[p] EXCEPT !.f1 = NoSlot].pc = "close"
    BY <1>0, <2>0, SMTT(30) DEF Locations
  <2>2. loc[p].pc # "fork" /\ loc[p].pc # "user" /\ OwnRow(p)
    BY <1>0, <2>0, Rows, SMTT(30)
  <2>3. ASSUME NEW s, NEW l \in Locations, fileclose(p, s, l), l.pc = "close" PROVE Acts(p)
    <3>1. l.pc # "fork"
      BY <2>3, SMTT(30)
    <3> QED
      BY <1>d, <2>0, <2>2, <2>3, <3>1, Zenon
  <2> QED
    BY <1>9, <2>1, <2>3, Zenon DEF FileClose
<1>10. CASE FileCloseRest(p)
  <2> DEFINE l == [loc[p] EXCEPT !.ff = NoFile]
  <2>1. l.pc = loc[p].pc
    BY <1>0 DEF Locations
  <2>2. Become(p, Settle(l)) /\ alive' = alive /\ ofile' = ofile
    BY <1>10, ZenonT(30) DEF FileCloseRest
  <2>3. loc[p].pc \in {"close", "exit"}
    <3>1. loc[p].ff.type # "NONE"
      BY <1>10, Zenon DEF FileCloseRest
    <3> QED
      BY <1>0, <3>1, SMTT(30) DEF LocOf
  <2> HIDE DEF l
  <2>4. Settle(l).pc # "fork"
    BY <2>1, <2>3, SMTT(30) DEF Settle, Idle
  <2> QED
    BY <1>0, <2>2, <2>3, <2>4, StaysBy, Rows, SMTT(30)
<1>11. CASE OpenPut(p)
  <2>0. loc[p].pc = "close" /\ alive' = alive /\ ofile' = ofile /\ Become(p, Idle)
    BY <1>11, Zenon DEF OpenPut, At
  <2> QED
    BY <1>0, <1>b, <2>0, Rows, SMTT(30)
<1>12. ASSUME NEW fd \in FDs, Dup(p, fd) PROVE Acts(p)
  BY <1>0, <1>12, <1>a, Rows, Zenon DEF Dup, Call, At
<1>13. ASSUME NEW fd \in FDs, Close(p, fd) PROVE Acts(p)
  <2>1. [Idle EXCEPT !.pc = "close"] \in Locations /\ [Idle EXCEPT !.pc = "close"].pc # "fork"
    BY Constants DEF Locations
  <2>2. OwnRow(p)
    BY <1>0, <1>13, Rows, Zenon DEF Close
  <2>3. loc[p].pc = "user" /\ p \in alive /\ alive' = alive
    BY <1>13, Zenon DEF Close, Call, At
  <2>4. fileclose(p, ofile[p][fd], [Idle EXCEPT !.pc = "close"])
    BY <1>13, ZenonT(30) DEF Close
  <2>5. loc[p].pc # "fork"
    BY <2>3
  <2> QED
    BY <1>d, <2>1, <2>2, <2>3, <2>4, <2>5, Zenon
<1>14. ASSUME NEW q \in Procs, Fork(p, q) PROVE Acts(p)
  <2>1. loc'[p] = [Idle EXCEPT !.pc = "fork", !.child = q] /\ Only(p)
    BY <1>0, <1>14, Becomes, Zenon DEF Fork
  <2>2. loc'[p].pc = "fork" /\ loc'[p].child = q /\ loc'[p].i = 0
    BY <2>1 DEF Idle
  <2>3. /\ loc[p].pc = "user" /\ p \in alive /\ alive' = alive /\ ofile' = ofile /\ q \notin alive
        /\ \A r \in Procs : ~Forking(r, q)
    BY <1>14, ZenonT(30) DEF Fork, Call, At, Forking
  <2>4. Begins(p, q)
    BY <2>2, <2>3 DEF Begins
  <2> QED
    BY <2>1, <2>4, ZenonT(30) DEF Acts, LifeOf
<1>15. CASE ForkDup(p)
  <2>0. loc[p].pc = "fork"
    BY <1>15, Zenon DEF ForkDup, At
  <2>1. CASE loc[p].i = NOFILE
    <3>1. alive' = alive \cup {loc[p].child} /\ Become(p, Idle) /\ ofile' = ofile
      <4>1. ~(loc[p].i < NOFILE)
        BY <2>1, SizeAssumption, SMTT(30)
      <4> QED
        BY <1>15, <4>1, ZenonT(30) DEF ForkDup
    <3>2. loc'[p] = Idle /\ Only(p)
      BY <1>0, <3>1, Becomes, Zenon
    <3> QED
      BY <2>0, <3>1, <3>2, Zenon DEF Acts, LifeOf, Begets
  <2>2. CASE loc[p].i # NOFILE
    <3> DEFINE fd == loc[p].i
               q == loc[p].child
    <3>1. fd \in 0 .. NOFILE - 1 /\ q \in Procs
      BY <1>0, <2>2, SizeAssumption, SMTT(30) DEF Locations
    <3>2. /\ alive' = alive /\ Become(p, [loc[p] EXCEPT !.i = fd + 1])
          /\ ofile' = [ofile EXCEPT ![q][fd] = ofile[p][fd]]
      BY <1>15, <2>2, Zenon DEF ForkDup
    <3>3. loc'[p] = [loc[p] EXCEPT !.i = fd + 1] /\ Only(p)
      BY <1>0, <3>2, Becomes, ZenonT(30)
    <3>4. loc'[p].pc = "fork" /\ loc'[p].child = q /\ loc'[p].i = fd + 1
      BY <1>0, <2>0, <3>3, SMTT(30) DEF Locations
    <3>5. \A r \in Procs, k \in FDs : r # q \/ k # fd => ofile'[r][k] = ofile[r][k]
      <4> HIDE DEF q, fd
      <4> QED
        BY <1>0, <3>1, <3>2, SMTT(30) DEF TypeOK, FDs
    <3>6. Hands(p, fd)
      BY <2>0, <3>2, <3>4, <3>5, ZenonT(30) DEF Hands
    <3> QED
      BY <3>1, <3>3, <3>6, ZenonT(30) DEF Acts, LifeOf
  <2> QED
    BY <2>1, <2>2, Zenon
<1>16. CASE Exit(p)
  <2>1. [Idle EXCEPT !.pc = "exit"].pc # "fork"
    BY DEF Idle
  <2>2. loc[p].pc = "user" /\ p \in alive /\ alive' = alive /\ ofile' = ofile
    BY <1>16, Zenon DEF Exit, Call, At
  <2>3. Become(p, [Idle EXCEPT !.pc = "exit"])
    BY <1>16, Zenon DEF Exit
  <2>4. loc[p].pc # "fork"
    BY <2>2
  <2> QED
    BY <1>e, <2>1, <2>2, <2>3, <2>4, Zenon
<1>17. CASE ExitClose(p)
  <2>0. loc[p].pc = "exit"
    BY <1>17, Zenon DEF ExitClose, At
  <2>1. ASSUME NEW fd \in FDs, fileclose(p, ofile[p][fd], loc[p]),
               ofile' = [ofile EXCEPT ![p][fd] = NoSlot], alive' = alive
        PROVE  Acts(p)
    <3>1. OwnRow(p)
      BY <1>0, <2>1, Rows, ZenonT(30)
    <3>2. loc[p].pc # "fork" /\ loc[p].pc # "user"
      BY <2>0
    <3> QED
      BY <1>0, <1>d, <2>1, <3>1, <3>2, Zenon
  <2>2. CASE FDs \ FreeFDs(p) = {} /\ alive' = alive \ {p} /\ Become(p, Idle) /\ ofile' = ofile
    <3>1. loc'[p] = Idle /\ Only(p)
      BY <1>0, <2>2, Becomes, Zenon
    <3>2. \A fd \in FDs : ofile[p][fd] = NoSlot
      BY <2>2, Zenon DEF FreeFDs
    <3> QED
      BY <2>0, <2>2, <3>1, <3>2, Zenon DEF Acts, LifeOf, Dies
  <2> QED
    BY <1>17, <2>1, <2>2, Zenon DEF ExitClose
<1>18. ASSUME NEW fd \in FDs, NEW bit, ReadWrite(p, fd, bit) PROVE Acts(p)
  <2>0. loc[p].pc = "user" /\ p \in alive /\ alive' = alive /\ ofile' = ofile
    BY <1>18, Zenon DEF ReadWrite, Call, At
  <2>1. CASE loc' = loc
    BY <1>0, <1>a, <2>0, <2>1, Rows, Zenon
  <2>2. CASE Become(p, [Idle EXCEPT !.pc = "rw", !.i = fd])
    <3>1. [Idle EXCEPT !.pc = "rw", !.i = fd].pc # "fork"
      BY SMTT(30) DEF Idle
    <3>2. loc[p].pc # "fork" /\ (loc[p].pc = "user" => p \in alive)
      BY <2>0
    <3> QED
      BY <1>e, <2>0, <2>2, <3>1, <3>2, ZenonT(30)
  <2> QED
    BY <1>18, <2>1, <2>2, Zenon DEF ReadWrite, Become
<1>19. ASSUME NEW i \in Inodes, NEW m, Chmod(p, i, m) PROVE Acts(p)
  BY <1>0, <1>19, <1>a, Rows, Zenon DEF Chmod, Call, At
<1>20. ASSUME NEW i \in Inodes, Exec(p, i) PROVE Acts(p)
  BY <1>0, <1>20, <1>a, Rows, ZenonT(30) DEF Exec, Call, At
<1>21. ASSUME NEW c, Block(p, c) \/ Unblock(p, c) PROVE Acts(p)
  BY <1>0, <1>21, <1>a, Rows, ZenonT(30) DEF Block, Unblock, Call, At
<1>22. CASE Step(p)
  BY <1>2, <1>3, <1>5, <1>6, <1>7, <1>8, <1>9, <1>10, <1>11, <1>15, <1>17, <1>22, Zenon DEF Step
<1>23. CASE Calls(p)
  BY <1>1, <1>4, <1>12, <1>13, <1>14, <1>16, <1>18, <1>19, <1>20, <1>21, <1>23, Zenon DEF Calls
<1> QED
  BY <1>22, <1>23

\* Each of them keeps the processes that are not alive out of the calls and without descriptors
LEMMA LiveStep ==
  ASSUME IInv, NEW p \in Procs, Acts(p)
  PROVE  LiveInv'
<1>0. LiveInv /\ TypeOK /\ loc[p] \in Locations
  BY DEF IInv, TypeOK
<1>1. \A r \in Procs : r # p => loc'[r] = loc[r]
  BY Zenon DEF Only, Acts
<1>2. \A r, q \in Procs : r # p => (Forking(r, q)' <=> Forking(r, q))
  BY <1>1, Zenon DEF Forking
<1>3. CASE Stays(p)
  <2>1. \A q \in Procs : ~Forking(p, q) /\ ~Forking(p, q)'
    BY <1>3, Zenon DEF Stays, Forking
  <2>2. \A r \in Procs : loc'[r].pc # "user" => r \in alive'
    BY <1>0, <1>1, <1>3, Zenon DEF LiveInv, Stays
  <2>3. ASSUME NEW r \in Procs, NEW q \in Procs, Forking(r, q)'
        PROVE  /\ q \notin alive'
               /\ \A t \in Procs : Forking(t, q)' => t = r
               /\ \A fd \in FDs : fd >= loc'[r].i => ofile'[q][fd] = NoSlot
    <3>1. r # p /\ Forking(r, q)
      BY <1>2, <2>1, <2>3, Zenon
    <3>2. /\ q \notin alive
          /\ \A t \in Procs : Forking(t, q) => t = r
          /\ \A fd \in FDs : fd >= loc[r].i => ofile[q][fd] = NoSlot
      BY <1>0, <3>1, Zenon DEF LiveInv
    <3>3. q # p
      BY <1>3, <3>2, Zenon DEF Stays
    <3>4. q \notin alive'
      BY <1>3, <3>2, Zenon DEF Stays
    <3>5. \A t \in Procs : Forking(t, q)' => t = r
      BY <1>2, <2>1, <3>2, Zenon
    <3>6. \A fd \in FDs : fd >= loc'[r].i => ofile'[q][fd] = NoSlot
      BY <1>1, <1>3, <3>1, <3>2, <3>3, ZenonT(30) DEF Stays, OwnRow
    <3> QED
      BY <3>4, <3>5, <3>6, SMTT(30)
  <2>4. ASSUME NEW q \in Procs \ alive', \A r \in Procs : ~Forking(r, q)'
        PROVE  \A fd \in FDs : ofile'[q][fd] = NoSlot
    <3>1. q \notin alive /\ q # p
      BY <1>3, Zenon DEF Stays
    <3>2. \A r \in Procs : ~Forking(r, q)
      BY <1>2, <2>1, <2>4, Zenon
    <3>3. \A fd \in FDs : ofile[q][fd] = NoSlot
      BY <1>0, <3>1, <3>2, Zenon DEF LiveInv
    <3>4. \A fd \in FDs : ofile'[q][fd] = ofile[q][fd]
      BY <1>3, <3>1, Zenon DEF Stays, OwnRow
    <3> QED
      BY <3>3, <3>4, Zenon
  <2> QED
    BY <2>2, <2>3, <2>4, Zenon DEF LiveInv, Forking
<1>4. ASSUME NEW c \in Procs, Begins(p, c) PROVE LiveInv'
  <2>0. /\ p \in alive /\ c \notin alive /\ alive' = alive /\ ofile' = ofile /\ loc[p].pc # "fork"
        /\ \A r \in Procs : ~Forking(r, c)
        /\ \A q \in Procs : Forking(p, q)' => q = c
    BY <1>4, Zenon DEF Begins, Forking
  <2>1. \A q \in Procs : ~Forking(p, q)
    BY <2>0, Zenon DEF Forking
  <2>2. \A r \in Procs : loc'[r].pc # "user" => r \in alive'
    BY <1>0, <1>1, <2>0, ZenonT(30) DEF LiveInv
  <2>3. ASSUME NEW r \in Procs, NEW q \in Procs, Forking(r, q)'
        PROVE  /\ q \notin alive'
               /\ \A t \in Procs : Forking(t, q)' => t = r
               /\ \A fd \in FDs : fd >= loc'[r].i => ofile'[q][fd] = NoSlot
    <3>1. CASE r = p
      <4>1. q = c
        BY <2>0, <2>3, <3>1, Zenon
      <4>2. \A fd \in FDs : ofile'[q][fd] = NoSlot
        BY <1>0, <2>0, <4>1, Zenon DEF LiveInv
      <4> QED
        BY <1>2, <2>0, <3>1, <4>1, <4>2, Zenon
    <3>2. CASE r # p
      <4>1. Forking(r, q) /\ q # c
        BY <1>2, <2>0, <2>3, <3>2, Zenon
      <4>2. \A fd \in FDs : fd >= loc'[r].i => ofile'[q][fd] = NoSlot
        <5>1. \A fd \in FDs : fd >= loc[r].i => ofile[q][fd] = NoSlot
          BY <1>0, <4>1, Zenon DEF LiveInv
        <5>2. loc'[r] = loc[r] /\ ofile' = ofile
          BY <1>1, <2>0, <3>2, Zenon
        <5> QED
          BY <5>1, <5>2, Zenon
      <4>3. q \notin alive' /\ \A t \in Procs : Forking(t, q) => t = r
        BY <1>0, <2>0, <4>1, Zenon DEF LiveInv
      <4> QED
        BY <1>2, <2>0, <4>1, <4>2, <4>3, Zenon
    <3> QED
      BY <3>1, <3>2
  <2>4. ASSUME NEW q \in Procs \ alive', \A r \in Procs : ~Forking(r, q)'
        PROVE  \A fd \in FDs : ofile'[q][fd] = NoSlot
    <3>1. \A r \in Procs : ~Forking(r, q)
      BY <1>2, <2>1, <2>4, Zenon
    <3> QED
      BY <1>0, <2>0, <3>1, Zenon DEF LiveInv
  <2> QED
    BY <2>2, <2>3, <2>4, Zenon DEF LiveInv, Forking
<1>5. ASSUME NEW k \in 0 .. NOFILE - 1, Hands(p, k) PROVE LiveInv'
  <2> DEFINE c == loc[p].child
  <2>0. /\ c \in Procs /\ Forking(p, c) /\ alive' = alive
        /\ loc[p].i = k /\ loc'[p].i = k + 1
        /\ \A r \in Procs, fd \in FDs : r # c \/ fd # k => ofile'[r][fd] = ofile[r][fd]
    BY <1>0, <1>5 DEF Hands, Forking, Locations
  <2>1. \A q \in Procs : (Forking(p, q) => q = c) /\ (Forking(p, q)' <=> q = c)
    BY <1>5, Zenon DEF Hands, Forking
  <2>a. loc[p].pc # "user"
    BY <1>5 DEF Hands
  <2> HIDE DEF c
  <2>2. \A r \in Procs : loc'[r].pc # "user" => r \in alive'
    BY <1>0, <1>1, <2>0, <2>a, Zenon DEF LiveInv
  <2>3. ASSUME NEW r \in Procs, NEW q \in Procs, Forking(r, q)'
        PROVE  /\ q \notin alive'
               /\ \A t \in Procs : Forking(t, q)' => t = r
               /\ \A fd \in FDs : fd >= loc'[r].i => ofile'[q][fd] = NoSlot
    <3>1. Forking(r, q)
      BY <1>2, <2>0, <2>1, <2>3, Zenon
    <3>2. /\ q \notin alive
          /\ \A t \in Procs : Forking(t, q) => t = r
          /\ \A fd \in FDs : fd >= loc[r].i => ofile[q][fd] = NoSlot
      BY <1>0, <3>1, Zenon DEF LiveInv
    <3>3. \A t \in Procs : Forking(t, q)' => t = r
      BY <1>2, <2>0, <2>1, <3>2, ZenonT(30)
    <3>4. \A fd \in FDs : fd >= loc'[r].i => ofile'[q][fd] = NoSlot
      <4>1. CASE r = p
        <5>1. q = c
          BY <2>1, <3>1, <4>1, Zenon
        <5>2. \A fd \in FDs : fd >= k => ofile[q][fd] = NoSlot
          BY <2>0, <3>2, <4>1, Zenon
        <5>3. \A fd \in FDs : fd >= k + 1 => fd >= k /\ fd # k
          BY DEF FDs
        <5> QED
          BY <2>0, <4>1, <5>2, <5>3, Zenon
      <4>2. CASE r # p
        <5>1. q # c
          BY <1>0, <2>0, <3>1, <4>2, Zenon DEF LiveInv
        <5> QED
          BY <1>1, <2>0, <3>2, <4>2, <5>1, Zenon
      <4> QED
        BY <4>1, <4>2
    <3> QED
      BY <2>0, <3>2, <3>3, <3>4, Zenon
  <2>4. ASSUME NEW q \in Procs \ alive', \A r \in Procs : ~Forking(r, q)'
        PROVE  \A fd \in FDs : ofile'[q][fd] = NoSlot
    <3>1. q # c
      BY <2>0, <2>1, <2>4, Zenon
    <3>2. \A r \in Procs : ~Forking(r, q)
      BY <1>2, <2>1, <2>4, <3>1, Zenon
    <3>3. q \notin alive
      BY <2>0, Zenon
    <3>4. \A fd \in FDs : ofile[q][fd] = NoSlot
      BY <1>0, <3>2, <3>3, Zenon DEF LiveInv
    <3>5. \A fd \in FDs : ofile'[q][fd] = ofile[q][fd]
      BY <2>0, <3>1, ZenonT(30)
    <3> QED
      BY <3>4, <3>5, Zenon
  <2> QED
    BY <2>2, <2>3, <2>4, ZenonT(30) DEF LiveInv, Forking
<1>6. CASE Begets(p)
  <2> DEFINE c == loc[p].child
  <2>0. c \in Procs /\ Forking(p, c) /\ alive' = alive \cup {c} /\ ofile' = ofile
    BY <1>0, <1>6, SMTT(30) DEF Begets, Forking, Locations
  <2>1. \A q \in Procs : (Forking(p, q) => q = c) /\ ~Forking(p, q)'
    BY <1>6, IdleFields DEF Begets, Forking
  <2>a. loc'[p].pc = "user"
    BY <1>6, IdleFields, Zenon DEF Begets
  <2> HIDE DEF c
  <2>2. \A r \in Procs : loc'[r].pc # "user" => r \in alive'
    BY <1>0, <1>1, <2>0, <2>a, Zenon DEF LiveInv
  <2>3. ASSUME NEW r \in Procs, NEW q \in Procs, Forking(r, q)'
        PROVE  /\ q \notin alive'
               /\ \A t \in Procs : Forking(t, q)' => t = r
               /\ \A fd \in FDs : fd >= loc'[r].i => ofile'[q][fd] = NoSlot
    <3>1. Forking(r, q) /\ r # p
      BY <1>2, <2>0, <2>1, <2>3, Zenon
    <3>2. /\ q \notin alive
          /\ \A t \in Procs : Forking(t, q) => t = r
          /\ \A fd \in FDs : fd >= loc[r].i => ofile[q][fd] = NoSlot
      BY <1>0, <3>1, Zenon DEF LiveInv
    <3>3. q # c
      BY <1>0, <2>0, <3>1, Zenon DEF LiveInv
    <3>4. \A t \in Procs : Forking(t, q)' => t = r
      BY <1>2, <2>1, <3>2, Zenon
    <3> QED
      BY <1>1, <2>0, <3>1, <3>2, <3>3, <3>4, Zenon
  <2>4. ASSUME NEW q \in Procs \ alive', \A r \in Procs : ~Forking(r, q)'
        PROVE  \A fd \in FDs : ofile'[q][fd] = NoSlot
    <3>1. q \notin alive /\ q # c
      BY <2>0, Zenon
    <3>2. \A r \in Procs : ~Forking(r, q)
      BY <1>2, <2>1, <2>4, <3>1, Zenon
    <3> QED
      BY <1>0, <2>0, <3>1, <3>2, Zenon DEF LiveInv
  <2> QED
    BY <2>2, <2>3, <2>4, Zenon DEF LiveInv, Forking
<1>7. CASE Dies(p)
  <2>0. /\ alive' = alive \ {p} /\ ofile' = ofile /\ loc'[p].pc = "user"
        /\ \A fd \in FDs : ofile[p][fd] = NoSlot
    BY <1>7, IdleFields, Zenon DEF Dies
  <2>1. \A q \in Procs : ~Forking(p, q) /\ ~Forking(p, q)'
    BY <1>7, <2>0 DEF Dies, Forking
  <2>2. \A r \in Procs : loc'[r].pc # "user" => r \in alive'
    BY <1>0, <1>1, <2>0, Zenon DEF LiveInv
  <2>3. ASSUME NEW r \in Procs, NEW q \in Procs, Forking(r, q)'
        PROVE  /\ q \notin alive'
               /\ \A t \in Procs : Forking(t, q)' => t = r
               /\ \A fd \in FDs : fd >= loc'[r].i => ofile'[q][fd] = NoSlot
    <3>1. Forking(r, q) /\ r # p
      BY <1>2, <2>1, <2>3, Zenon
    <3>2. /\ q \notin alive
          /\ \A t \in Procs : Forking(t, q) => t = r
          /\ \A fd \in FDs : fd >= loc[r].i => ofile[q][fd] = NoSlot
      BY <1>0, <3>1, Zenon DEF LiveInv
    <3>3. \A t \in Procs : Forking(t, q)' => t = r
      BY <1>2, <2>1, <3>2, Zenon
    <3> QED
      BY <1>1, <2>0, <3>1, <3>2, <3>3, Zenon
  <2>4. ASSUME NEW q \in Procs \ alive', \A r \in Procs : ~Forking(r, q)'
        PROVE  \A fd \in FDs : ofile'[q][fd] = NoSlot
    <3>2. \A r \in Procs : ~Forking(r, q)
      BY <1>2, <2>1, <2>4, Zenon
    <3> QED
      BY <1>0, <2>0, <3>2, Zenon DEF LiveInv
  <2> QED
    BY <2>2, <2>3, <2>4, Zenon DEF LiveInv, Forking
<1> QED
  BY <1>3, <1>4, <1>5, <1>6, <1>7, ZenonT(30) DEF Acts, LifeOf

----------------------------------------------------------------------------
\* Who holds a slot or an entry, and where the kernel panics

\* A subset of a finite set with a member
LEMMA Inhabited ==
  ASSUME NEW F, IsFiniteSet(F), NEW S \in SUBSET F
  PROVE  /\ Cardinality(S) \in Nat
         /\ Cardinality(S) = 0 => S = {}
         /\ \A x \in S : Cardinality(S) > 0 /\ (Cardinality(S) = 1 => S = {x})
<1>1. IsFiniteSet(S)
  BY FS_Subset, Zenon
<1>2. Cardinality(S) \in Nat
  BY <1>1, FS_CardinalityType, Zenon
<1>3. Cardinality(S) = 0 => S = {}
  BY <1>1, FS_EmptySet, Zenon
<1>4. Cardinality(S) = 1 => \E y : S = {y}
  BY <1>1, FS_Singleton, Zenon
<1> HIDE <1>1
<1>5. \A x \in S : Cardinality(S) # 0
  BY <1>3, Zenon
<1>6. \A x \in S : Cardinality(S) > 0
  BY <1>2, <1>5
<1>7. \A x \in S : Cardinality(S) = 1 => S = {x}
  BY <1>4, Zenon
<1> QED
  BY <1>2, <1>3, <1>6, <1>7, Zenon

\* A process has finitely many descriptors
LEMMA CellsFinite == IsFiniteSet(Procs \X FDs)
<1>1. IsFiniteSet(0 .. NOFILE - 1)
  BY SizeAssumption, FS_Interval
<1> QED
  BY <1>1, SizeAssumption, FS_Product, Zenon DEF FDs

\* The counts are numbers.
LEMMA SlotCounts ==
  ASSUME NEW s \in Slots
  PROVE  /\ Cardinality(Descriptors(s)) \in Nat
         /\ Cardinality(Firsts(s)) \in Nat /\ Cardinality(Seconds(s)) \in Nat
         /\ \A x \in Descriptors(s) : /\ Cardinality(Descriptors(s)) > 0
                                      /\ Cardinality(Descriptors(s)) = 1 => Descriptors(s) = {x}
         /\ \A x \in Firsts(s) : /\ Cardinality(Firsts(s)) > 0
                                 /\ Cardinality(Firsts(s)) = 1 => Firsts(s) = {x}
         /\ \A x \in Seconds(s) : /\ Cardinality(Seconds(s)) > 0
                                  /\ Cardinality(Seconds(s)) = 1 => Seconds(s) = {x}
<1>1. Descriptors(s) \in SUBSET (Procs \X FDs) /\ Firsts(s) \in SUBSET Procs /\ Seconds(s) \in SUBSET Procs
  BY Zenon DEF Descriptors, Firsts, Seconds
<1> QED
  BY <1>1, Inhabited, CellsFinite, SizeAssumption, Zenon

\* A slot that is referenced counts it, and with a count of one nothing else references it.
LEMMA Sole ==
  ASSUME TypeOK, SlotInv, NEW s \in Slots
  PROVE  /\ \A p \in Procs, fd \in FDs : ofile[p][fd] = s =>
              /\ file[s].ref > 0
              /\ file[s].ref = 1 =>
                   /\ \A q \in Procs, k \in FDs : ofile[q][k] = s => q = p /\ k = fd
                   /\ \A q \in Procs : loc[q].f0 # s /\ loc[q].f1 # s
         /\ \A p \in Procs : loc[p].f0 = s =>
              /\ file[s].ref > 0
              /\ file[s].ref = 1 =>
                   /\ \A q \in Procs, k \in FDs : ofile[q][k] # s
                   /\ \A q \in Procs : (loc[q].f0 = s => q = p) /\ loc[q].f1 # s
         /\ \A p \in Procs : loc[p].f1 = s =>
              /\ file[s].ref > 0
              /\ file[s].ref = 1 =>
                   /\ \A q \in Procs, k \in FDs : ofile[q][k] # s
                   /\ \A q \in Procs : (loc[q].f1 = s => q = p) /\ loc[q].f0 # s
<1> DEFINE D == Cardinality(Descriptors(s))
           U == Cardinality(Firsts(s))
           V == Cardinality(Seconds(s))
<1>1. D \in Nat /\ U \in Nat /\ V \in Nat /\ file[s].ref = D + U + V
  BY SlotCounts, Zenon DEF SlotInv
<1>2. \A p \in Procs, fd \in FDs : ofile[p][fd] = s <=> <<p, fd>> \in Descriptors(s)
  BY DEF Descriptors
<1>3. \A p \in Procs : (loc[p].f0 = s <=> p \in Firsts(s)) /\ (loc[p].f1 = s <=> p \in Seconds(s))
  BY Zenon DEF Firsts, Seconds
<1>4. \A p \in Procs, fd \in FDs : ofile[p][fd] = s =>
        D > 0 /\ (D = 1 => \A q \in Procs, k \in FDs : ofile[q][k] = s => q = p /\ k = fd)
  <2>1. SUFFICES ASSUME NEW p \in Procs, NEW fd \in FDs, ofile[p][fd] = s
        PROVE  D > 0 /\ (D = 1 => \A q \in Procs, k \in FDs : ofile[q][k] = s => q = p /\ k = fd)
    BY Zenon
  <2>2. D > 0 /\ (D = 1 => Descriptors(s) = {<<p, fd>>})
    BY <1>2, <2>1, SlotCounts, Zenon
  <2>3. ASSUME D = 1, NEW q \in Procs, NEW k \in FDs, ofile[q][k] = s PROVE q = p /\ k = fd
    <3>1. <<q, k>> \in {<<p, fd>>}
      BY <1>2, <2>2, <2>3, Zenon
    <3> QED
      BY <3>1
  <2> QED
    BY <2>2, <2>3, Zenon
<1>5. \A p \in Procs : loc[p].f0 = s => U > 0 /\ (U = 1 => \A q \in Procs : loc[q].f0 = s => q = p)
  <2>1. SUFFICES ASSUME NEW p \in Procs, loc[p].f0 = s
        PROVE  U > 0 /\ (U = 1 => \A q \in Procs : loc[q].f0 = s => q = p)
    BY Zenon
  <2>2. U > 0 /\ (U = 1 => Firsts(s) = {p})
    BY <1>3, <2>1, SlotCounts, Zenon
  <2> QED
    BY <1>3, <2>2, Zenon
<1>6. \A p \in Procs : loc[p].f1 = s => V > 0 /\ (V = 1 => \A q \in Procs : loc[q].f1 = s => q = p)
  <2>1. SUFFICES ASSUME NEW p \in Procs, loc[p].f1 = s
        PROVE  V > 0 /\ (V = 1 => \A q \in Procs : loc[q].f1 = s => q = p)
    BY Zenon
  <2>2. V > 0 /\ (V = 1 => Seconds(s) = {p})
    BY <1>3, <2>1, SlotCounts, Zenon
  <2> QED
    BY <1>3, <2>2, Zenon
<1> HIDE DEF D, U, V
<1>7. /\ D > 0 \/ U > 0 \/ V > 0 => file[s].ref > 0
      /\ file[s].ref = 1 => /\ D > 0 => D = 1 /\ ~(U > 0) /\ ~(V > 0)
                            /\ U > 0 => U = 1 /\ ~(D > 0) /\ ~(V > 0)
                            /\ V > 0 => V = 1 /\ ~(D > 0) /\ ~(U > 0)
  BY <1>1, SMT
<1> HIDE <1>1
<1>8. \A p \in Procs, fd \in FDs : ofile[p][fd] = s =>
        /\ file[s].ref > 0
        /\ file[s].ref = 1 => /\ \A q \in Procs, k \in FDs : ofile[q][k] = s => q = p /\ k = fd
                              /\ \A q \in Procs : loc[q].f0 # s /\ loc[q].f1 # s
  BY <1>4, <1>5, <1>6, <1>7, Zenon
<1>9. \A p \in Procs : loc[p].f0 = s =>
        /\ file[s].ref > 0
        /\ file[s].ref = 1 => /\ \A q \in Procs, k \in FDs : ofile[q][k] # s
                              /\ \A q \in Procs : (loc[q].f0 = s => q = p) /\ loc[q].f1 # s
  BY <1>4, <1>5, <1>6, <1>7, Zenon
<1>10. \A p \in Procs : loc[p].f1 = s =>
        /\ file[s].ref > 0
        /\ file[s].ref = 1 => /\ \A q \in Procs, k \in FDs : ofile[q][k] # s
                              /\ \A q \in Procs : (loc[q].f1 = s => q = p) /\ loc[q].f0 # s
  BY <1>4, <1>5, <1>6, <1>7, Zenon
<1> QED
  BY <1>8, <1>9, <1>10, Zenon

\* The counts behind an entry
LEMMA KindCounts ==
  ASSUME NEW k, NEW v
  PROVE  /\ Cardinality(FilesOf(k, v)) \in Nat /\ Cardinality(CopiesOf(k, v)) \in Nat
         /\ \A s \in Slots : IsOf(file[s], k, v) => Cardinality(FilesOf(k, v)) > 0
         /\ \A p \in Procs : IsOf(loc[p].ff, k, v) => Cardinality(CopiesOf(k, v)) > 0
<1>1. FilesOf(k, v) \in SUBSET Slots /\ CopiesOf(k, v) \in SUBSET Procs
  BY Zenon DEF FilesOf, CopiesOf
<1>2. /\ Cardinality(FilesOf(k, v)) \in Nat /\ Cardinality(CopiesOf(k, v)) \in Nat
      /\ \A x \in FilesOf(k, v) : Cardinality(FilesOf(k, v)) > 0
      /\ \A x \in CopiesOf(k, v) : Cardinality(CopiesOf(k, v)) > 0
  BY <1>1, Inhabited, SizeAssumption, Zenon
<1>3. /\ \A s \in Slots : IsOf(file[s], k, v) => s \in FilesOf(k, v)
      /\ \A p \in Procs : IsOf(loc[p].ff, k, v) => p \in CopiesOf(k, v)
  BY Zenon DEF FilesOf, CopiesOf
<1> QED
  BY <1>2, <1>3, Zenon

\* An entry that an open file, a copy of one or a call uses is referenced.
LEMMA EntryHeld ==
  ASSUME TypeOK, EntryInv, NEW e \in Entries
  PROVE  /\ \A s \in Slots : IsOf(file[s], "INODE", e) => icache[e].ref > 0
         /\ \A p \in Procs : IsOf(loc[p].ff, "INODE", e) \/ loc[p].e = e => icache[e].ref > 0
<1> DEFINE F == Cardinality(FilesOf("INODE", e))
           C == Cardinality(CopiesOf("INODE", e))
           O == Cardinality(Opening(e))
<1>1. /\ F \in Nat /\ C \in Nat
      /\ \A s \in Slots : IsOf(file[s], "INODE", e) => F > 0
      /\ \A p \in Procs : IsOf(loc[p].ff, "INODE", e) => C > 0
  BY KindCounts, Zenon
<1>2. O \in Nat /\ \A p \in Opening(e) : O > 0
  <2>1. Opening(e) \in SUBSET Procs
    BY Zenon DEF Opening
  <2> QED
    BY <2>1, Inhabited, SizeAssumption, Zenon
<1>3. \A p \in Procs : loc[p].e = e => O > 0
  BY <1>2, Zenon DEF Opening
<1>4. icache[e].ref = F + C + O + leaked[e] /\ leaked[e] \in Nat
  BY Zenon DEF EntryInv, TypeOK
<1> HIDE DEF F, C, O
<1>5. F > 0 \/ C > 0 \/ O > 0 => icache[e].ref > 0
  BY <1>1, <1>2, <1>4, SMT
<1> HIDE <1>4
<1> QED
  BY <1>1, <1>3, <1>5, Zenon

\* No call but read and write panics: fileclose and filedup find a reference, and read and
\* write find the inode of every file that is one.
LEMMA PanicStep ==
  ASSUME IInv, NEW p \in Procs, Step(p) \/ Calls(p)
  PROVE  PanicsOnlyAtPipeMode'
<1>0. /\ TypeOK /\ SlotInv /\ EntryInv /\ LocOf(p) /\ KindInv
      /\ loc[p] \in Locations /\ \A s \in Slots : file[s] \in Files
  BY DEF IInv, TypeOK, LocInv
<1>a. ASSUME panicked' = FALSE \/ ~panicked' PROVE PanicsOnlyAtPipeMode'
  BY <1>a, Zenon DEF PanicsOnlyAtPipeMode
<1>b. ASSUME ~panicked, panicked' = panicked PROVE PanicsOnlyAtPipeMode'
  BY <1>b, Zenon DEF PanicsOnlyAtPipeMode
<1>c. ASSUME NEW s \in Slots, filedup(s), file[s].ref > 0 PROVE ~panicked'
  <2>1. ~(file[s].ref < 1)
    BY <1>0, <1>c DEF Files
  <2>2. panicked' = (file[s].ref < 1)
    BY <1>c, ZenonT(30) DEF filedup
  <2> QED
    BY <2>1, <2>2, ZenonT(30)
<1>d. ASSUME NEW s \in Slots, NEW l, fileclose(p, s, l), file[s].ref > 0 PROVE ~panicked'
  <2>1. ~(file[s].ref < 1)
    BY <1>0, <1>d DEF Files
  <2>2. panicked' = (file[s].ref < 1)
    BY <1>d, ZenonT(30) DEF fileclose
  <2> QED
    BY <2>1, <2>2, Zenon
<1>e. \A r \in Procs, fd \in FDs : ofile[r][fd] # NoSlot =>
        ofile[r][fd] \in Slots /\ file[ofile[r][fd]].ref > 0
  <2>1. \A s \in Slots : \A r \in Procs, fd \in FDs : ofile[r][fd] = s => file[s].ref > 0
    BY <1>0, Sole, ZenonT(30)
  <2>2. \A r \in Procs, fd \in FDs : ofile[r][fd] # NoSlot => ofile[r][fd] \in Slots
    BY <1>0, SMTT(30) DEF TypeOK
  <2> QED
    BY <2>1, <2>2, ZenonT(30)
<1>1. CASE \/ OpenFile(p) \/ OpenFd(p) \/ PipeFile1(p) \/ PipeNoMemory(p) \/ PipeFds(p)
           \/ FileCloseRest(p) \/ OpenPut(p)
  BY <1>1, <1>b, Zenon DEF OpenFile, OpenFd, PipeFile1, PipeNoMemory, PipeFds, FileCloseRest, OpenPut, At
<1>2. ASSUME NEW q \in Pipes, PipeInit(p, q) PROVE PanicsOnlyAtPipeMode'
  BY <1>2, <1>b, Zenon DEF PipeInit, At
<1>3. CASE FileClose(p)
  <2>1. \A s \in Slots : loc[p].f0 = s \/ loc[p].f1 = s => file[s].ref > 0
    BY <1>0, Sole, SMTT(30)
  <2>2. loc[p].f0 \in Slots \cup {NoSlot} /\ loc[p].f1 \in Slots \cup {NoSlot}
    BY <1>0 DEF Locations
  <2>3. PICK s \in Slots : (\E l : fileclose(p, s, l)) /\ file[s].ref > 0
    <3>1. CASE loc[p].f0 # NoSlot /\ fileclose(p, loc[p].f0, [loc[p] EXCEPT !.f0 = NoSlot])
      BY <2>1, <2>2, <3>1, Zenon
    <3>2. CASE loc[p].f1 # NoSlot /\ fileclose(p, loc[p].f1, [loc[p] EXCEPT !.f1 = NoSlot])
      BY <2>1, <2>2, <3>2, Zenon
    <3> QED
      BY <1>3, <3>1, <3>2, Zenon DEF FileClose
  <2> QED
    BY <1>a, <1>d, <2>3, ZenonT(30)
<1>4. CASE ForkDup(p)
  <2>0. ~panicked /\ loc[p].pc = "fork"
    BY <1>4, Zenon DEF ForkDup, At
  <2>1. CASE panicked' = panicked
    BY <1>b, <2>0, <2>1, Zenon
  <2>2. CASE loc[p].i < NOFILE /\ ofile[p][loc[p].i] # NoSlot /\ filedup(ofile[p][loc[p].i])
    <3>1. loc[p].i \in FDs
      BY <1>0, <2>2, SizeAssumption, SMTT(30) DEF Locations, FDs
    <3>2. ofile[p][loc[p].i] \in Slots /\ file[ofile[p][loc[p].i]].ref > 0
      BY <1>e, <2>2, <3>1, Zenon
    <3> QED
      BY <1>a, <1>c, <2>2, <3>2, ZenonT(30)
  <2> QED
    BY <1>4, <2>1, <2>2, Zenon DEF ForkDup
<1>5. CASE ExitClose(p)
  <2>0. ~panicked
    BY <1>5, Zenon DEF ExitClose, At
  <2>1. CASE panicked' = panicked
    BY <1>b, <2>0, <2>1, Zenon
  <2>2. ASSUME NEW fd \in FDs, First(fd, FDs \ FreeFDs(p)), fileclose(p, ofile[p][fd], loc[p])
        PROVE  ~panicked'
    <3>1. ofile[p][fd] # NoSlot
      BY <2>2, Zenon DEF First, FreeFDs
    <3> QED
      BY <1>d, <1>e, <2>2, <3>1, Zenon
  <2> QED
    BY <1>5, <1>a, <2>1, <2>2, Zenon DEF ExitClose
<1>6. ASSUME NEW i \in Inodes, NEW acc, NEW creat, Open(p, i, acc, creat) PROVE PanicsOnlyAtPipeMode'
  BY <1>6, <1>b, Zenon DEF Open, Call, At
<1>7. ASSUME NEW s \in FreeSlots, PipeFile0(p, s) PROVE PanicsOnlyAtPipeMode'
  BY <1>7, <1>b, Zenon DEF PipeFile0, Call, At
<1>8. ASSUME NEW fd \in FDs, Dup(p, fd) PROVE PanicsOnlyAtPipeMode'
  BY <1>8, <1>a, <1>c, <1>e, Zenon DEF Dup, argfd
<1>9. ASSUME NEW fd \in FDs, Close(p, fd) PROVE PanicsOnlyAtPipeMode'
  BY <1>9, <1>a, <1>d, <1>e, Zenon DEF Close, argfd
<1>10. ASSUME NEW q \in Procs, Fork(p, q) PROVE PanicsOnlyAtPipeMode'
  BY <1>10, <1>b, Zenon DEF Fork, Call, At
<1>11. CASE Exit(p)
  BY <1>11, <1>b, ZenonT(30) DEF Exit, Call, At
<1>12. ASSUME NEW fd \in FDs, NEW bit, ReadWrite(p, fd, bit) PROVE PanicsOnlyAtPipeMode'
  <2> DEFINE s == ofile[p][fd]
             e == file[s].ip
  <2>0. s \in Slots /\ s # NoSlot /\ file' = file /\ ofile' = ofile
    BY <1>e, <1>12, Zenon DEF ReadWrite, argfd
  <2>1. file[s].type # "NONE" /\ file[s] \in Files
    BY <1>0, <2>0, Zenon DEF KindInv
  <2>2. CASE file[s].type = "INODE"
    <3>1. e \in Entries /\ IsOf(file[s], "INODE", e)
      BY <1>0, <2>0, <2>2, SMTT(30) DEF KindInv, IsOf
    <3>2. icache[e].ref > 0 /\ icache[e].ref \in Nat /\ e # 0
      <4> HIDE DEF e, s
      <4>1. icache[e].ref > 0
        BY <1>0, <2>0, <3>1, EntryHeld, ZenonT(30)
      <4>2. icache[e].ref \in Nat /\ e # 0
        BY <1>0, <3>1, SizeAssumption, SMTT(30) DEF TypeOK, Entries
      <4> QED
        BY <4>1, <4>2
    <3>3. ~(e = 0 \/ icache[e].ref < 1)
      <4> HIDE DEF e, s
      <4> QED
        BY <3>2
    <3>4. ~TransferPanics(s)
      BY <2>2 DEF TransferPanics
    <3>5. panicked' = IF e = 0 \/ icache[e].ref < 1 THEN TRUE
                      ELSE bit \in mode[icache[e].inum] /\ TransferPanics(s)
      BY <1>12, Zenon DEF ReadWrite
    <3> HIDE DEF e, s
    <3>6. panicked' = FALSE
      BY <3>3, <3>4, <3>5, Zenon
    <3> QED
      BY <1>a, <3>6, ZenonT(30)
  <2>3. CASE file[s].type # "INODE"
    <3>1. file[s].type \in Ends
      <4> HIDE DEF s
      <4> QED
        BY <2>1, <2>3 DEF Files, Ends
    <3>2. ASSUME panicked' PROVE PanicsOnlyAtPipeMode'
      <4>1. Become(p, [Idle EXCEPT !.pc = "rw", !.i = fd])
        BY <1>12, <3>2, Zenon DEF ReadWrite, Become
      <4>2. loc'[p] = [Idle EXCEPT !.pc = "rw", !.i = fd]
        BY <1>0, <4>1, Becomes, Zenon
      <4>3. loc'[p].pc = "rw" /\ loc'[p].i = fd
        BY <4>2 DEF Idle
      <4>4. file'[ofile'[p][loc'[p].i]].type \in Ends
        BY <2>0, <3>1, <4>3, Zenon
      <4> QED
        BY <4>3, <4>4, Zenon DEF PanicsOnlyAtPipeMode
    <3> QED
      BY <1>a, <3>2, Zenon
  <2> QED
    BY <2>2, <2>3
<1>13. ASSUME NEW i \in Inodes, NEW m, Chmod(p, i, m) \/ Exec(p, i) PROVE PanicsOnlyAtPipeMode'
  BY <1>13, <1>b, Zenon DEF Chmod, Exec, Call, At
<1>14. ASSUME NEW c, Block(p, c) \/ Unblock(p, c) PROVE PanicsOnlyAtPipeMode'
  BY <1>14, <1>b, Zenon DEF Block, Unblock, Call, At
<1>15. CASE Step(p)
  BY <1>1, <1>2, <1>3, <1>4, <1>5, <1>15, Zenon DEF Step
<1>16. CASE Calls(p)
  BY <1>6, <1>7, <1>8, <1>9, <1>10, <1>11, <1>12, <1>13, <1>14, <1>16, Zenon DEF Calls
<1> QED
  BY <1>15, <1>16

----------------------------------------------------------------------------
\* Types

\* A call that settles holds what it held.
LEMMA Settles ==
  ASSUME NEW l \in Locations
  PROVE  /\ Settle(l) \in Locations
         /\ Settle(l).f0 = l.f0 /\ Settle(l).f1 = l.f1 /\ Settle(l).e = l.e
         /\ Settle(l).ff.type = l.ff.type
         /\ l.ff.type # "NONE" => Settle(l) = l
<1>1. CASE Settle(l) = l
  BY <1>1, Zenon
<1>2. CASE Settle(l) # l
  <2>1. Settle(l) = Idle /\ l.f0 = NoSlot /\ l.f1 = NoSlot /\ l.ff.type = "NONE" /\ l.e = 0
    BY <1>2, Zenon DEF Settle
  <2>2. Idle.f0 = NoSlot /\ Idle.f1 = NoSlot /\ Idle.ff.type = "NONE" /\ Idle.e = 0
    BY DEF Idle, NoFile
  <2> QED
    BY <2>1, <2>2, Constants, Zenon
<1> QED
  BY <1>1, <1>2

\* Updates of one slot, one entry and one descriptor
LEMMA Updates ==
  ASSUME TypeOK
  PROVE  /\ \A s \in Slots : \A g \in Files : [file EXCEPT ![s] = g] \in [Slots -> Files]
         /\ \A e \in Entries : \A g \in [inum : Inodes, ref : Nat] :
              [icache EXCEPT ![e] = g] \in [Entries -> [inum : Inodes, ref : Nat]]
         /\ \A q \in Procs, fd \in FDs : \A s \in Slots \cup {NoSlot} :
              [ofile EXCEPT ![q][fd] = s] \in [Procs -> [FDs -> Slots \cup {NoSlot}]]
BY DEF TypeOK

\* Every action keeps the types of the variables
LEMMA TypeStep ==
  ASSUME IInv, NEW p \in Procs, Step(p) \/ Calls(p)
  PROVE  TypeOK'
<1>0. /\ TypeOK /\ SlotInv /\ EntryInv /\ LocInv
      /\ loc[p] \in Locations /\ \A s \in Slots : file[s] \in Files
  BY DEF IInv, TypeOK
<1>1. ASSUME NEW i \in Inodes, NEW e \in Entries, iget(i, e)
      PROVE  icache' \in [Entries -> [inum : Inodes, ref : Nat]]
  <2>1. [inum |-> i, ref |-> icache[e].ref + 1] \in [inum : Inodes, ref : Nat]
    BY <1>0 DEF TypeOK
  <2>2. icache' = [icache EXCEPT ![e] = [inum |-> i, ref |-> icache[e].ref + 1]]
    BY <1>1 DEF iget
  <2> QED
    BY <1>0, <2>1, <2>2, Updates, Zenon
<1>2. ASSUME NEW s \in Slots, NEW r \in Nat
      PROVE  [file EXCEPT ![s].ref = r] \in [Slots -> Files]
  BY <1>0, Zenon DEF TypeOK, Files
<1>3. ASSUME Abandon(p) PROVE loc' \in [Procs -> Locations]
  <2>1. [loc[p] EXCEPT !.pc = "close"] \in Locations
    BY <1>0 DEF Locations
  <2> QED
    BY <1>0, <1>3, <2>1, Becomes DEF Abandon
<1>4. ASSUME NEW s \in Slots, NEW l \in Locations, fileclose(p, s, l), file[s].ref > 0
      PROVE  /\ file' \in [Slots -> Files] /\ loc' \in [Procs -> Locations]
             /\ panicked' \in BOOLEAN
  <2>1. file[s].ref - 1 \in Nat /\ ~(file[s].ref < 1)
    BY <1>0, <1>4 DEF TypeOK, Files
  <2>2. file' \in [Slots -> Files]
    <3> DEFINE h == [file[s] EXCEPT !.ref = file[s].ref - 1,
                                    !.type = IF file[s].ref = 1 THEN "NONE" ELSE file[s].type]
    <3>1. h \in Files
      BY <1>0, <2>1, Zenon DEF Files
    <3>2. file' = [file EXCEPT ![s] = h]
      BY <1>4, Zenon DEF fileclose
    <3> HIDE DEF h
    <3> QED
      BY <1>0, <3>1, <3>2, Updates, Zenon
  <2> DEFINE g == IF file[s].ref = 1 THEN [file[s] EXCEPT !.ref = 0] ELSE NoFile
             k == [l EXCEPT !.ff = g]
  <2>3. g \in Files
    BY <1>0, Constants DEF Files
  <2>4. k \in Locations
    <3> HIDE DEF g
    <3> QED
      BY <2>3 DEF Locations
  <2>5. Become(p, Settle(k))
    BY <1>4 DEF fileclose
  <2> HIDE DEF k
  <2>6. loc' \in [Procs -> Locations]
    BY <1>0, <2>4, <2>5, Settles, Becomes, Zenon
  <2> QED
    BY <2>2, <2>6, <1>4 DEF fileclose
<1>5. ASSUME NEW i \in Inodes, NEW acc, NEW creat, Open(p, i, acc, creat) PROVE TypeOK'
  <2>1. PICK e \in Entries : iget(i, e) /\ Become(p, [Idle EXCEPT !.pc = "filealloc", !.e = e])
    BY <1>5, Zenon DEF Open
  <2>2. e \in 0 .. NINODE
    BY SizeAssumption DEF Entries
  <2>3. [Idle EXCEPT !.pc = "filealloc", !.e = e] \in Locations
    BY <2>2, Constants, Zenon DEF Locations
  <2> QED
    BY <1>0, <1>1, <1>5, <2>1, <2>3, Becomes, Zenon DEF Open, TypeOK
<1>6. CASE OpenFile(p)
  <2>1. CASE FreeSlots = {} /\ Abandon(p) /\ UNCHANGED file
    BY <1>0, <1>3, <1>6, <2>1, Zenon DEF OpenFile, TypeOK
  <2>2. ASSUME NEW s \in FreeSlots, file' = [file EXCEPT ![s].ref = 1],
               Become(p, [loc[p] EXCEPT !.pc = "fdalloc", !.f0 = s])
        PROVE  TypeOK'
    <3>1. s \in Slots
      BY DEF FreeSlots
    <3>2. [loc[p] EXCEPT !.pc = "fdalloc", !.f0 = s] \in Locations
      BY <1>0, <3>1, Zenon DEF Locations
    <3>3. file' \in [Slots -> Files] /\ loc' \in [Procs -> Locations]
      BY <1>0, <1>2, <2>2, <3>1, <3>2, Becomes
    <3> QED
      BY <1>0, <1>6, <3>3, Zenon DEF OpenFile, TypeOK
  <2> QED
    BY <1>6, <2>1, <2>2, Zenon DEF OpenFile
<1>7. CASE OpenFd(p)
  <2>1. CASE FreeFDs(p) = {} /\ Abandon(p) /\ UNCHANGED <<ofile, file>>
    BY <1>0, <1>3, <1>7, <2>1, Zenon DEF OpenFd, TypeOK
  <2>2. ASSUME NEW fd \in FDs, ofile' = [ofile EXCEPT ![p][fd] = loc[p].f0],
               file' = [file EXCEPT ![loc[p].f0] = [@ EXCEPT !.type = "INODE", !.ip = loc[p].e]],
               Become(p, Idle)
        PROVE  TypeOK'
    <3>1. loc[p].f0 \in Slots
      BY <1>0, <1>7 DEF OpenFd, At, LocInv, LocOf, Locations
    <3>2. file' \in [Slots -> Files]
      <4>1. loc[p].e \in 0 .. NINODE
        BY <1>0 DEF Locations
      <4>2. [file[loc[p].f0] EXCEPT !.type = "INODE", !.ip = loc[p].e] \in Files
        BY <1>0, <3>1, <4>1, Zenon DEF Files
      <4> QED
        BY <1>0, <2>2, <3>1, <4>2, Updates, Zenon
    <3>3. ofile' \in [Procs -> [FDs -> Slots \cup {NoSlot}]]
      BY <1>0, <2>2, <3>1 DEF TypeOK
    <3> QED
      BY <1>0, <1>7, <2>2, <3>2, <3>3, Becomes, Constants, ZenonT(30) DEF OpenFd, TypeOK
  <2> QED
    BY <1>7, <2>1, <2>2, Zenon DEF OpenFd
<1>8. ASSUME NEW s \in FreeSlots, PipeFile0(p, s) PROVE TypeOK'
  <2>1. s \in Slots
    BY DEF FreeSlots
  <2>2. [Idle EXCEPT !.pc = "pipe1", !.f0 = s] \in Locations
    BY <2>1, Constants, Zenon DEF Locations
  <2>3. file' \in [Slots -> Files] /\ loc' \in [Procs -> Locations]
    BY <1>0, <1>2, <1>8, <2>1, <2>2, Becomes, SMTT(30) DEF PipeFile0
  <2> QED
    BY <1>0, <1>8, <2>3, Zenon DEF PipeFile0, TypeOK
<1>9. CASE PipeFile1(p)
  <2>1. CASE FreeSlots = {} /\ Abandon(p) /\ UNCHANGED file
    BY <1>0, <1>3, <1>9, <2>1, Zenon DEF PipeFile1, TypeOK
  <2>2. ASSUME NEW s \in FreeSlots, file' = [file EXCEPT ![s].ref = 1],
               Become(p, [loc[p] EXCEPT !.pc = "pipe2", !.f1 = s])
        PROVE  TypeOK'
    <3>1. s \in Slots
      BY DEF FreeSlots
    <3>2. [loc[p] EXCEPT !.pc = "pipe2", !.f1 = s] \in Locations
      BY <1>0, <3>1, ZenonT(30) DEF Locations
    <3>3. file' \in [Slots -> Files] /\ loc' \in [Procs -> Locations]
      BY <1>0, <1>2, <2>2, <3>1, <3>2, Becomes
    <3> QED
      BY <1>0, <1>9, <3>3, Zenon DEF PipeFile1, TypeOK
  <2> QED
    BY <1>9, <2>1, <2>2, Zenon DEF PipeFile1
<1>10. CASE PipeNoMemory(p)
  BY <1>0, <1>3, <1>10, Zenon DEF PipeNoMemory, TypeOK
<1>11. ASSUME NEW q \in Pipes, PipeInit(p, q) PROVE TypeOK'
  <2>1. [loc[p] EXCEPT !.pc = "pipefd"] \in Locations
    BY <1>0 DEF Locations
  <2>2. loc' \in [Procs -> Locations]
    BY <1>0, <1>11, <2>1, Becomes, Zenon DEF PipeInit
  <2>3. file' \in [Slots -> Files]
    <3>1. \A s \in Slots : \A t \in Ends : [file[s] EXCEPT !.type = t, !.pipe = q] \in Files
      BY <1>0, Zenon DEF Files, Ends
    <3>2. "READEND" \in Ends /\ "WRITEEND" \in Ends
      BY DEF Ends
    <3> QED
      BY <1>0, <1>11, <3>1, <3>2, Zenon DEF PipeInit
  <2>4. pipe' \in [Pipes -> [readopen : BOOLEAN, writeopen : BOOLEAN]]
    BY <1>0, <1>11, Zenon DEF PipeInit, TypeOK
  <2> QED
    BY <1>0, <1>11, <2>2, <2>3, <2>4, Zenon DEF PipeInit, TypeOK
<1>12. CASE PipeFds(p)
  <2>1. CASE Cardinality(FreeFDs(p)) < 2 /\ Abandon(p) /\ UNCHANGED ofile
    BY <1>0, <1>3, <1>12, <2>1, Zenon DEF PipeFds, TypeOK
  <2>2. ASSUME NEW fd0 \in FDs, NEW fd1 \in FDs,
               ofile' = [ofile EXCEPT ![p][fd0] = loc[p].f0, ![p][fd1] = loc[p].f1],
               Become(p, Idle)
        PROVE  TypeOK'
    <3>1. loc[p].f0 \in Slots \cup {NoSlot} /\ loc[p].f1 \in Slots \cup {NoSlot}
      BY <1>0 DEF Locations
    <3>2. ofile' \in [Procs -> [FDs -> Slots \cup {NoSlot}]]
      BY <1>0, <2>2, <3>1 DEF TypeOK
    <3> QED
      BY <1>0, <1>12, <2>2, <3>2, Becomes, Constants, Zenon DEF PipeFds, TypeOK
  <2> QED
    BY <1>12, <2>1, <2>2, Zenon DEF PipeFds
<1>13. CASE FileClose(p)
  <2>1. ASSUME loc[p].f0 # NoSlot, fileclose(p, loc[p].f0, [loc[p] EXCEPT !.f0 = NoSlot])
        PROVE  TypeOK'
    <3>1. loc[p].f0 \in Slots /\ [loc[p] EXCEPT !.f0 = NoSlot] \in Locations
      BY <1>0, <2>1, SMTT(30) DEF Locations
    <3>2. file[loc[p].f0].ref > 0
      BY <1>0, <3>1, Sole, Zenon
    <3>3. /\ file' \in [Slots -> Files] /\ loc' \in [Procs -> Locations]
          /\ panicked' \in BOOLEAN
      BY <1>4, <2>1, <3>1, <3>2, Zenon
    <3> QED
      BY <1>0, <1>13, <3>3, Zenon DEF FileClose, TypeOK
  <2>2. ASSUME loc[p].f1 # NoSlot, fileclose(p, loc[p].f1, [loc[p] EXCEPT !.f1 = NoSlot])
        PROVE  TypeOK'
    <3>1. loc[p].f1 \in Slots /\ [loc[p] EXCEPT !.f1 = NoSlot] \in Locations
      BY <1>0, <2>2, SMTT(30) DEF Locations
    <3>2. file[loc[p].f1].ref > 0
      BY <1>0, <3>1, Sole, Zenon
    <3>3. /\ file' \in [Slots -> Files] /\ loc' \in [Procs -> Locations]
          /\ panicked' \in BOOLEAN
      BY <1>4, <2>2, <3>1, <3>2, ZenonT(30)
    <3> QED
      BY <1>0, <1>13, <3>3, Zenon DEF FileClose, TypeOK
  <2> QED
    BY <1>13, <2>1, <2>2, Zenon DEF FileClose
<1>14. CASE FileCloseRest(p)
  <2>1. [loc[p] EXCEPT !.ff = NoFile] \in Locations
    BY <1>0, Constants, SMTT(30) DEF Locations
  <2>2. loc' \in [Procs -> Locations]
    BY <1>0, <1>14, <2>1, Settles, Becomes, ZenonT(30) DEF FileCloseRest
  <2>3. loc[p].ff.pipe \in Pipes
    BY <1>0 DEF Locations, Files
  <2>4. CASE loc[p].ff.type \in Ends /\ UNCHANGED icache
    <3>1. pipe' \in [Pipes -> [readopen : BOOLEAN, writeopen : BOOLEAN]]
      <4>1. \/ pipe' = [pipe EXCEPT ![loc[p].ff.pipe].writeopen = FALSE]
            \/ pipe' = [pipe EXCEPT ![loc[p].ff.pipe].readopen = FALSE]
        BY <1>14, <2>4, ZenonT(30) DEF FileCloseRest, Ends
      <4> QED
        <5> DEFINE q == loc[p].ff.pipe
                   P == [readopen : BOOLEAN, writeopen : BOOLEAN]
        <5>1. pipe \in [Pipes -> P] /\ pipe[q] \in P
          BY <1>0, <2>3, Zenon DEF TypeOK
        <5>2. [pipe[q] EXCEPT !.writeopen = FALSE] \in P /\ [pipe[q] EXCEPT !.readopen = FALSE] \in P
          <6> HIDE DEF q
          <6> QED
            BY <5>1, ZenonT(30)
        <5>3. \/ pipe' = [pipe EXCEPT ![q] = [pipe[q] EXCEPT !.writeopen = FALSE]]
              \/ pipe' = [pipe EXCEPT ![q] = [pipe[q] EXCEPT !.readopen = FALSE]]
          BY <4>1
        <5>4. \A g \in P : [pipe EXCEPT ![q] = g] \in [Pipes -> P]
          <6> HIDE DEF q, P
          <6> QED
            BY <5>1, <2>3, ZenonT(30)
        <5> QED
          BY <5>2, <5>3, <5>4, Zenon
    <3> QED
      BY <1>0, <1>14, <2>2, <2>4, <3>1, Zenon DEF FileCloseRest, TypeOK
  <2>5. CASE loc[p].ff.type = "INODE"
    <3>1. loc[p].ff.ip \in Entries /\ IsOf(loc[p].ff, "INODE", loc[p].ff.ip)
      BY <1>0, <2>5, Zenon DEF LocInv, LocOf, IsOf
    <3>2. icache[loc[p].ff.ip].ref > 0
      BY <1>0, <3>1, EntryHeld, Zenon
    <3>3. /\ icache' = [icache EXCEPT ![loc[p].ff.ip] =
                           [icache[loc[p].ff.ip] EXCEPT !.ref = icache[loc[p].ff.ip].ref - 1]]
          /\ pipe' = pipe
      BY <1>14, <2>5, ZenonT(30) DEF FileCloseRest, Ends
    <3>4. [icache[loc[p].ff.ip] EXCEPT !.ref = icache[loc[p].ff.ip].ref - 1] \in [inum : Inodes, ref : Nat]
      BY <1>0, <3>1, <3>2, SMTT(30) DEF TypeOK
    <3>5. icache' \in [Entries -> [inum : Inodes, ref : Nat]]
      BY <1>0, <3>1, <3>3, <3>4, Updates, Zenon
    <3> QED
      BY <1>0, <1>14, <2>2, <3>3, <3>5, Zenon DEF FileCloseRest, TypeOK
  <2> QED
    BY <1>14, <2>4, <2>5, ZenonT(30) DEF FileCloseRest
<1>15. CASE OpenPut(p)
  <2>1. loc[p].e \in Entries
    BY <1>0, <1>15, SizeAssumption DEF OpenPut, At, LocInv, LocOf, Locations, Entries
  <2>2. icache[loc[p].e].ref > 0
    BY <1>0, <2>1, EntryHeld, Zenon
  <2>3. [icache[loc[p].e] EXCEPT !.ref = icache[loc[p].e].ref - 1] \in [inum : Inodes, ref : Nat]
    BY <1>0, <2>1, <2>2 DEF TypeOK
  <2>4. icache' = [icache EXCEPT ![loc[p].e] = [icache[loc[p].e] EXCEPT !.ref = icache[loc[p].e].ref - 1]]
    BY <1>15 DEF OpenPut
  <2>5. icache' \in [Entries -> [inum : Inodes, ref : Nat]]
    BY <1>0, <2>1, <2>3, <2>4, Updates, Zenon
  <2> QED
    BY <1>0, <1>15, <2>5, Becomes, Constants, Zenon DEF OpenPut, TypeOK
<1>16. ASSUME NEW s \in Slots, filedup(s), file[s].ref > 0
       PROVE  file' \in [Slots -> Files] /\ panicked' \in BOOLEAN
  <2>1. file[s].ref + 1 \in Nat /\ ~(file[s].ref < 1)
    BY <1>0, <1>16 DEF TypeOK, Files
  <2> QED
    BY <1>2, <1>16, <2>1 DEF filedup
<1>17. ASSUME NEW fd \in FDs, Dup(p, fd) PROVE TypeOK'
  <2>1. ofile[p][fd] \in Slots
    BY <1>0, <1>17 DEF Dup, argfd, TypeOK
  <2>2. file[ofile[p][fd]].ref > 0
    BY <1>0, <2>1, Sole, Zenon
  <2>3. file' \in [Slots -> Files] /\ panicked' \in BOOLEAN
    BY <1>16, <1>17, <2>1, <2>2, Zenon DEF Dup
  <2>4. ofile' \in [Procs -> [FDs -> Slots \cup {NoSlot}]]
    <3>1. PICK new \in FDs : ofile' = [ofile EXCEPT ![p][new] = ofile[p][fd]]
      BY <1>17, Zenon DEF Dup
    <3>2. ofile[p][fd] \in Slots \cup {NoSlot}
      BY <2>1
    <3> QED
      BY <1>0, <3>1, <3>2, Updates, Zenon
  <2> QED
    BY <1>0, <1>17, <2>3, <2>4, Zenon DEF Dup, TypeOK
<1>18. ASSUME NEW fd \in FDs, Close(p, fd) PROVE TypeOK'
  <2>0. [Idle EXCEPT !.pc = "close"] \in Locations
    BY Constants DEF Locations
  <2>1. ofile[p][fd] \in Slots
    BY <1>0, <1>18 DEF Close, argfd, TypeOK
  <2>2. file[ofile[p][fd]].ref > 0
    BY <1>0, <2>1, Sole, Zenon
  <2>3. /\ file' \in [Slots -> Files] /\ loc' \in [Procs -> Locations]
        /\ panicked' \in BOOLEAN
    BY <1>4, <1>18, <2>0, <2>1, <2>2, Zenon DEF Close
  <2>4. ofile' \in [Procs -> [FDs -> Slots \cup {NoSlot}]]
    BY <1>0, <1>18, Zenon DEF Close, TypeOK
  <2> QED
    BY <1>0, <1>18, <2>3, <2>4, Zenon DEF Close, TypeOK
<1>19. ASSUME NEW q \in Procs, Fork(p, q) PROVE TypeOK'
  <2>1. [Idle EXCEPT !.pc = "fork", !.child = q] \in Locations
    BY Constants, Zenon DEF Locations
  <2> QED
    BY <1>0, <1>19, <2>1, Becomes, Constants, Zenon DEF Fork, TypeOK
<1>20. CASE ForkDup(p)
  <2> DEFINE q == loc[p].child
             fd == loc[p].i
             s == ofile[p][fd]
  <2>1. q \in Procs /\ fd \in 0 .. NOFILE
    BY <1>0 DEF Locations
  <2>2. CASE fd < NOFILE
    <3>1. fd \in FDs /\ fd + 1 \in 0 .. NOFILE /\ fd # NOFILE
      BY <2>1, <2>2, SizeAssumption DEF FDs
    <3>2. s \in Slots \cup {NoSlot}
      BY <1>0, <3>1 DEF TypeOK
    <3>3. file' \in [Slots -> Files] /\ panicked' \in BOOLEAN
      <4>1. CASE s = NoSlot
        BY <1>0, <1>20, <3>1, <4>1, Zenon DEF ForkDup, TypeOK
      <4>2. CASE s \in Slots
        <5>1. file[s].ref > 0
          BY <1>0, <3>1, <4>2, Sole, Zenon
        <5>2. filedup(s)
          BY <1>20, <3>1, <4>2, SlotAssumption DEF ForkDup
        <5> QED
          BY <1>16, <4>2, <5>1, <5>2, Zenon
      <4> QED
        BY <3>2, <4>1, <4>2
    <3>4. ofile' \in [Procs -> [FDs -> Slots \cup {NoSlot}]]
      <4>1. ofile' = [ofile EXCEPT ![q][fd] = s]
        BY <1>20, <3>1 DEF ForkDup
      <4> QED
        BY <1>0, <2>1, <3>1, <3>2, <4>1, Updates, Zenon
    <3>5. [loc[p] EXCEPT !.i = fd + 1] \in Locations
      BY <1>0, <3>1 DEF Locations
    <3>6. loc' \in [Procs -> Locations]
      BY <1>0, <1>20, <3>1, <3>5, Becomes DEF ForkDup
    <3> QED
      BY <1>0, <1>20, <3>1, <3>3, <3>4, <3>6, Zenon DEF ForkDup, TypeOK
  <2>3. CASE fd = NOFILE
    <3>1. ~(fd < NOFILE)
      BY <2>3, SizeAssumption
    <3>2. Become(p, Idle) /\ alive' = alive \cup {q} /\ UNCHANGED <<file, ofile, panicked>>
      BY <1>20, <3>1, Zenon DEF ForkDup
    <3> QED
      BY <1>0, <1>20, <2>1, <3>2, Becomes, Constants, Zenon DEF ForkDup, TypeOK
  <2> QED
    BY <1>20, <2>2, <2>3 DEF ForkDup
<1>21. CASE Exit(p)
  <2>1. [Idle EXCEPT !.pc = "exit"] \in Locations
    BY Constants DEF Locations
  <2> QED
    BY <1>0, <1>21, <2>1, Becomes, Constants, Zenon DEF Exit, TypeOK
<1>22. CASE ExitClose(p)
  <2>1. CASE FDs \ FreeFDs(p) = {} /\ alive' = alive \ {p} /\ Become(p, Idle)
             /\ UNCHANGED <<ofile, file, panicked>>
    BY <1>0, <1>22, <2>1, Becomes, Constants, Zenon DEF ExitClose, TypeOK
  <2>2. ASSUME NEW fd \in FDs, First(fd, FDs \ FreeFDs(p)), fileclose(p, ofile[p][fd], loc[p]),
               ofile' = [ofile EXCEPT ![p][fd] = NoSlot], alive' = alive
        PROVE  TypeOK'
    <3>1. ofile[p][fd] \in Slots
      BY <1>0, <2>2 DEF First, FreeFDs, TypeOK
    <3>2. file[ofile[p][fd]].ref > 0
      BY <1>0, <3>1, Sole, Zenon
    <3>3. /\ file' \in [Slots -> Files] /\ loc' \in [Procs -> Locations]
          /\ panicked' \in BOOLEAN
      BY <1>0, <1>4, <2>2, <3>1, <3>2, Zenon
    <3>4. ofile' \in [Procs -> [FDs -> Slots \cup {NoSlot}]]
      BY <1>0, <2>2 DEF TypeOK
    <3> QED
      BY <1>0, <1>22, <2>2, <3>3, <3>4, Zenon DEF ExitClose, TypeOK
  <2> QED
    BY <1>22, <2>1, <2>2, Zenon DEF ExitClose
<1>23. ASSUME NEW fd \in FDs, NEW bit, ReadWrite(p, fd, bit) PROVE TypeOK'
  <2>0. fd \in 0 .. NOFILE
    BY SizeAssumption DEF FDs
  <2>1. [Idle EXCEPT !.pc = "rw", !.i = fd] \in Locations
    BY <2>0, Constants, Zenon DEF Locations
  <2>2. loc' \in [Procs -> Locations]
    BY <1>0, <1>23, <2>1, Zenon DEF ReadWrite, TypeOK
  <2>3. panicked' \in BOOLEAN
    BY <1>23, Zenon DEF ReadWrite
  <2> QED
    BY <1>0, <1>23, <2>2, <2>3, Zenon DEF ReadWrite, TypeOK
<1>24. ASSUME NEW i \in Inodes, Leak(i)
       PROVE  /\ icache' \in [Entries -> [inum : Inodes, ref : Nat]]
              /\ leaked' \in [Entries -> Nat]
  BY <1>0, <1>1, <1>24 DEF Leak, TypeOK
<1>25. ASSUME NEW i \in Inodes, NEW m \in Modes, Chmod(p, i, m) PROVE TypeOK'
  <2>1. mode' \in [Inodes -> SUBSET Bits]
    BY <1>0, <1>25, ModeAssumption DEF Chmod, TypeOK, Bits
  <2> QED
    BY <1>0, <1>24, <1>25, <2>1, Zenon DEF Chmod, TypeOK
<1>26. ASSUME NEW i \in Inodes, Exec(p, i) PROVE TypeOK'
  BY <1>0, <1>24, <1>26, Zenon DEF Exec, TypeOK
<1>27. ASSUME NEW c \in BlockIds, Block(p, c) \/ Unblock(p, c) PROVE TypeOK'
  BY <1>0, <1>27 DEF Block, Unblock, TypeOK
<1>28. CASE Step(p)
  BY <1>6, <1>7, <1>9, <1>10, <1>11, <1>12, <1>13, <1>14, <1>15, <1>20, <1>22, <1>28, Zenon DEF Step
<1>29. CASE Calls(p)
  BY <1>5, <1>8, <1>17, <1>18, <1>19, <1>21, <1>23, <1>25, <1>26, <1>27, <1>29, Zenon DEF Calls
<1> QED
  BY <1>28, <1>29

----------------------------------------------------------------------------
\* What a call holds

SameFile(f, g) == f.type = g.type /\ f.pipe = g.pipe /\ f.ip = g.ip
Lone(s) == \A t \in Slots \ {s} : file'[t] = file[t]

SameSlots(p) == loc'[p].f0 = loc[p].f0 /\ loc'[p].f1 = loc[p].f1

\* filealloc and filedup change one count.
LEMMA RefView ==
  ASSUME TypeOK, NEW s \in Slots, NEW n, file' = [file EXCEPT ![s].ref = n]
  PROVE  file'[s].ref = n /\ SameFile(file'[s], file[s]) /\ Lone(s)
<1>1. file[s] \in Files /\ file \in [Slots -> Files]
  BY DEF TypeOK
<1>2. file'[s] = [file[s] EXCEPT !.ref = n] /\ Lone(s)
  BY <1>1, Zenon DEF Lone
<1>3. [file[s] EXCEPT !.ref = n].ref = n /\ SameFile([file[s] EXCEPT !.ref = n], file[s])
  BY <1>1 DEF Files, SameFile
<1> QED
  BY <1>2, <1>3, Zenon

\* A failing call goes to give back what it holds
LEMMA AbandonView ==
  ASSUME TypeOK, NEW p \in Procs, Abandon(p)
  PROVE  /\ Only(p) /\ SameSlots(p) /\ loc'[p].e = loc[p].e /\ loc'[p].ff = loc[p].ff
         /\ loc'[p].pc = "close"
<1>1. loc[p] \in Locations
  BY DEF TypeOK
<1>2. loc'[p] = [loc[p] EXCEPT !.pc = "close"] /\ Only(p)
  BY Becomes, Zenon DEF Abandon
<1> QED
  BY <1>1, <1>2 DEF Locations, SameSlots

\* The locations where a call holds nothing, or gives back what it holds
LEMMA IdleLoc ==
  ASSUME NEW p \in Procs, loc'[p] = Idle
  PROVE  LocOf(p)'
<1>1. /\ loc'[p].pc = "user" /\ loc'[p].e = 0 /\ loc'[p].f0 = NoSlot /\ loc'[p].f1 = NoSlot
      /\ loc'[p].ff.type = "NONE"
  BY IdleFields, Zenon
<1> QED
  BY <1>1, SMT DEF LocOf

\* fork, exit, and read or write hold no slot outside of the descriptors
LEMMA PlainLoc ==
  ASSUME NEW p \in Procs, NEW l, loc'[p] = l, l.pc \in {"fork", "exit", "rw"},
         l.e = 0, l.f0 = NoSlot, l.f1 = NoSlot, l.ff.type = "NONE" \/ l.pc = "exit",
         l.ff.type = "INODE" => l.ff.ip \in Entries
  PROVE  LocOf(p)'
BY SMTT(30) DEF LocOf

\* A call that gives back has something to give back
LEMMA CloseLoc ==
  ASSUME NEW p \in Procs, loc'[p].pc = "close",
         loc'[p].ff.type = "INODE" => loc'[p].ff.ip \in Entries,
         loc'[p].f0 # NoSlot \/ loc'[p].f1 # NoSlot \/ loc'[p].ff.type # "NONE" \/ loc'[p].e # 0
  PROVE  LocOf(p)'
BY SMT DEF LocOf

\* A call goes on giving back, or returns
LEMMA SettleLoc ==
  ASSUME NEW p \in Procs, NEW l \in Locations, loc'[p] = Settle(l),
         l.ff.type = "INODE" => l.ff.ip \in Entries,
         \/ l.pc = "close"
         \/ l.pc = "exit" /\ l.f0 = NoSlot /\ l.f1 = NoSlot /\ l.e = 0
  PROVE  LocOf(p)'
<1>1. CASE Settle(l) = Idle
  BY <1>1, IdleLoc, Zenon
<1>2. CASE Settle(l) # Idle /\ l.pc = "close"
  <2>1. /\ Settle(l) = l
        /\ l.f0 # NoSlot \/ l.f1 # NoSlot \/ l.ff.type # "NONE" \/ l.e # 0
    BY <1>2, Zenon DEF Settle
  <2>2. loc'[p] = l
    BY <2>1, Zenon
  <2> QED
    BY <1>2, <2>1, <2>2, CloseLoc, SMTT(30)
<1>3. CASE l.pc = "exit" /\ l.f0 = NoSlot /\ l.f1 = NoSlot /\ l.e = 0
  <2>1. Settle(l) = l
    BY <1>3 DEF Settle
  <2> QED
    BY <1>3, <2>1, PlainLoc, SMTT(30)
<1> QED
  BY <1>1, <1>2, <1>3, Zenon

\* fileclose leaves its caller with the copy of a freed slot, or with the rest
LEMMA FilecloseLoc ==
  ASSUME TypeOK, KindInv, NEW p \in Procs, NEW s \in Slots, NEW l \in Locations, fileclose(p, s, l),
         l.pc = "close" \/ (l.pc = "exit" /\ l.f0 = NoSlot /\ l.f1 = NoSlot /\ l.e = 0)
  PROVE  LocOf(p)'
<1> DEFINE g == IF file[s].ref = 1 THEN [file[s] EXCEPT !.ref = 0] ELSE NoFile
           m == [l EXCEPT !.ff = g]
<1>1. file[s] \in Files /\ (file[s].type = "INODE" => file[s].ip \in Entries)
  BY Zenon DEF TypeOK, KindInv
<1>2. g \in Files
  BY <1>1, Constants DEF Files
<1>3. g.type = "INODE" => g.ip \in Entries
  BY <1>1 DEF Files, NoFile
<1>4. Become(p, Settle(m))
  BY DEF fileclose
<1>5. m \in Locations /\ m.pc = l.pc /\ m.f0 = l.f0 /\ m.f1 = l.f1 /\ m.e = l.e /\ m.ff = g
  <2> HIDE DEF g
  <2> QED
    BY <1>2 DEF Locations
<1> HIDE DEF m, g
<1>6. loc'[p] = Settle(m)
  BY <1>4, Becomes, Zenon
<1>7. /\ m.ff.type = "INODE" => m.ff.ip \in Entries
      /\ m.pc = "close" \/ (m.pc = "exit" /\ m.f0 = NoSlot /\ m.f1 = NoSlot /\ m.e = 0)
  BY <1>3, <1>5, SMT
<1> QED
  BY <1>5, <1>6, <1>7, SettleLoc, Zenon

\* Every action leaves its own call with what the next location says
LEMMA LocStep ==
  ASSUME IInv, NEW p \in Procs, Step(p) \/ Calls(p)
  PROVE  LocOf(p)'
<1>0. /\ TypeOK /\ SlotInv /\ LocInv /\ LocOf(p) /\ KindInv
      /\ loc[p] \in Locations /\ \A s \in Slots : file[s] \in Files
  BY DEF IInv, TypeOK, LocInv
<1>a. ASSUME loc' = loc, loc[p].pc = "user" PROVE LocOf(p)'
  <2>1. loc'[p] = Idle
    BY <1>0, <1>a, Zenon DEF LocOf
  <2> QED
    BY <2>1, IdleLoc, Zenon
<1>b. ASSUME Become(p, Idle) PROVE LocOf(p)'
  <2>1. loc'[p] = Idle
    BY <1>0, <1>b, Becomes, ZenonT(30)
  <2> QED
    BY <2>1, IdleLoc, Zenon
<1>c. ASSUME Abandon(p), loc[p].f0 # NoSlot \/ loc[p].e # 0, loc[p].ff.type = "NONE"
      PROVE  LocOf(p)'
  <2>1. SameSlots(p) /\ loc'[p].e = loc[p].e /\ loc'[p].ff = loc[p].ff /\ loc'[p].pc = "close"
    BY <1>0, <1>c, AbandonView, ZenonT(30)
  <2> QED
    BY <1>c, <2>1, CloseLoc, SMTT(30) DEF SameSlots
<1>1. ASSUME NEW i \in Inodes, NEW acc, NEW creat, Open(p, i, acc, creat) PROVE LocOf(p)'
  <2>1. PICK e \in Entries : Become(p, [Idle EXCEPT !.pc = "filealloc", !.e = e])
    BY <1>1, Zenon DEF Open
  <2>2. loc'[p] = [Idle EXCEPT !.pc = "filealloc", !.e = e]
    BY <1>0, <2>1, Becomes, Zenon
  <2>3. /\ loc'[p].pc = "filealloc" /\ loc'[p].f0 = NoSlot /\ loc'[p].f1 = NoSlot /\ loc'[p].e = e
        /\ loc'[p].ff.type = "NONE"
    BY <2>2 DEF Idle, NoFile
  <2>4. e # 0
    BY SizeAssumption DEF Entries
  <2> QED
    BY <2>3, <2>4, SMTT(30) DEF LocOf
<1>2. CASE OpenFile(p)
  <2>0. /\ loc[p].pc = "filealloc" /\ loc[p].f1 = NoSlot /\ loc[p].ff.type = "NONE" /\ loc[p].e # 0
    <3>1. loc[p].pc = "filealloc"
      BY <1>2, Zenon DEF OpenFile, At
    <3> QED
      BY <1>0, <3>1, SMTT(30) DEF LocOf
  <2>1. CASE FreeSlots = {} /\ Abandon(p) /\ UNCHANGED file
    BY <1>c, <2>0, <2>1, ZenonT(30)
  <2>2. ASSUME NEW s \in FreeSlots, file' = [file EXCEPT ![s].ref = 1],
               Become(p, [loc[p] EXCEPT !.pc = "fdalloc", !.f0 = s])
        PROVE  LocOf(p)'
    <3>1. s \in Slots /\ file[s].ref = 0 /\ s # NoSlot
      BY SlotAssumption DEF FreeSlots
    <3>2. loc'[p] = [loc[p] EXCEPT !.pc = "fdalloc", !.f0 = s]
      BY <1>0, <2>2, Becomes, Zenon
    <3>3. /\ loc'[p].pc = "fdalloc" /\ loc'[p].f0 = s /\ loc'[p].f1 = loc[p].f1 /\ loc'[p].e = loc[p].e
          /\ loc'[p].ff = loc[p].ff
      BY <1>0, <3>2, SMTT(30) DEF Locations
    <3>4. file'[s].ref = 1 /\ file'[s].type = "NONE"
      BY <1>0, <2>2, <3>1, RefView, ZenonT(30) DEF SameFile, KindInv
    <3> QED
      BY <2>0, <3>1, <3>3, <3>4, SMTT(30) DEF LocOf
  <2> QED
    BY <1>2, <2>1, <2>2, ZenonT(30) DEF OpenFile
<1>3. CASE OpenFd(p)
  <2>0. loc[p].f0 # NoSlot /\ loc[p].ff.type = "NONE"
    BY <1>0, <1>3, SMTT(30) DEF OpenFd, At, LocOf
  <2> QED
    BY <1>3, <1>b, <1>c, <2>0, Zenon DEF OpenFd
<1>4. ASSUME NEW s \in FreeSlots, PipeFile0(p, s) PROVE LocOf(p)'
  <2>1. s \in Slots /\ file[s].ref = 0 /\ s # NoSlot
    BY SlotAssumption DEF FreeSlots
  <2>2. loc'[p] = [Idle EXCEPT !.pc = "pipe1", !.f0 = s]
    BY <1>0, <1>4, Becomes, Zenon DEF PipeFile0
  <2>3. /\ loc'[p].pc = "pipe1" /\ loc'[p].f0 = s /\ loc'[p].f1 = NoSlot /\ loc'[p].e = 0
        /\ loc'[p].ff.type = "NONE"
    BY <2>2 DEF Idle, NoFile
  <2>4. file'[s].ref = 1 /\ file'[s].type = "NONE"
    BY <1>0, <1>4, <2>1, RefView, ZenonT(30) DEF SameFile, KindInv, PipeFile0
  <2> QED
    BY <2>1, <2>3, <2>4, SMTT(30) DEF LocOf
<1>5. CASE PipeFile1(p)
  <2>0. /\ loc[p].pc = "pipe1" /\ loc[p].f0 \in Slots /\ loc[p].f0 # NoSlot /\ loc[p].f1 = NoSlot
        /\ loc[p].ff.type = "NONE" /\ loc[p].e = 0
        /\ file[loc[p].f0].ref = 1 /\ file[loc[p].f0].type = "NONE"
    <3>1. loc[p].pc = "pipe1"
      BY <1>5, Zenon DEF PipeFile1, At
    <3>2. loc[p].f0 \in Slots \cup {NoSlot}
      BY <1>0 DEF Locations
    <3> QED
      BY <1>0, <3>1, <3>2, SMTT(30) DEF LocOf
  <2>1. CASE FreeSlots = {} /\ Abandon(p) /\ UNCHANGED file
    BY <1>c, <2>0, <2>1, ZenonT(30)
  <2>2. ASSUME NEW s \in FreeSlots, file' = [file EXCEPT ![s].ref = 1],
               Become(p, [loc[p] EXCEPT !.pc = "pipe2", !.f1 = s])
        PROVE  LocOf(p)'
    <3>1. s \in Slots /\ file[s].ref = 0 /\ s # NoSlot
      BY SlotAssumption DEF FreeSlots
    <3>2. loc'[p] = [loc[p] EXCEPT !.pc = "pipe2", !.f1 = s]
      BY <1>0, <2>2, Becomes, Zenon
    <3>3. /\ loc'[p].pc = "pipe2" /\ loc'[p].f0 = loc[p].f0 /\ loc'[p].f1 = s /\ loc'[p].e = loc[p].e
          /\ loc'[p].ff = loc[p].ff
      BY <1>0, <3>2 DEF Locations
    <3>4. file'[s].ref = 1 /\ file'[s].type = "NONE" /\ Lone(s)
      BY <1>0, <2>2, <3>1, RefView, ZenonT(30) DEF SameFile, KindInv
    <3>5. file'[loc[p].f0] = file[loc[p].f0]
      BY <2>0, <3>1, <3>4 DEF Lone
    <3> QED
      BY <2>0, <3>1, <3>3, <3>4, <3>5, SMTT(30) DEF LocOf
  <2> QED
    BY <1>5, <2>1, <2>2, Zenon DEF PipeFile1
<1>6. CASE PipeNoMemory(p)
  <2>0. loc[p].f0 # NoSlot /\ loc[p].ff.type = "NONE"
    BY <1>0, <1>6, SMTT(30) DEF PipeNoMemory, At, LocOf
  <2> QED
    BY <1>6, <1>c, <2>0, ZenonT(30) DEF PipeNoMemory
<1>7. ASSUME NEW q \in Pipes, PipeInit(p, q) PROVE LocOf(p)'
  <2>0. /\ loc[p].f0 \in Slots /\ loc[p].f0 # NoSlot /\ loc[p].f1 \in Slots /\ loc[p].f1 # NoSlot
        /\ loc[p].ff.type = "NONE" /\ loc[p].e = 0
    <3>1. loc[p].pc = "pipe2"
      BY <1>7, ZenonT(30) DEF PipeInit, At
    <3>2. loc[p].f0 \in Slots \cup {NoSlot} /\ loc[p].f1 \in Slots \cup {NoSlot}
      BY <1>0 DEF Locations
    <3> QED
      BY <1>0, <3>1, <3>2, SMTT(30) DEF LocOf
  <2>1. loc'[p] = [loc[p] EXCEPT !.pc = "pipefd"]
    BY <1>0, <1>7, Becomes, Zenon DEF PipeInit
  <2>2. /\ loc'[p].pc = "pipefd" /\ loc'[p].f0 = loc[p].f0 /\ loc'[p].f1 = loc[p].f1
        /\ loc'[p].e = loc[p].e /\ loc'[p].ff = loc[p].ff
    BY <1>0, <2>1 DEF Locations
  <2>3. file'[loc[p].f0].type # "NONE" /\ file'[loc[p].f1].type # "NONE"
    <3>1. \A s \in Slots : \A t : [file[s] EXCEPT !.type = t, !.pipe = q].type = t
      BY <1>0 DEF Files
    <3>2. ASSUME NEW s \in Slots, s \in {loc[p].f0, loc[p].f1} PROVE file'[s].type # "NONE"
      <4>1. file'[s] = [file[s] EXCEPT !.type = IF s = loc[p].f0 THEN "READEND" ELSE "WRITEEND", !.pipe = q]
        BY <1>7, <3>2, Zenon DEF PipeInit
      <4> QED
        BY <3>1, <4>1
    <3> QED
      BY <2>0, <3>2, Zenon
  <2> QED
    BY <2>0, <2>2, <2>3, SMTT(30) DEF LocOf
<1>8. CASE PipeFds(p)
  <2>0. loc[p].f0 # NoSlot /\ loc[p].ff.type = "NONE"
    BY <1>0, <1>8, SMTT(30) DEF PipeFds, At, LocOf
  <2> QED
    BY <1>8, <1>b, <1>c, <2>0, ZenonT(30) DEF PipeFds
<1>9. CASE FileClose(p)
  <2>0. loc[p].pc = "close"
    BY <1>9, Zenon DEF FileClose, At
  <2>1. ASSUME loc[p].f0 # NoSlot, fileclose(p, loc[p].f0, [loc[p] EXCEPT !.f0 = NoSlot]) PROVE LocOf(p)'
    <3>1. /\ loc[p].f0 \in Slots /\ [loc[p] EXCEPT !.f0 = NoSlot] \in Locations
          /\ [loc[p] EXCEPT !.f0 = NoSlot].pc = "close"
      BY <1>0, <2>0, <2>1, SMTT(30) DEF Locations
    <3> QED
      BY <1>0, <2>1, <3>1, FilecloseLoc, Zenon
  <2>2. ASSUME loc[p].f1 # NoSlot, fileclose(p, loc[p].f1, [loc[p] EXCEPT !.f1 = NoSlot]) PROVE LocOf(p)'
    <3>1. /\ loc[p].f1 \in Slots /\ [loc[p] EXCEPT !.f1 = NoSlot] \in Locations
          /\ [loc[p] EXCEPT !.f1 = NoSlot].pc = "close"
      BY <1>0, <2>0, <2>2, SMTT(30) DEF Locations
    <3> QED
      BY <1>0, <2>2, <3>1, FilecloseLoc, Zenon
  <2> QED
    BY <1>9, <2>1, <2>2, Zenon DEF FileClose
<1>10. CASE FileCloseRest(p)
  <2> DEFINE l == [loc[p] EXCEPT !.ff = NoFile]
  <2>1. l \in Locations
    BY <1>0, Constants DEF Locations
  <2>2. l.pc = loc[p].pc /\ l.f0 = loc[p].f0 /\ l.f1 = loc[p].f1 /\ l.e = loc[p].e /\ l.ff.type = "NONE"
    BY <1>0, SMTT(30) DEF Locations, NoFile
  <2>3. \/ loc[p].pc = "close"
        \/ loc[p].pc = "exit" /\ loc[p].f0 = NoSlot /\ loc[p].f1 = NoSlot /\ loc[p].e = 0
    <3>1. loc[p].ff.type # "NONE"
      BY <1>10, Zenon DEF FileCloseRest
    <3> HIDE DEF l
    <3> QED
      BY <1>0, <3>1, SMTT(30) DEF LocOf
  <2>4. Become(p, Settle(l))
    BY <1>10, Zenon DEF FileCloseRest
  <2> HIDE DEF l
  <2>5. loc'[p] = Settle(l)
    BY <1>0, <2>4, Becomes, ZenonT(30)
  <2>6. /\ l.ff.type = "INODE" => l.ff.ip \in Entries
        /\ l.pc = "close" \/ (l.pc = "exit" /\ l.f0 = NoSlot /\ l.f1 = NoSlot /\ l.e = 0)
    BY <2>2, <2>3, SMT
  <2> QED
    BY <2>1, <2>5, <2>6, SettleLoc, Zenon
<1>11. CASE OpenPut(p)
  BY <1>11, <1>b, Zenon DEF OpenPut
<1>12. ASSUME NEW fd \in FDs, Dup(p, fd) PROVE LocOf(p)'
  BY <1>12, <1>a, Zenon DEF Dup, Call, At
<1>13. ASSUME NEW fd \in FDs, Close(p, fd) PROVE LocOf(p)'
  <2>1. ofile[p][fd] \in Slots
    BY <1>0, <1>13 DEF Close, argfd, TypeOK
  <2>2. [Idle EXCEPT !.pc = "close"] \in Locations /\ [Idle EXCEPT !.pc = "close"].pc = "close"
    BY Constants, SMTT(30) DEF Locations
  <2> QED
    BY <1>0, <1>13, <2>1, <2>2, FilecloseLoc, ZenonT(30) DEF Close
<1>14. ASSUME NEW q \in Procs, Fork(p, q) PROVE LocOf(p)'
  <2>1. loc'[p] = [Idle EXCEPT !.pc = "fork", !.child = q]
    BY <1>0, <1>14, Becomes, Zenon DEF Fork
  <2>2. /\ loc'[p].pc = "fork" /\ loc'[p].f0 = NoSlot /\ loc'[p].f1 = NoSlot /\ loc'[p].e = 0
        /\ loc'[p].ff.type = "NONE"
    BY <2>1 DEF Idle, NoFile
  <2> QED
    BY <2>2, PlainLoc, SMT
<1>15. CASE ForkDup(p)
  <2>0. /\ loc[p].f0 = NoSlot /\ loc[p].f1 = NoSlot /\ loc[p].e = 0
        /\ loc[p].ff.type = "NONE" /\ loc[p].pc = "fork"
    BY <1>0, <1>15, SMTT(30) DEF ForkDup, At, LocOf
  <2>1. CASE Become(p, Idle)
    BY <1>b, <2>1, SMTT(30)
  <2>2. CASE Become(p, [loc[p] EXCEPT !.i = loc[p].i + 1])
    <3>1. loc'[p] = [loc[p] EXCEPT !.i = loc[p].i + 1]
      BY <1>0, <2>2, Becomes, Zenon
    <3>2. /\ loc'[p].pc = "fork" /\ loc'[p].f0 = NoSlot /\ loc'[p].f1 = NoSlot /\ loc'[p].e = 0
          /\ loc'[p].ff.type = "NONE"
      BY <1>0, <2>0, <3>1, SMTT(30) DEF Locations
    <3> QED
      BY <3>2, PlainLoc, SMTT(30)
  <2> QED
    BY <1>15, <2>1, <2>2, ZenonT(30) DEF ForkDup
<1>16. CASE Exit(p)
  <2>1. loc'[p] = [Idle EXCEPT !.pc = "exit"]
    BY <1>0, <1>16, Becomes, Zenon DEF Exit
  <2>2. /\ loc'[p].pc = "exit" /\ loc'[p].f0 = NoSlot /\ loc'[p].f1 = NoSlot /\ loc'[p].e = 0
        /\ loc'[p].ff.type = "NONE"
    BY <2>1 DEF Idle, NoFile
  <2> QED
    BY <2>2, PlainLoc, SMTT(30)
<1>17. CASE ExitClose(p)
  <2>0. loc[p].pc = "exit" /\ loc[p].f0 = NoSlot /\ loc[p].f1 = NoSlot /\ loc[p].e = 0
    BY <1>0, <1>17, SMTT(30) DEF ExitClose, At, LocOf
  <2>1. CASE Become(p, Idle)
    BY <1>b, <2>1
  <2>2. ASSUME NEW fd \in FDs, First(fd, FDs \ FreeFDs(p)), fileclose(p, ofile[p][fd], loc[p])
        PROVE  LocOf(p)'
    <3>1. ofile[p][fd] \in Slots
      BY <1>0, <2>2 DEF First, FreeFDs, TypeOK
    <3> QED
      BY <1>0, <2>0, <2>2, <3>1, FilecloseLoc, ZenonT(30)
  <2> QED
    BY <1>17, <2>1, <2>2, ZenonT(30) DEF ExitClose
<1>18. ASSUME NEW fd \in FDs, NEW bit, ReadWrite(p, fd, bit) PROVE LocOf(p)'
  <2>1. CASE loc' = loc
    BY <1>18, <1>a, <2>1, ZenonT(30) DEF ReadWrite, Call, At
  <2>2. CASE Become(p, [Idle EXCEPT !.pc = "rw", !.i = fd])
    <3>1. loc'[p] = [Idle EXCEPT !.pc = "rw", !.i = fd]
      BY <1>0, <2>2, Becomes, Zenon
    <3>2. /\ loc'[p].pc = "rw" /\ loc'[p].f0 = NoSlot /\ loc'[p].f1 = NoSlot /\ loc'[p].e = 0
          /\ loc'[p].ff.type = "NONE"
      BY <3>1 DEF Idle, NoFile
    <3> QED
      BY <3>2, PlainLoc, SMTT(30)
  <2> QED
    BY <1>18, <2>1, <2>2, Zenon DEF ReadWrite, Become
<1>19. ASSUME NEW i \in Inodes, NEW m, Chmod(p, i, m) PROVE LocOf(p)'
  BY <1>19, <1>a, Zenon DEF Chmod, Call, At
<1>20. ASSUME NEW i \in Inodes, Exec(p, i) PROVE LocOf(p)'
  BY <1>20, <1>a, Zenon DEF Exec, Call, At
<1>21. ASSUME NEW c, Block(p, c) \/ Unblock(p, c) PROVE LocOf(p)'
  BY <1>21, <1>a, ZenonT(30) DEF Block, Unblock, Call, At
<1>22. CASE Step(p)
  BY <1>2, <1>3, <1>5, <1>6, <1>7, <1>8, <1>9, <1>10, <1>11, <1>15, <1>17, <1>22, Zenon DEF Step
<1>23. CASE Calls(p)
  BY <1>1, <1>4, <1>12, <1>13, <1>14, <1>16, <1>18, <1>19, <1>20, <1>21, <1>23, Zenon DEF Calls
<1> QED
  BY <1>22, <1>23, SMTT(30)

----------------------------------------------------------------------------
\* What the steps do to the tables

NoCopy(p) == loc[p].ff.type = "NONE" /\ loc'[p].ff.type = "NONE"

\* The inode cache: nothing, iget by open, iget by chmod or exec, iput by open
OneEntry(e) == \A d \in Entries \ {e} : icache'[d].ref = icache[d].ref
Still(p) == UNCHANGED <<icache, leaked>> /\ loc'[p].e = loc[p].e
Gets(p) == \E e \in Entries :
  /\ icache'[e].ref = icache[e].ref + 1 /\ OneEntry(e) /\ leaked' = leaked
  /\ loc[p].e = 0 /\ loc'[p].e = e
Leaks(p) == \E e \in Entries :
  /\ icache'[e].ref = icache[e].ref + 1 /\ OneEntry(e)
  /\ leaked' = [leaked EXCEPT ![e] = @ + 1] /\ loc'[p].e = loc[p].e
Puts(p) == \E e \in Entries :
  /\ icache'[e].ref = icache[e].ref - 1 /\ OneEntry(e) /\ leaked' = leaked
  /\ loc[p].e = e /\ loc'[p].e = 0

\* The file table is left alone.
Keeps(p) ==
  /\ UNCHANGED <<file, ofile, pipe>> /\ Only(p) /\ SameSlots(p) /\ NoCopy(p)
  /\ Still(p) \/ Gets(p) \/ Leaks(p) \/ Puts(p)
\* filealloc
Takes(p, s) ==
  /\ UNCHANGED <<ofile, pipe>> /\ Only(p) /\ Still(p) /\ NoCopy(p)
  /\ file[s].ref = 0 /\ file'[s].ref = 1 /\ SameFile(file'[s], file[s]) /\ Lone(s)
  /\ \/ loc[p].f0 = NoSlot /\ loc'[p].f0 = s /\ loc'[p].f1 = loc[p].f1
     \/ loc[p].f1 = NoSlot /\ loc'[p].f1 = s /\ loc'[p].f0 = loc[p].f0
\* fdalloc of open
Installs(p, s, fd) ==
  /\ UNCHANGED <<pipe, icache, leaked>> /\ Only(p) /\ NoCopy(p)
  /\ file'[s].ref = file[s].ref /\ file[s].type = "NONE" /\ file'[s].type = "INODE"
  /\ loc[p].e \in Entries /\ file'[s].ip = loc[p].e /\ loc'[p].e = 0 /\ Lone(s)
  /\ loc[p].f0 = s /\ loc'[p].f0 = NoSlot /\ loc'[p].f1 = loc[p].f1
  /\ ofile[p][fd] = NoSlot /\ ofile' = [ofile EXCEPT ![p][fd] = s]
\* The end of pipealloc
Connects(p, s, t, q) ==
  /\ UNCHANGED <<ofile>> /\ Only(p) /\ Still(p) /\ NoCopy(p) /\ SameSlots(p)
  /\ loc[p].f0 = s /\ loc[p].f1 = t /\ s # t
  /\ ~pipe[q].readopen /\ ~pipe[q].writeopen
  /\ pipe' = [pipe EXCEPT ![q] = [readopen |-> TRUE, writeopen |-> TRUE]]
  /\ file'[s].ref = file[s].ref /\ file'[t].ref = file[t].ref
  /\ file[s].type = "NONE" /\ file'[s].type = "READEND" /\ file'[s].pipe = q
  /\ file[t].type = "NONE" /\ file'[t].type = "WRITEEND" /\ file'[t].pipe = q
  /\ \A u \in Slots \ {s, t} : file'[u] = file[u]
\* fdalloc of pipe
Pairs(p, s, t, k, m) ==
  /\ UNCHANGED <<file, pipe>> /\ Only(p) /\ Still(p) /\ NoCopy(p)
  /\ file[s].type # "NONE" /\ file[t].type # "NONE"
  /\ loc[p].f0 = s /\ loc[p].f1 = t /\ loc'[p].f0 = NoSlot /\ loc'[p].f1 = NoSlot
  /\ k # m /\ ofile[p][k] = NoSlot /\ ofile[p][m] = NoSlot
  /\ ofile' = [ofile EXCEPT ![p][k] = s, ![p][m] = t]
\* fileclose under the lock
Freed(p, s) ==
  /\ Only(p) /\ loc[p].ff.type = "NONE"
  /\ file[s].ref > 0 /\ file'[s].ref = file[s].ref - 1 /\ Lone(s)
  /\ \/ /\ file[s].ref = 1 /\ file'[s].type = "NONE"
        /\ SameFile(loc'[p].ff, file[s]) \/ (file[s].type = "NONE" /\ loc'[p].ff.type = "NONE")
     \/ file[s].ref # 1 /\ SameFile(file'[s], file[s]) /\ loc'[p].ff.type = "NONE"
Frees(p, s) ==
  /\ UNCHANGED pipe /\ Still(p) /\ Freed(p, s)
  /\ \/ ofile' = ofile /\ loc[p].f0 = s /\ loc'[p].f0 = NoSlot /\ loc'[p].f1 = loc[p].f1
     \/ ofile' = ofile /\ loc[p].f1 = s /\ loc'[p].f1 = NoSlot /\ loc'[p].f0 = loc[p].f0
     \/ /\ \E k \in FDs : ofile[p][k] = s /\ ofile' = [ofile EXCEPT ![p][k] = NoSlot]
        /\ SameSlots(p)
\* pipeclose or iput after it
Finishes(p) ==
  LET ff == loc[p].ff IN
  /\ UNCHANGED <<file, ofile, leaked>> /\ Only(p) /\ SameSlots(p) /\ loc'[p].e = loc[p].e
  /\ loc'[p].ff.type = "NONE"
  /\ \/ /\ ff.type = "WRITEEND" /\ icache' = icache
        /\ pipe' = [pipe EXCEPT ![ff.pipe].writeopen = FALSE]
     \/ /\ ff.type = "READEND" /\ icache' = icache
        /\ pipe' = [pipe EXCEPT ![ff.pipe].readopen = FALSE]
     \/ /\ ff.type = "INODE" /\ ff.ip \in Entries /\ pipe' = pipe
        /\ icache'[ff.ip].ref = icache[ff.ip].ref - 1 /\ OneEntry(ff.ip)
\* filedup, for a descriptor of p or of its child
Shares(p, s, r, k) ==
  /\ UNCHANGED pipe /\ Only(p) /\ Still(p) /\ NoCopy(p) /\ SameSlots(p)
  /\ \E m \in FDs : ofile[p][m] = s
  /\ file'[s].ref = file[s].ref + 1 /\ SameFile(file'[s], file[s]) /\ Lone(s)
  /\ ofile[r][k] = NoSlot /\ ofile' = [ofile EXCEPT ![r][k] = s]

\* What fileclose does
LEMMA CloseView ==
  ASSUME TypeOK, NEW p \in Procs, NEW s \in Slots, NEW l \in Locations,
         fileclose(p, s, l), file[s].ref > 0, loc[p].ff.type = "NONE"
  PROVE  /\ Freed(p, s)
         /\ loc'[p].f0 = l.f0 /\ loc'[p].f1 = l.f1 /\ loc'[p].e = l.e
         /\ ~panicked'
<1> DEFINE g == IF file[s].ref = 1 THEN [file[s] EXCEPT !.ref = 0] ELSE NoFile
           m == [l EXCEPT !.ff = g]
<1>1. file[s] \in Files /\ file \in [Slots -> Files]
  BY DEF TypeOK
<1>2. g \in Files
  BY <1>1, Constants DEF Files
<1>3. /\ file[s].ref = 1 => SameFile(g, file[s])
      /\ file[s].ref # 1 => g.type = "NONE"
  BY <1>1 DEF SameFile, Files, NoFile
<1>4. Become(p, Settle(m))
  BY DEF fileclose
<1>5. m \in Locations /\ m.f0 = l.f0 /\ m.f1 = l.f1 /\ m.e = l.e /\ m.ff = g
  <2> HIDE DEF g
  <2> QED
    BY <1>2 DEF Locations
<1> HIDE DEF m
<1>6. loc'[p] = Settle(m) /\ Only(p)
  BY <1>4, Becomes, Zenon
<1>7. /\ loc'[p].f0 = l.f0 /\ loc'[p].f1 = l.f1 /\ loc'[p].e = l.e
      /\ loc'[p].ff.type = g.type /\ (g.type # "NONE" => loc'[p].ff = g)
  <2>1. /\ Settle(m).f0 = m.f0 /\ Settle(m).f1 = m.f1 /\ Settle(m).e = m.e
        /\ Settle(m).ff.type = m.ff.type /\ (m.ff.type # "NONE" => Settle(m) = m)
    BY <1>5, Settles, Zenon
  <2> HIDE DEF g
  <2> QED
    BY <1>5, <1>6, <2>1, SMT
<1> DEFINE h == [file[s] EXCEPT !.ref = file[s].ref - 1,
                                !.type = IF file[s].ref = 1 THEN "NONE" ELSE file[s].type]
<1>8. file' = [file EXCEPT ![s] = h]
  BY DEF fileclose
<1>9. /\ h.ref = file[s].ref - 1
      /\ file[s].ref = 1 => h.type = "NONE"
      /\ file[s].ref # 1 => SameFile(h, file[s])
  BY <1>1 DEF SameFile, Files
<1> HIDE DEF h, g
<1>10. file'[s] = h /\ Lone(s)
  BY <1>1, <1>8, Zenon DEF Lone
<1>11. ~panicked'
  <2>1. ~(file[s].ref < 1)
    BY <1>1 DEF Files
  <2> QED
    BY <2>1, Zenon DEF fileclose
<1>12. file[s].ref = 1 => \/ SameFile(loc'[p].ff, file[s])
                          \/ file[s].type = "NONE" /\ loc'[p].ff.type = "NONE"
  <2>1. ASSUME file[s].ref = 1 PROVE g.type = file[s].type
    BY <1>3, <2>1, Zenon DEF SameFile
  <2> QED
    BY <1>3, <1>7, <2>1, Zenon
<1>13. file[s].ref # 1 => loc'[p].ff.type = "NONE" /\ SameFile(file'[s], file[s])
  BY <1>3, <1>7, <1>9, <1>10, Zenon
<1>14. file'[s].ref = file[s].ref - 1 /\ (file[s].ref = 1 => file'[s].type = "NONE")
  BY <1>9, <1>10, Zenon
<1>15. Freed(p, s)
  BY <1>6, <1>10, <1>12, <1>13, <1>14, ZenonT(30) DEF Freed
<1> QED
  BY <1>7, <1>11, <1>15, Zenon

Effect(p) ==
  \/ Keeps(p)
  \/ \E s \in Slots : Takes(p, s)
  \/ \E s \in Slots, fd \in FDs : Installs(p, s, fd)
  \/ \E s, t \in Slots, q \in Pipes : Connects(p, s, t, q)
  \/ \E s, t \in Slots, k, m \in FDs : Pairs(p, s, t, k, m)
  \/ \E s \in Slots : Frees(p, s)
  \/ Finishes(p)
  \/ \E s \in Slots, r \in Procs, k \in FDs : Shares(p, s, r, k)

\* iget adds one reference.
LEMMA IgetView ==
  ASSUME TypeOK, NEW i, NEW e \in Entries, iget(i, e)
  PROVE  icache'[e].ref = icache[e].ref + 1 /\ OneEntry(e)
BY DEF iget, OneEntry, TypeOK

\* Every action is one of the effects above
LEMMA Effects ==
  ASSUME IInv, NEW p \in Procs, Step(p) \/ Calls(p)
  PROVE  Effect(p)
<1>0. /\ TypeOK /\ SlotInv /\ LocInv /\ LocOf(p) /\ KindInv /\ LiveInv
      /\ loc[p] \in Locations /\ \A s \in Slots : file[s] \in Files
  BY DEF IInv, TypeOK, LocInv
<1>a. ASSUME loc[p].pc = "user"
      PROVE  /\ loc[p] = Idle /\ loc[p].f0 = NoSlot /\ loc[p].f1 = NoSlot /\ loc[p].e = 0
             /\ loc[p].ff.type = "NONE"
  BY <1>0, <1>a, IdleFields, Zenon DEF LocOf
<1>1. ASSUME NEW i \in Inodes, NEW acc, NEW creat, Open(p, i, acc, creat) PROVE Keeps(p)
  <2>1. PICK e \in Entries : iget(i, e) /\ Become(p, [Idle EXCEPT !.pc = "filealloc", !.e = e])
    BY <1>1, Zenon DEF Open
  <2>2. Only(p) /\ loc'[p] = [Idle EXCEPT !.pc = "filealloc", !.e = e]
    BY <1>0, <2>1, Becomes, Zenon
  <2>3. loc'[p].f0 = NoSlot /\ loc'[p].f1 = NoSlot /\ loc'[p].e = e /\ loc'[p].ff.type = "NONE"
    BY <2>2 DEF Idle, NoFile
  <2>4. Gets(p)
    BY <1>0, <1>1, <1>a, <2>1, <2>3, IgetView, Zenon DEF Gets, Open, Call, At
  <2> QED
    BY <1>1, <1>a, <2>2, <2>3, <2>4, Zenon DEF Keeps, SameSlots, NoCopy, Open, Call, At
<1>2. CASE OpenFile(p)
  <2>0. loc[p].pc = "filealloc" /\ loc[p].f0 = NoSlot /\ loc[p].f1 = NoSlot /\ loc[p].ff.type = "NONE"
    BY <1>0, <1>2, Zenon DEF OpenFile, At, LocOf
  <2>1. CASE FreeSlots = {} /\ Abandon(p) /\ UNCHANGED file
    <3>1. Keeps(p)
      BY <1>0, <1>2, <2>0, <2>1, AbandonView, Zenon DEF Keeps, Still, NoCopy, OpenFile
    <3> QED
      BY <3>1, Zenon DEF Effect
  <2>2. ASSUME NEW s \in FreeSlots, file' = [file EXCEPT ![s].ref = 1],
               Become(p, [loc[p] EXCEPT !.pc = "fdalloc", !.f0 = s])
        PROVE  Effect(p)
    <3>1. s \in Slots /\ file[s].ref = 0
      BY DEF FreeSlots
    <3>2. Only(p) /\ loc'[p] = [loc[p] EXCEPT !.pc = "fdalloc", !.f0 = s]
      BY <1>0, <2>2, Becomes, Zenon
    <3>3. loc'[p].f0 = s /\ loc'[p].f1 = loc[p].f1 /\ loc'[p].e = loc[p].e /\ loc'[p].ff = loc[p].ff
      BY <1>0, <3>2 DEF Locations
    <3>4. file'[s].ref = 1 /\ SameFile(file'[s], file[s]) /\ Lone(s)
      BY <1>0, <2>2, <3>1, RefView, Zenon
    <3>5. Takes(p, s)
      BY <1>2, <2>0, <3>1, <3>2, <3>3, <3>4, Zenon DEF Takes, Still, NoCopy, OpenFile
    <3> QED
      BY <3>1, <3>5, Zenon DEF Effect
  <2> QED
    BY <1>2, <2>1, <2>2, ZenonT(30) DEF OpenFile
<1>3. CASE OpenFd(p)
  <2>0. /\ loc[p].pc = "fdalloc" /\ loc[p].f0 \in Slots /\ loc[p].f1 = NoSlot /\ loc[p].ff.type = "NONE"
        /\ file[loc[p].f0].type = "NONE" /\ loc[p].e # 0
    BY <1>0, <1>3 DEF OpenFd, At, LocOf, Locations
  <2>1. CASE FreeFDs(p) = {} /\ Abandon(p) /\ UNCHANGED <<ofile, file>>
    <3>1. Keeps(p)
      BY <1>0, <1>3, <2>0, <2>1, AbandonView, Zenon DEF Keeps, Still, NoCopy, OpenFd
    <3> QED
      BY <3>1, Zenon DEF Effect
  <2>2. ASSUME NEW fd \in FDs, First(fd, FreeFDs(p)), ofile' = [ofile EXCEPT ![p][fd] = loc[p].f0],
               file' = [file EXCEPT ![loc[p].f0] = [@ EXCEPT !.type = "INODE", !.ip = loc[p].e]],
               Become(p, Idle)
        PROVE  Effect(p)
    <3> DEFINE s == loc[p].f0
               h == [file[s] EXCEPT !.type = "INODE", !.ip = loc[p].e]
    <3>1. h.ref = file[s].ref /\ h.type = "INODE" /\ h.ip = loc[p].e
      BY <1>0, <2>0 DEF Files
    <3>2. file' = [file EXCEPT ![s] = h] /\ file \in [Slots -> Files]
      BY <1>0, <2>2 DEF TypeOK
    <3> HIDE DEF h
    <3>3. file'[s] = h /\ Lone(s)
      BY <2>0, <3>2, Zenon DEF Lone
    <3>4. Only(p) /\ loc'[p] = Idle
      BY <1>0, <2>2, Becomes, Zenon
    <3>5. ofile[p][fd] = NoSlot
      BY <2>2 DEF First, FreeFDs
    <3>6. loc[p].e \in Entries
      BY <1>0, <2>0, SizeAssumption DEF Locations, Entries
    <3>7. Installs(p, s, fd)
      BY <1>3, <2>0, <2>2, <3>1, <3>3, <3>4, <3>5, <3>6, IdleFields, Zenon DEF Installs, NoCopy, OpenFd
    <3> QED
      BY <2>0, <3>7, Zenon DEF Effect
  <2> QED
    BY <1>3, <2>1, <2>2, Zenon DEF OpenFd
<1>4. ASSUME NEW s \in FreeSlots, PipeFile0(p, s) PROVE Effect(p)
  <2>0. loc[p].f0 = NoSlot /\ loc[p].f1 = NoSlot /\ loc[p].e = 0 /\ loc[p].ff.type = "NONE"
    BY <1>4, <1>a, Zenon DEF PipeFile0, Call, At
  <2>1. s \in Slots /\ file[s].ref = 0
    BY DEF FreeSlots
  <2>2. Only(p) /\ loc'[p] = [Idle EXCEPT !.pc = "pipe1", !.f0 = s]
    BY <1>0, <1>4, Becomes, Zenon DEF PipeFile0
  <2>3. loc'[p].f0 = s /\ loc'[p].f1 = NoSlot /\ loc'[p].e = 0 /\ loc'[p].ff.type = "NONE"
    BY <2>2 DEF Idle, NoFile
  <2>4. file'[s].ref = 1 /\ SameFile(file'[s], file[s]) /\ Lone(s)
    BY <1>0, <1>4, <2>1, RefView, Zenon DEF PipeFile0
  <2>5. Takes(p, s)
    BY <1>4, <2>0, <2>1, <2>2, <2>3, <2>4, Zenon DEF Takes, Still, NoCopy, PipeFile0
  <2> QED
    BY <2>1, <2>5, Zenon DEF Effect
<1>5. CASE PipeFile1(p)
  <2>0. loc[p].pc = "pipe1" /\ loc[p].f1 = NoSlot /\ loc[p].ff.type = "NONE"
    BY <1>0, <1>5, Zenon DEF PipeFile1, At, LocOf
  <2>1. CASE FreeSlots = {} /\ Abandon(p) /\ UNCHANGED file
    <3>1. Keeps(p)
      BY <1>0, <1>5, <2>0, <2>1, AbandonView, Zenon DEF Keeps, Still, NoCopy, PipeFile1
    <3> QED
      BY <3>1, Zenon DEF Effect
  <2>2. ASSUME NEW s \in FreeSlots, file' = [file EXCEPT ![s].ref = 1],
               Become(p, [loc[p] EXCEPT !.pc = "pipe2", !.f1 = s])
        PROVE  Effect(p)
    <3>1. s \in Slots /\ file[s].ref = 0
      BY DEF FreeSlots
    <3>2. Only(p) /\ loc'[p] = [loc[p] EXCEPT !.pc = "pipe2", !.f1 = s]
      BY <1>0, <2>2, Becomes, Zenon
    <3>3. loc'[p].f1 = s /\ loc'[p].f0 = loc[p].f0 /\ loc'[p].e = loc[p].e /\ loc'[p].ff = loc[p].ff
      BY <1>0, <3>2 DEF Locations
    <3>4. file'[s].ref = 1 /\ SameFile(file'[s], file[s]) /\ Lone(s)
      BY <1>0, <2>2, <3>1, RefView, Zenon
    <3>5. Takes(p, s)
      BY <1>5, <2>0, <3>1, <3>2, <3>3, <3>4, ZenonT(30) DEF Takes, Still, NoCopy, PipeFile1
    <3> QED
      BY <3>1, <3>5, Zenon DEF Effect
  <2> QED
    BY <1>5, <2>1, <2>2, ZenonT(30) DEF PipeFile1
<1>6. CASE PipeNoMemory(p)
  <2>0. loc[p].ff.type = "NONE"
    BY <1>0, <1>6 DEF PipeNoMemory, At, LocOf
  <2>1. Keeps(p)
    BY <1>0, <1>6, <2>0, AbandonView, Zenon DEF Keeps, Still, NoCopy, PipeNoMemory
  <2> QED
    BY <2>1, Zenon DEF Effect
<1>7. ASSUME NEW q \in Pipes, PipeInit(p, q) PROVE Effect(p)
  <2> DEFINE s == loc[p].f0
             t == loc[p].f1
  <2>0. /\ s \in Slots /\ file[s].ref = 1 /\ file[s].type = "NONE"
        /\ t \in Slots /\ file[t].ref = 1 /\ file[t].type = "NONE" /\ loc[p].ff.type = "NONE"
    BY <1>0, <1>7, Zenon DEF PipeInit, At, LocOf, Locations
  <2>1. s # t
    BY <1>0, <2>0, Sole, Zenon
  <2>2. Only(p) /\ loc'[p] = [loc[p] EXCEPT !.pc = "pipefd"]
    BY <1>0, <1>7, Becomes, Zenon DEF PipeInit
  <2>3. loc'[p].f0 = s /\ loc'[p].f1 = t /\ loc'[p].e = loc[p].e /\ loc'[p].ff = loc[p].ff
    BY <1>0, <2>2, SMTT(30) DEF Locations
  <2>4. /\ file'[s] = [file[s] EXCEPT !.type = "READEND", !.pipe = q]
        /\ file'[t] = [file[t] EXCEPT !.type = "WRITEEND", !.pipe = q]
        /\ \A u \in Slots \ {s, t} : file'[u] = file[u]
    BY <1>7, <2>0, <2>1, Zenon DEF PipeInit
  <2>5. /\ file'[s].ref = file[s].ref /\ file'[s].type = "READEND" /\ file'[s].pipe = q
        /\ file'[t].ref = file[t].ref /\ file'[t].type = "WRITEEND" /\ file'[t].pipe = q
    BY <1>0, <2>0, <2>4 DEF Files
  <2>6. Connects(p, s, t, q)
    BY <1>7, <2>0, <2>1, <2>2, <2>3, <2>4, <2>5, Zenon DEF Connects, Still, NoCopy, SameSlots, PipeInit
  <2> QED
    BY <2>0, <2>6, ZenonT(30) DEF Effect
<1>8. CASE PipeFds(p)
  <2> DEFINE s == loc[p].f0
             t == loc[p].f1
  <2>0. /\ s \in Slots /\ file[s].type # "NONE"
        /\ t \in Slots /\ file[t].type # "NONE" /\ loc[p].ff.type = "NONE" /\ loc[p].e = 0
    BY <1>0, <1>8 DEF PipeFds, At, LocOf, Locations
  <2>1. CASE Cardinality(FreeFDs(p)) < 2 /\ Abandon(p) /\ UNCHANGED ofile
    <3>1. Keeps(p)
      BY <1>0, <1>8, <2>0, <2>1, AbandonView, Zenon DEF Keeps, Still, NoCopy, PipeFds
    <3> QED
      BY <3>1, Zenon DEF Effect
  <2>2. ASSUME NEW k \in FDs, NEW m \in FDs, First(k, FreeFDs(p)), First(m, FreeFDs(p) \ {k}),
               ofile' = [ofile EXCEPT ![p][k] = s, ![p][m] = t],
               Become(p, Idle)
        PROVE  Effect(p)
    <3>1. k # m /\ ofile[p][k] = NoSlot /\ ofile[p][m] = NoSlot
      BY <2>2 DEF First, FreeFDs
    <3>2. Only(p) /\ loc'[p] = Idle
      BY <1>0, <2>2, Becomes, Zenon
    <3>3. Pairs(p, s, t, k, m)
      BY <1>8, <2>0, <2>2, <3>1, <3>2, IdleFields, Zenon DEF Pairs, Still, NoCopy, PipeFds
    <3> QED
      BY <2>0, <3>3, Zenon DEF Effect
  <2> QED
    BY <1>8, <2>1, <2>2, ZenonT(30) DEF PipeFds
<1>9. CASE FileClose(p)
  <2>0. loc[p].ff.type = "NONE"
    BY <1>9, Zenon DEF FileClose
  <2>1. ASSUME loc[p].f0 # NoSlot, fileclose(p, loc[p].f0, [loc[p] EXCEPT !.f0 = NoSlot])
        PROVE  Effect(p)
    <3> DEFINE s == loc[p].f0
               l == [loc[p] EXCEPT !.f0 = NoSlot]
    <3>1. s \in Slots /\ l \in Locations
      BY <1>0, <2>1, SMTT(30) DEF Locations
    <3>2. l.f0 = NoSlot /\ l.f1 = loc[p].f1 /\ l.e = loc[p].e
      BY <1>0 DEF Locations
    <3>3. file[s].ref > 0
      BY <1>0, <3>1, Sole, Zenon
    <3>4. fileclose(p, s, l)
      BY <2>1
    <3> HIDE DEF l
    <3>5. Freed(p, s) /\ loc'[p].f0 = l.f0 /\ loc'[p].f1 = l.f1 /\ loc'[p].e = l.e
      BY <1>0, <2>0, <3>1, <3>3, <3>4, CloseView, Zenon
    <3>6. Frees(p, s)
      BY <1>9, <3>2, <3>5, Zenon DEF Frees, Still, FileClose
    <3> QED
      BY <3>1, <3>6, Zenon DEF Effect
  <2>2. ASSUME loc[p].f1 # NoSlot, fileclose(p, loc[p].f1, [loc[p] EXCEPT !.f1 = NoSlot])
        PROVE  Effect(p)
    <3> DEFINE s == loc[p].f1
               l == [loc[p] EXCEPT !.f1 = NoSlot]
    <3>1. s \in Slots /\ l \in Locations
      BY <1>0, <2>2, SMTT(30) DEF Locations
    <3>2. l.f0 = loc[p].f0 /\ l.f1 = NoSlot /\ l.e = loc[p].e
      BY <1>0 DEF Locations
    <3>3. file[s].ref > 0
      BY <1>0, <3>1, Sole, Zenon
    <3>4. fileclose(p, s, l)
      BY <2>2
    <3> HIDE DEF l
    <3>5. Freed(p, s) /\ loc'[p].f0 = l.f0 /\ loc'[p].f1 = l.f1 /\ loc'[p].e = l.e
      BY <1>0, <2>0, <3>1, <3>3, <3>4, CloseView, Zenon
    <3>6. Frees(p, s)
      BY <1>9, <3>2, <3>5, Zenon DEF Frees, Still, FileClose
    <3> QED
      BY <3>1, <3>6, Zenon DEF Effect
  <2> QED
    BY <1>9, <2>1, <2>2, Zenon DEF FileClose
<1>10. CASE FileCloseRest(p)
  <2> DEFINE l == [loc[p] EXCEPT !.ff = NoFile]
             ff == loc[p].ff
  <2>1. l \in Locations
    BY <1>0, Constants DEF Locations
  <2>2. l.f0 = loc[p].f0 /\ l.f1 = loc[p].f1 /\ l.e = loc[p].e /\ l.ff.type = "NONE"
    BY <1>0 DEF Locations, NoFile
  <2>3. Become(p, Settle(l))
    BY <1>10, Zenon DEF FileCloseRest
  <2> HIDE DEF l
  <2>4. Only(p) /\ loc'[p] = Settle(l)
    BY <1>0, <2>3, Becomes, Zenon
  <2>5. /\ Settle(l).f0 = l.f0 /\ Settle(l).f1 = l.f1 /\ Settle(l).e = l.e
        /\ Settle(l).ff.type = l.ff.type
    BY <2>1, Settles, ZenonT(30)
  <2>6. SameSlots(p) /\ loc'[p].e = loc[p].e /\ loc'[p].ff.type = "NONE"
    BY <2>2, <2>4, <2>5, SMTT(30) DEF SameSlots
  <2>7. \/ /\ ff.type = "WRITEEND" /\ icache' = icache
           /\ pipe' = [pipe EXCEPT ![ff.pipe].writeopen = FALSE]
        \/ /\ ff.type = "READEND" /\ icache' = icache
           /\ pipe' = [pipe EXCEPT ![ff.pipe].readopen = FALSE]
        \/ /\ ff.type = "INODE" /\ pipe' = pipe
           /\ icache' = [icache EXCEPT ![ff.ip].ref = @ - 1]
    BY <1>10, ZenonT(30) DEF FileCloseRest, Ends
  <2>8. ASSUME ff.type = "INODE", icache' = [icache EXCEPT ![ff.ip].ref = @ - 1]
        PROVE  ff.ip \in Entries /\ icache'[ff.ip].ref = icache[ff.ip].ref - 1 /\ OneEntry(ff.ip)
    <3>1. ff.ip \in Entries
      BY <1>0, <2>8, Zenon DEF LocOf
    <3> QED
      BY <1>0, <2>8, <3>1, SMTT(30) DEF OneEntry, TypeOK
  <2>9. UNCHANGED <<file, ofile, leaked>>
    BY <1>10, Zenon DEF FileCloseRest
  <2>10. Finishes(p)
    BY <2>4, <2>6, <2>7, <2>8, <2>9, ZenonT(30) DEF Finishes
  <2> QED
    BY <2>10, Zenon DEF Effect
<1>11. CASE OpenPut(p)
  <2>1. loc[p].e \in Entries /\ loc[p].f0 = NoSlot /\ loc[p].f1 = NoSlot /\ loc[p].ff.type = "NONE"
    BY <1>0, <1>11, SizeAssumption, SMTT(30) DEF OpenPut, At, LocOf, Locations, Entries
  <2>2. icache'[loc[p].e].ref = icache[loc[p].e].ref - 1 /\ OneEntry(loc[p].e)
    BY <1>0, <1>11, <2>1 DEF OpenPut, OneEntry, TypeOK
  <2>3. Only(p) /\ loc'[p] = Idle
    BY <1>0, <1>11, Becomes, Zenon DEF OpenPut
  <2>4. Keeps(p)
    BY <1>11, <2>1, <2>2, <2>3, IdleFields, Zenon DEF Keeps, Puts, SameSlots, NoCopy, OpenPut
  <2> QED
    BY <2>4, Zenon DEF Effect
<1>12. ASSUME NEW fd \in FDs, Dup(p, fd) PROVE Effect(p)
  <2>1. ofile[p][fd] \in Slots /\ loc[p].ff.type = "NONE"
    BY <1>0, <1>12, <1>a DEF Dup, argfd, TypeOK, Call, At
  <2>2. PICK k \in FDs : First(k, FreeFDs(p)) /\ ofile' = [ofile EXCEPT ![p][k] = ofile[p][fd]]
    BY <1>12, Zenon DEF Dup
  <2>3. ofile[p][k] = NoSlot
    BY <2>2 DEF First, FreeFDs
  <2> DEFINE s == ofile[p][fd]
  <2>4. file'[s].ref = file[s].ref + 1 /\ SameFile(file'[s], file[s]) /\ Lone(s)
    BY <1>0, <1>12, <2>1, RefView, Zenon DEF Dup, filedup
  <2>5. UNCHANGED <<pipe, icache, leaked, loc>>
    BY <1>12, Zenon DEF Dup
  <2>6. Shares(p, s, p, k)
    BY <2>1, <2>2, <2>3, <2>4, <2>5, Zenon DEF Shares, Only, Still, NoCopy, SameSlots
  <2> QED
    BY <2>1, <2>6, ZenonT(30) DEF Effect
<1>13. ASSUME NEW fd \in FDs, Close(p, fd) PROVE Effect(p)
  <2> DEFINE s == ofile[p][fd]
             l == [Idle EXCEPT !.pc = "close"]
  <2>0. /\ loc[p].f0 = NoSlot /\ loc[p].f1 = NoSlot /\ loc[p].e = 0
        /\ loc[p].ff.type = "NONE"
    BY <1>13, <1>a, Zenon DEF Close, Call, At
  <2>1. s \in Slots
    BY <1>0, <1>13 DEF Close, argfd, TypeOK
  <2>2. l \in Locations
    BY Constants DEF Locations
  <2>3. l.f0 = NoSlot /\ l.f1 = NoSlot /\ l.e = 0
    BY DEF Idle
  <2>4. file[s].ref > 0
    BY <1>0, <2>1, Sole, Zenon
  <2>5. fileclose(p, s, l)
    BY <1>13, Zenon DEF Close
  <2> HIDE DEF l
  <2>6. Freed(p, s) /\ loc'[p].f0 = l.f0 /\ loc'[p].f1 = l.f1 /\ loc'[p].e = l.e
    BY <1>0, <2>0, <2>1, <2>2, <2>4, <2>5, CloseView, Zenon
  <2>7. Frees(p, s)
    BY <1>13, <2>0, <2>3, <2>6, Zenon DEF Frees, Still, SameSlots, Close
  <2> QED
    BY <2>1, <2>7, Zenon DEF Effect
<1>14. ASSUME NEW q \in Procs, Fork(p, q) PROVE Effect(p)
  <2>1. Only(p) /\ loc'[p] = [Idle EXCEPT !.pc = "fork", !.child = q]
    BY <1>0, <1>14, Becomes, ZenonT(30) DEF Fork
  <2>2. loc'[p].f0 = NoSlot /\ loc'[p].f1 = NoSlot /\ loc'[p].e = 0 /\ loc'[p].ff.type = "NONE"
    BY <2>1 DEF Idle, NoFile
  <2>3. Keeps(p)
    BY <1>14, <1>a, <2>1, <2>2, Zenon DEF Keeps, Still, SameSlots, NoCopy, Fork, Call, At
  <2> QED
    BY <2>3, Zenon DEF Effect
<1>15. CASE ForkDup(p)
  <2> DEFINE q == loc[p].child
             fd == loc[p].i
             s == ofile[p][fd]
  <2>0. /\ loc[p].f0 = NoSlot /\ loc[p].f1 = NoSlot /\ loc[p].e = 0
        /\ loc[p].ff.type = "NONE" /\ loc[p].pc = "fork"
    BY <1>0, <1>15, SMTT(30) DEF ForkDup, At, LocOf
  <2>1. q \in Procs /\ fd \in 0 .. NOFILE
    BY <1>0 DEF Locations
  <2>2. UNCHANGED <<pipe, icache, leaked>>
    BY <1>15, Zenon DEF ForkDup
  <2>3. CASE fd < NOFILE
    <3>1. fd \in FDs /\ fd # NOFILE /\ fd >= fd
      BY <2>1, <2>3, SizeAssumption DEF FDs
    <3>2. s \in Slots \cup {NoSlot}
      BY <1>0, <3>1 DEF TypeOK
    <3>3. /\ ofile' = [ofile EXCEPT ![q][fd] = s] /\ Become(p, [loc[p] EXCEPT !.i = fd + 1])
          /\ IF s = NoSlot THEN UNCHANGED <<file, panicked>> ELSE filedup(s)
      BY <1>15, <3>1, Zenon DEF ForkDup
    <3>4. Only(p) /\ loc'[p] = [loc[p] EXCEPT !.i = fd + 1]
      BY <1>0, <3>3, Becomes, Zenon
    <3>5. loc'[p].f0 = loc[p].f0 /\ loc'[p].f1 = loc[p].f1 /\ loc'[p].e = loc[p].e /\ loc'[p].ff = loc[p].ff
      BY <1>0, <3>4, SMTT(30) DEF Locations
    <3>6. ofile[q][fd] = NoSlot
      <4>1. Forking(p, q)
        BY <2>0, SMTT(30) DEF Forking
      <4> QED
        BY <1>0, <2>1, <3>1, <4>1, SMTT(30) DEF LiveInv
    <3>7. CASE s = NoSlot
      <4>1. ofile' = ofile
        BY <1>0, <2>1, <3>1, <3>3, <3>6, <3>7, SMTT(30) DEF TypeOK
      <4>2. Keeps(p)
        BY <2>0, <2>2, <3>3, <3>4, <3>5, <3>7, <4>1, Zenon DEF Keeps, Still, SameSlots, NoCopy
      <4> QED
        BY <4>2, Zenon DEF Effect
    <3>8. CASE s \in Slots
      <4>1. filedup(s)
        BY <3>3, <3>8, SlotAssumption, Zenon
      <4>2. file'[s].ref = file[s].ref + 1 /\ SameFile(file'[s], file[s]) /\ Lone(s)
        BY <1>0, <3>8, <4>1, RefView, Zenon DEF filedup
      <4>3. Shares(p, s, q, fd)
        BY <2>0, <2>2, <3>1, <3>3, <3>4, <3>5, <3>6, <4>2, Zenon DEF Shares, Still, NoCopy, SameSlots
      <4> QED
        BY <2>1, <3>1, <3>8, <4>3, Zenon DEF Effect
    <3> QED
      BY <3>2, <3>7, <3>8, Zenon
  <2>4. CASE ~(fd < NOFILE)
    <3>1. Become(p, Idle) /\ UNCHANGED <<file, ofile>>
      BY <1>15, <2>4, Zenon DEF ForkDup
    <3>2. Only(p) /\ loc'[p] = Idle
      BY <1>0, <3>1, Becomes, Zenon
    <3>3. Keeps(p)
      BY <2>0, <2>2, <3>1, <3>2, IdleFields, Zenon DEF Keeps, Still, SameSlots, NoCopy
    <3> QED
      BY <3>3, Zenon DEF Effect
  <2> QED
    BY <2>3, <2>4, Zenon
<1>16. CASE Exit(p)
  <2>1. Only(p) /\ loc'[p] = [Idle EXCEPT !.pc = "exit"]
    BY <1>0, <1>16, Becomes, Zenon DEF Exit
  <2>2. loc'[p].f0 = NoSlot /\ loc'[p].f1 = NoSlot /\ loc'[p].e = 0 /\ loc'[p].ff.type = "NONE"
    BY <2>1 DEF Idle, NoFile
  <2>3. Keeps(p)
    BY <1>16, <1>a, <2>1, <2>2, Zenon DEF Keeps, Still, SameSlots, NoCopy, Exit, Call, At
  <2> QED
    BY <2>3, Zenon DEF Effect
<1>17. CASE ExitClose(p)
  <2>0. /\ loc[p].f0 = NoSlot /\ loc[p].f1 = NoSlot /\ loc[p].e = 0 /\ loc[p].ff.type = "NONE"
    BY <1>0, <1>17 DEF ExitClose, At, LocOf
  <2>1. UNCHANGED <<pipe, icache, leaked>>
    BY <1>17, Zenon DEF ExitClose
  <2>2. ASSUME Become(p, Idle), UNCHANGED <<ofile, file, panicked>>
        PROVE  Effect(p)
    <3>1. Only(p) /\ loc'[p] = Idle
      BY <1>0, <2>2, Becomes, Zenon
    <3>2. Keeps(p)
      BY <2>0, <2>1, <2>2, <3>1, IdleFields, Zenon DEF Keeps, Still, SameSlots, NoCopy
    <3> QED
      BY <3>2, Zenon DEF Effect
  <2>3. ASSUME NEW fd \in FDs, First(fd, FDs \ FreeFDs(p)), fileclose(p, ofile[p][fd], loc[p]),
               ofile' = [ofile EXCEPT ![p][fd] = NoSlot]
        PROVE  Effect(p)
    <3>1. ofile[p][fd] \in Slots
      BY <1>0, <2>3 DEF First, FreeFDs, TypeOK
    <3>2. file[ofile[p][fd]].ref > 0
      BY <1>0, <3>1, Sole, Zenon
    <3>3. Freed(p, ofile[p][fd]) /\ SameSlots(p) /\ loc'[p].e = loc[p].e
      BY <1>0, <2>0, <2>3, <3>1, <3>2, CloseView, Zenon DEF SameSlots
    <3>4. Frees(p, ofile[p][fd])
      BY <2>1, <2>3, <3>3, Zenon DEF Frees, Still
    <3> QED
      BY <3>1, <3>4, Zenon DEF Effect
  <2> QED
    BY <1>17, <2>2, <2>3, ZenonT(30) DEF ExitClose
<1>18. ASSUME NEW fd \in FDs, NEW bit, ReadWrite(p, fd, bit) PROVE Effect(p)
  <2>0. /\ loc[p].f0 = NoSlot /\ loc[p].f1 = NoSlot /\ loc[p].e = 0
        /\ loc[p].ff.type = "NONE"
    BY <1>18, <1>a, Zenon DEF ReadWrite, Call, At
  <2>1. UNCHANGED <<file, ofile, pipe, icache, leaked>>
    BY <1>18, Zenon DEF ReadWrite
  <2>2. CASE loc' = loc
    <3>1. Keeps(p)
      BY <2>0, <2>1, <2>2, Zenon DEF Keeps, Only, Still, SameSlots, NoCopy
    <3> QED
      BY <3>1, Zenon DEF Effect
  <2>3. CASE Become(p, [Idle EXCEPT !.pc = "rw", !.i = fd])
    <3>1. Only(p) /\ loc'[p] = [Idle EXCEPT !.pc = "rw", !.i = fd]
      BY <1>0, <2>3, Becomes, Zenon
    <3>2. loc'[p].f0 = NoSlot /\ loc'[p].f1 = NoSlot /\ loc'[p].e = 0 /\ loc'[p].ff.type = "NONE"
      BY <3>1 DEF Idle, NoFile
    <3>3. Keeps(p)
      BY <2>0, <2>1, <3>1, <3>2, Zenon DEF Keeps, Still, SameSlots, NoCopy
    <3> QED
      BY <3>3, Zenon DEF Effect
  <2> QED
    BY <1>18, <2>2, <2>3, Zenon DEF ReadWrite, Become
<1>19. ASSUME NEW i \in Inodes, Leak(i), loc[p].pc = "user", UNCHANGED <<file, ofile, pipe, loc>>
       PROVE  Effect(p)
  <2>1. PICK e \in Entries : iget(i, e) /\ leaked' = [leaked EXCEPT ![e] = @ + 1]
    BY <1>19, Zenon DEF Leak
  <2>2. icache'[e].ref = icache[e].ref + 1 /\ OneEntry(e)
    BY <1>0, <2>1, IgetView, Zenon
  <2>3. Leaks(p)
    BY <1>19, <2>1, <2>2, Zenon DEF Leaks
  <2>4. Keeps(p)
    BY <1>19, <1>a, <2>3, Zenon DEF Keeps, Only, SameSlots, NoCopy
  <2> QED
    BY <2>4, Zenon DEF Effect
<1>20. ASSUME NEW i \in Inodes, NEW m, Chmod(p, i, m) PROVE Effect(p)
  BY <1>19, <1>20, Zenon DEF Chmod, Call, At
<1>21. ASSUME NEW i \in Inodes, Exec(p, i) PROVE Effect(p)
  BY <1>19, <1>21, Zenon DEF Exec, Call, At
<1>22. ASSUME NEW c, Block(p, c) \/ Unblock(p, c) PROVE Effect(p)
  <2>1. UNCHANGED <<file, ofile, pipe, icache, leaked, loc>> /\ loc[p].pc = "user"
    BY <1>22, Zenon DEF Block, Unblock, Call, At
  <2>2. Keeps(p)
    BY <1>a, <2>1, Zenon DEF Keeps, Only, Still, SameSlots, NoCopy
  <2> QED
    BY <2>2, Zenon DEF Effect
<1>23. CASE Step(p)
  BY <1>2, <1>3, <1>5, <1>6, <1>7, <1>8, <1>9, <1>10, <1>11, <1>15, <1>17, <1>23, Zenon DEF Step
<1>24. ASSUME Keeps(p) PROVE Effect(p)
  BY <1>24, Zenon DEF Effect
<1>25. CASE Calls(p)
  BY <1>1, <1>4, <1>12, <1>13, <1>14, <1>16, <1>18, <1>20, <1>21, <1>22, <1>24, <1>25, Zenon DEF Calls
<1> QED
  BY <1>23, <1>25
============================================================================
