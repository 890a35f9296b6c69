------------------------------- MODULE Inode -------------------------------
(***************************************************************************)
(* The inode cache (fs.c) under the system calls that make, open, link,    *)
(* unlink, change and close files (sysfile.c, file.c), in one directory.   *)
(*                                                                         *)
(* The directory is the root; its inode is always referenced, so only its  *)
(* sleep lock (dirlock) is modelled.  A step is what a process does under  *)
(* the locks it holds until it needs another lock or gives one up.  The    *)
(* calls run inside transactions (module Log), so no step is seen half     *)
(* done after a crash.                                                     *)
(***************************************************************************)
EXTENDS Naturals, FiniteSets

CONSTANTS
  Procs, None,   \* processes; no process
  Names, NoName, \* names in the directory; no name
  Inums, NoInum, \* inode numbers; the number of an unused directory entry
  NINODE,        \* entries of the inode cache
  MaxLink,       \* bound: links of one inode
  MaxLeaks       \* bound: calls of chmod and exec

ASSUME SizeAssumption ==
  /\ IsFiniteSet(Procs) /\ IsFiniteSet(Names) /\ IsFiniteSet(Inums)
  /\ NINODE \in Nat \ {0}
  /\ MaxLink \in Nat \ {0} /\ MaxLeaks \in Nat
ASSUME NoneAssumption == None \notin Procs /\ NoName \notin Names /\ NoInum \notin Inums

Slots == 1 .. NINODE
NoSlot == 0

VARIABLES
  allocated, dnlink,               \* on disk, by inode number
  dir,                             \* the directory: name to inode number
  dirlock,                         \* who has locked the directory's inode
  inum, ref, valid, nlink, owner,  \* the cache, by slot
  pc, ip, name, fd,                \* by process: place, inode, name, open file
  leaked,                          \* auxiliary: references nobody will drop
  panicked

disk == <<allocated, dnlink, dir>>
cache == <<inum, ref, valid, nlink, owner>>
vars == <<allocated, dnlink, dir, dirlock, inum, ref, valid, nlink, owner,
          pc, ip, name, fd, leaked, panicked>>

Locations == {"idle", "open", "create", "create_link", "create_put", "link", "link_dir",
              "link_found", "link_bad", "unlink", "unlink_put", "chmod",
              "put", "put_free", "put_unlock", "put_ref"}

TypeOK ==
  /\ allocated \in [Inums -> BOOLEAN]
  /\ dnlink \in [Inums -> 0 .. MaxLink]
  /\ dir \in [Names -> Inums \cup {NoInum}]
  /\ dirlock \in Procs \cup {None}
  /\ inum \in [Slots -> Inums \cup {NoInum}]
  /\ ref \in [Slots -> Nat]
  /\ valid \in [Slots -> BOOLEAN]
  /\ nlink \in [Slots -> 0 .. MaxLink]
  /\ owner \in [Slots -> Procs \cup {None}]
  /\ pc \in [Procs -> Locations]
  /\ ip \in [Procs -> Slots \cup {NoSlot}]
  /\ name \in [Procs -> Names \cup {NoName}]
  /\ fd \in [Procs -> Slots \cup {NoSlot}]
  /\ leaked \in [Slots -> Nat]
  /\ panicked \in BOOLEAN

\* iinit over an empty file system
Init ==
  /\ allocated = [i \in Inums |-> FALSE]
  /\ dnlink = [i \in Inums |-> 0]
  /\ dir = [n \in Names |-> NoInum]
  /\ dirlock = None
  /\ inum = [s \in Slots |-> NoInum]
  /\ ref = [s \in Slots |-> 0]
  /\ valid = [s \in Slots |-> FALSE]
  /\ nlink = [s \in Slots |-> 0]
  /\ owner = [s \in Slots |-> None]
  /\ pc = [p \in Procs |-> "idle"]
  /\ ip = [p \in Procs |-> NoSlot]
  /\ name = [p \in Procs |-> NoName]
  /\ fd = [p \in Procs |-> NoSlot]
  /\ leaked = [s \in Slots |-> 0]
  /\ panicked = FALSE

At(p, from) == ~panicked /\ pc[p] = from
Goto(p, from, to) == At(p, from) /\ pc' = [pc EXCEPT ![p] = to]
First(x, S) == x \in S /\ \A y \in S : x <= y

----------------------------------------------------------------------------
\* fs.c

Cached(i) == {s \in Slots : ref[s] > 0 /\ inum[s] = i}
Empty == {s \in Slots : ref[s] = 0}

\* Faulty variant: a new user of a cached inode is not counted.
igetUncounted(p, i) ==
  IF Cached(i) # {}
    THEN \E s \in Cached(i) :
           /\ ip' = [ip EXCEPT ![p] = s]
           /\ UNCHANGED <<inum, ref, valid, panicked>>
    ELSE IF Empty = {}
      THEN panicked' = TRUE /\ UNCHANGED <<inum, ref, valid, ip>>
      ELSE \E s \in Slots :
             /\ First(s, Empty)
             /\ inum' = [inum EXCEPT ![s] = i]
             /\ ref' = [ref EXCEPT ![s] = 1]
             /\ valid' = [valid EXCEPT ![s] = FALSE]
             /\ ip' = [ip EXCEPT ![p] = s]
             /\ UNCHANGED panicked

\* iget(i) returns s; without an entry it panics.
iget(p, i) ==
  IF Cached(i) # {}
    THEN \E s \in Cached(i) :
           /\ ref' = [ref EXCEPT ![s] = @ + 1]
           /\ ip' = [ip EXCEPT ![p] = s]
           /\ UNCHANGED <<inum, valid, panicked>>
    ELSE IF Empty = {}
      THEN panicked' = TRUE /\ UNCHANGED <<inum, ref, valid, ip>>
      ELSE \E s \in Slots :
             /\ First(s, Empty)
             /\ inum' = [inum EXCEPT ![s] = i]
             /\ ref' = [ref EXCEPT ![s] = 1]
             /\ valid' = [valid EXCEPT ![s] = FALSE]
             /\ ip' = [ip EXCEPT ![p] = s]
             /\ UNCHANGED panicked

\* Any free inode may be the first that the scan meets, as others free inodes
\* behind it.
ialloc(p) ==
  \E i \in Inums :
    /\ ~allocated[i]
    /\ allocated' = [allocated EXCEPT ![i] = TRUE]
    /\ dnlink' = [dnlink EXCEPT ![i] = 0]
    /\ iget(p, i)

\* ilock: the lock is free; an entry that is not valid is read from disk.
Lockable(s) == owner[s] = None
Links(s) == IF valid[s] THEN nlink[s] ELSE dnlink[inum[s]]
\* panic("ilock: no type"), panic("ilock")
LockPanics(s) == ref[s] < 1 \/ (~valid[s] /\ ~allocated[inum[s]])

iunlock(s) == owner' = [owner EXCEPT ![s] = None]

\* ilock and iupdate with n links, in one visit of the inode
SetLinks(s, n) ==
  /\ valid' = [valid EXCEPT ![s] = TRUE]
  /\ nlink' = [nlink EXCEPT ![s] = n]
  /\ dnlink' = [dnlink EXCEPT ![inum[s]] = n]

\* The lookup of a name by namei or nameiparent: the directory is locked and
\* unlocked again; dirlookup's iget comes in between.
Namei(p, n, to) ==
  /\ Goto(p, "idle", to)
  /\ dirlock = None
  /\ dir[n] # NoInum
  /\ iget(p, dir[n])
  /\ UNCHANGED <<disk, dirlock, nlink, owner, name, fd, leaked>>

----------------------------------------------------------------------------
\* iput, in four steps

\* acquiresleep; the inode is freed if it has no links and no other reference.
Put(p) ==
  LET s == ip[p] IN
  /\ Goto(p, "put", IF valid[s] /\ nlink[s] = 0 /\ ref[s] = 1 THEN "put_free" ELSE "put_unlock")
  /\ Lockable(s)
  /\ owner' = [owner EXCEPT ![s] = p]
  /\ UNCHANGED <<disk, dirlock, inum, ref, valid, nlink, ip, name, fd, leaked, panicked>>

\* itrunc, type = 0, iupdate
PutFree(p) ==
  LET s == ip[p] IN
  /\ Goto(p, "put_free", "put_unlock")
  /\ allocated' = [allocated EXCEPT ![inum[s]] = FALSE]
  /\ dnlink' = [dnlink EXCEPT ![inum[s]] = nlink[s]]
  /\ valid' = [valid EXCEPT ![s] = FALSE]
  /\ UNCHANGED <<dir, dirlock, inum, ref, nlink, owner, ip, name, fd, leaked, panicked>>

\* Faulty variant: the lock is kept after the inode has been freed.
PutUnlockKept(p) ==
  /\ Goto(p, "put_unlock", "put_ref")
  /\ owner' = [owner EXCEPT ![ip[p]] = IF valid[ip[p]] THEN None ELSE @]
  /\ UNCHANGED <<disk, dirlock, inum, ref, valid, nlink, ip, name, fd, leaked, panicked>>

PutUnlock(p) ==
  /\ Goto(p, "put_unlock", "put_ref")
  /\ iunlock(ip[p])
  /\ UNCHANGED <<disk, dirlock, inum, ref, valid, nlink, ip, name, fd, leaked, panicked>>

PutRef(p) ==
  /\ Goto(p, "put_ref", "idle")
  /\ ref' = [ref EXCEPT ![ip[p]] = @ - 1]
  /\ ip' = [ip EXCEPT ![p] = NoSlot]
  /\ UNCHANGED <<disk, dirlock, inum, valid, nlink, owner, name, fd, leaked, panicked>>

----------------------------------------------------------------------------
\* sys_open, sys_close

OpenCall(p, n) == fd[p] = NoSlot /\ Namei(p, n, "open")

\* The end of sys_open: the file is open, or a check, filealloc or fdalloc fails.
Opened(p) ==
  \/ /\ fd' = [fd EXCEPT ![p] = ip[p]]
     /\ ip' = [ip EXCEPT ![p] = NoSlot]
     /\ pc' = [pc EXCEPT ![p] = "idle"]
  \/ /\ pc' = [pc EXCEPT ![p] = "put"]
     /\ UNCHANGED <<fd, ip>>

\* ilock to iunlock
Open(p) ==
  LET s == ip[p] IN
  /\ At(p, "open")
  /\ Lockable(s)
  /\ panicked' = LockPanics(s)
  /\ valid' = [valid EXCEPT ![s] = TRUE]
  /\ nlink' = [nlink EXCEPT ![s] = Links(s)]
  /\ Opened(p)
  /\ UNCHANGED <<disk, dirlock, inum, ref, owner, name, leaked>>

\* fileclose of the last reference to the file
Close(p) ==
  /\ fd[p] # NoSlot
  /\ Goto(p, "idle", "put")
  /\ ip' = [ip EXCEPT ![p] = fd[p]]
  /\ fd' = [fd EXCEPT ![p] = NoSlot]
  /\ UNCHANGED <<disk, dirlock, cache, name, leaked, panicked>>

\* create of a name that exists goes on as OpenCall.  Otherwise ialloc, with the
\* directory locked; the bound is that an inode is free (the code panics).
CreateCall(p, n) ==
  /\ fd[p] = NoSlot
  /\ Goto(p, "idle", "create")
  /\ dirlock = None
  /\ dir[n] = NoInum
  /\ dirlock' = p
  /\ name' = [name EXCEPT ![p] = n]
  /\ ialloc(p)
  /\ UNCHANGED <<dir, nlink, owner, fd, leaked>>

\* ilock, nlink = 1, iupdate
Create(p) ==
  LET s == ip[p] IN
  /\ Goto(p, "create", "create_link")
  /\ Lockable(s)
  /\ panicked' = LockPanics(s)
  /\ owner' = [owner EXCEPT ![s] = p]
  /\ SetLinks(s, 1)
  /\ UNCHANGED <<allocated, dir, dirlock, inum, ref, ip, name, fd, leaked>>

\* dirlink, iunlock of the directory
CreateLink(p) ==
  /\ Goto(p, "create_link", "create_put")
  /\ panicked' = (dir[name[p]] # NoInum)
  /\ dir' = [dir EXCEPT ![name[p]] = inum[ip[p]]]
  /\ dirlock' = None
  /\ name' = [name EXCEPT ![p] = NoName]
  /\ UNCHANGED <<allocated, dnlink, cache, ip, fd, leaked>>

\* iput of the directory takes its lock once more, with the new inode locked.
\* sys_open then opens the file, sys_mknod gives it back.
CreatePut(p) ==
  /\ At(p, "create_put")
  /\ dirlock = None
  /\ iunlock(ip[p])
  /\ Opened(p)
  /\ UNCHANGED <<disk, dirlock, inum, ref, valid, nlink, name, leaked, panicked>>

----------------------------------------------------------------------------
\* sys_link

LinkCall(p, old, new) ==
  /\ At(p, "idle")
  /\ dirlock = None
  /\ dir[old] # NoInum
  /\ iget(p, dir[old])
  /\ name' = [name EXCEPT ![p] = new]
  /\ pc' = [pc EXCEPT ![p] = "link"]
  /\ UNCHANGED <<disk, dirlock, nlink, owner, fd, leaked>>

\* nlink++; the bound is MaxLink.
Link(p) ==
  LET s == ip[p] IN
  /\ Goto(p, "link", "link_dir")
  /\ Lockable(s)
  /\ Links(s) < MaxLink
  /\ panicked' = LockPanics(s)
  /\ SetLinks(s, Links(s) + 1)
  /\ UNCHANGED <<allocated, dir, dirlock, inum, ref, owner, ip, name, fd, leaked>>

\* dirlink fails if the name is taken.
LinkDir(p) ==
  LET taken == dir[name[p]] # NoInum IN
  /\ Goto(p, "link_dir", IF taken THEN "link_found" ELSE "put")
  /\ dirlock = None
  /\ dir' = IF taken THEN dir ELSE [dir EXCEPT ![name[p]] = inum[ip[p]]]
  /\ dirlock' = IF taken THEN p ELSE None
  /\ name' = IF taken THEN name ELSE [name EXCEPT ![p] = NoName]
  /\ UNCHANGED <<allocated, dnlink, cache, ip, fd, leaked, panicked>>

\* dirlookup has found the name: its iget and dirlink's iput take and give back
\* one reference (of an entry that has links, so nothing is freed), and iput waits
\* for the lock of the inode found.
LinkFound(p) ==
  /\ Goto(p, "link_found", "link_bad")
  /\ \A s \in Cached(dir[name[p]]) : Lockable(s)
  /\ dirlock' = None
  /\ name' = [name EXCEPT ![p] = NoName]
  /\ UNCHANGED <<disk, cache, ip, fd, leaked, panicked>>

\* Faulty variant: the link count is not taken back.
LinkBadKeeps(p) ==
  LET s == ip[p] IN
  /\ Goto(p, "link_bad", "put")
  /\ Lockable(s)
  /\ panicked' = LockPanics(s)
  /\ SetLinks(s, Links(s))
  /\ UNCHANGED <<allocated, dir, dirlock, inum, ref, owner, ip, name, fd, leaked>>

\* bad: nlink--
LinkBad(p) ==
  LET s == ip[p] IN
  /\ Goto(p, "link_bad", "put")
  /\ Lockable(s)
  /\ panicked' = LockPanics(s)
  /\ SetLinks(s, Links(s) - 1)
  /\ UNCHANGED <<allocated, dir, dirlock, inum, ref, owner, ip, name, fd, leaked>>

----------------------------------------------------------------------------
\* sys_unlink

UnlinkCall(p, n) ==
  /\ Goto(p, "idle", "unlink")
  /\ dirlock = None
  /\ dir[n] # NoInum
  /\ dirlock' = p
  /\ name' = [name EXCEPT ![p] = n]
  /\ iget(p, dir[n])
  /\ UNCHANGED <<disk, nlink, owner, fd, leaked>>

\* ilock, the entry is erased, iunlock of the directory
Unlink(p) ==
  LET s == ip[p] IN
  /\ Goto(p, "unlink", "unlink_put")
  /\ Lockable(s)
  /\ panicked' = (LockPanics(s) \/ Links(s) < 1)
  /\ owner' = [owner EXCEPT ![s] = p]
  /\ valid' = [valid EXCEPT ![s] = TRUE]
  /\ nlink' = [nlink EXCEPT ![s] = Links(s)]
  /\ dir' = [dir EXCEPT ![name[p]] = NoInum]
  /\ dirlock' = None
  /\ name' = [name EXCEPT ![p] = NoName]
  /\ UNCHANGED <<allocated, dnlink, inum, ref, ip, fd, leaked>>

\* iput of the directory takes its lock once more, with the inode locked; then
\* nlink--, iupdate, iunlockput.
UnlinkDec(p) ==
  LET s == ip[p] IN
  /\ Goto(p, "unlink_put", "put")
  /\ dirlock = None
  /\ SetLinks(s, nlink[s] - 1)
  /\ iunlock(s)
  /\ UNCHANGED <<allocated, dir, dirlock, inum, ref, ip, name, fd, leaked, panicked>>

----------------------------------------------------------------------------
\* sys_chmod, and the test of the mode that sys_exec makes: the reference namei
\* returns is not given back.

Leaks == {s \in Slots : leaked[s] > 0}

ChmodCall(p, n) == Cardinality(Leaks) < MaxLeaks /\ Namei(p, n, "chmod")

Chmod(p) ==
  LET s == ip[p] IN
  /\ Goto(p, "chmod", "idle")
  /\ Lockable(s)
  /\ panicked' = LockPanics(s)
  /\ SetLinks(s, Links(s))
  /\ leaked' = [leaked EXCEPT ![s] = @ + 1]
  /\ ip' = [ip EXCEPT ![p] = NoSlot]
  /\ UNCHANGED <<allocated, dir, dirlock, inum, ref, owner, name, fd>>

----------------------------------------------------------------------------

\* A call that does not find its name returns -1.
CallFails(p, n) ==
  /\ At(p, "idle")
  /\ dirlock = None
  /\ dir[n] = NoInum
  /\ UNCHANGED vars

Call(p) ==
  \/ Close(p)
  \/ \E n \in Names : CallFails(p, n)
  \/ \E n \in Names : OpenCall(p, n) \/ CreateCall(p, n) \/ UnlinkCall(p, n) \/ ChmodCall(p, n)
  \/ \E old, new \in Names : LinkCall(p, old, new)

Step(p) ==
  \/ Open(p) \/ Create(p) \/ CreateLink(p) \/ CreatePut(p)
  \/ Link(p) \/ LinkDir(p) \/ LinkFound(p) \/ LinkBad(p)
  \/ Unlink(p) \/ UnlinkDec(p) \/ Chmod(p)
  \/ Put(p) \/ PutFree(p) \/ PutUnlock(p) \/ PutRef(p)

Next == \E p \in Procs : Call(p) \/ Step(p)

Spec == Init /\ [][Next]_vars

----------------------------------------------------------------------------

Users(s) == {p \in Procs : ip[p] = s}
Openers(s) == {p \in Procs : fd[p] = s}

\* iget never gives an inode two entries in the cache.
OneEntryPerInode == \A i \in Inums : Cardinality(Cached(i)) <= 1

\* ilock never meets a free inode, unlink no inode without links, create's dirlink
\* does not fail, and iget finds an entry.
NoPanic == NINODE >= Cardinality(Inums) => ~panicked

\* "ip->ref tracks the number of in-memory pointers to the entry": calls under
\* way, open files, and the references that chmod and exec left behind.  An inode
\* has one entry, and nothing panics.
RefExact ==
  /\ TypeOK
  /\ OneEntryPerInode
  /\ NoPanic
  /\ \A s \in Slots :
       ref[s] = Cardinality(Users(s)) + Cardinality(Openers(s)) + leaked[s]

\* An inode in the directory, or open in some process, is allocated: iput frees it
\* only after the last name and the last open file are gone, however the unlink,
\* the close and an open of the same name interleave.
NoDangling ==
  /\ \A n \in Names : dir[n] # NoInum => allocated[dir[n]]
  /\ \A p \in Procs : fd[p] # NoSlot => allocated[inum[fd[p]]]

\* Link counts on disk are exact: entries of the directory, plus one for every
\* call between its change of the count and its change of the directory
\* (sys_link, sys_unlink, create); and no inode is freed too early.
LinksExact ==
  /\ NoDangling
  /\ \A i \in Inums :
       dnlink[i] = Cardinality({n \in Names : dir[n] = i})
                   + Cardinality({p \in Procs :
                        /\ pc[p] \in {"create_link", "link_dir", "link_found", "link_bad",
                                      "unlink_put"}
                        /\ inum[ip[p]] = i})

\* The locks that a process which has locked the directory waits for
Wanted(p) ==
  CASE pc[p] \in {"create", "unlink"} -> {ip[p]}
    [] pc[p] = "link_found" -> Cached(dir[name[p]])
    [] OTHER -> {}

\* One process has the directory and wants an inode, another has that inode and
\* wants the directory.
LockCycle ==
  \E p, q \in Procs :
    /\ dirlock = p
    /\ pc[q] \in {"create_put", "unlink_put"}
    /\ \E s \in Wanted(p) : owner[s] = q

\* Concurrent create, link and unlink do not deadlock.  This does not hold: create and
\* sys_unlink lock the directory again, in iput, with the inode locked (sysfile.c:310).
NoLockCycle == ~LockCycle

\* The calls can come to a stop in one way only, the cycle of two locks above, which
\* create and sys_unlink make possible: no lock is left held, and no other order of
\* locks waits for itself.
StopsOnlyInLockCycle == LockCycle \/ panicked \/ ENABLED Next

\* "If that was the last reference and the inode has no links to it, free the
\* inode".  This does not hold: two processes in iput each see the other's reference
\* (fs.c:341), and the inode stays allocated with nobody to free it.
NoForgottenInode ==
  \A i \in Inums : allocated[i] /\ dnlink[i] = 0 => Cached(i) # {}
=============================================================================
