---------------------------- MODULE InodeProofs ----------------------------
(***************************************************************************)
(* The inode cache counts references and links exactly, for any number of  *)
(* processes, names, inodes and cache entries.                             *)
(***************************************************************************)
EXTENDS Inode, FiniteSetTheorems, TLAPS

----------------------------------------------------------------------------
\* The calls between a change of a link count and the change of the directory
Linking == {"create_link", "link_dir", "link_found", "link_bad", "unlink_put"}

\* A process in a call has a slot and keeps what it was called with; the four calls that
\* change or search the directory at length have it locked.
LocOf(p) ==
  /\ pc[p] = "idle" <=> ip[p] = NoSlot
  /\ pc[p] \in {"create", "create_link", "link", "link_dir", "link_found", "unlink"} =>
       name[p] \in Names
  /\ pc[p] \in {"create", "create_link", "link_found", "unlink"} => dirlock = p
  /\ pc[p] \in {"open", "create", "create_link", "create_put"} => fd[p] = NoSlot
LocInv == \A p \in Procs : LocOf(p)

\* One entry for an inode, which agrees with the disk once it has been read.
CacheInv ==
  /\ \A s, t \in Slots : ref[s] > 0 /\ ref[t] > 0 /\ inum[s] = inum[t] => s = t
  /\ \A s \in Slots : ref[s] > 0 =>
       /\ inum[s] \in Inums
       /\ valid[s] => allocated[inum[s]] /\ nlink[s] = dnlink[inum[s]]
  /\ \A i \in Inums : ~allocated[i] => dnlink[i] = 0

\* iput has decided, or is done, with the inode of the process.
Leaving == {"put_unlock", "put_ref"}

\* What a call relies on: its inode is allocated; nobody comes to an inode that iput is
\* about to free, nor to a new one before it has a name; and a directory entry stays what
\* it was while the directory is locked.
UseOf(p) ==
  /\ pc[p] \notin Leaving \cup {"idle"} => allocated[inum[ip[p]]]
  /\ pc[p] \in {"unlink_put", "put_free"} => valid[ip[p]]
  /\ pc[p] = "put_free" => nlink[ip[p]] = 0 /\ ref[ip[p]] = 1
  /\ pc[p] = "create" =>
       /\ dnlink[inum[ip[p]]] = 0
       /\ \A q \in Procs : fd[q] # ip[p] /\ (ip[q] = ip[p] => q = p \/ pc[q] \in Leaving)
  /\ pc[p] \in {"create", "create_link"} => dir[name[p]] = NoInum
  /\ pc[p] = "unlink" => dir[name[p]] = inum[ip[p]]
UseInv == \A p \in Procs : UseOf(p)

RefInv ==
  \A s \in Slots : ref[s] = Cardinality(Users(s)) + Cardinality(Openers(s)) + leaked[s]

Entries(i) == {n \in Names : dir[n] = i}
Linkers(i) == {p \in Procs : pc[p] \in Linking /\ inum[ip[p]] = i}
LinkInv == \A i \in Inums : dnlink[i] = Cardinality(Entries(i)) + Cardinality(Linkers(i))

IInv == /\ TypeOK /\ CacheInv /\ NoDangling /\ RefInv /\ LinkInv /\ NoPanic
        /\ ~panicked => LocInv /\ UseInv

----------------------------------------------------------------------------
\* Counting

\* Two subsets of a finite set that agree but for x
Apart(F, S, T, x) ==
  IsFiniteSet(F) /\ S \in SUBSET F /\ T \in SUBSET F /\ x \in F /\ S \ {x} = T \ {x}

Counted(S, T, x) ==
  /\ Cardinality(S) \in Nat /\ Cardinality(T) \in Nat
  /\ Cardinality(T) = Cardinality(S) + (IF x \in T THEN 1 ELSE 0) - (IF x \in S THEN 1 ELSE 0)

\* The cardinalities of two sets that differ in one element
LEMMA OneApart ==
  ASSUME NEW F, NEW S, NEW T, NEW x, Apart(F, S, T, x)
  PROVE  Counted(S, T, x)
<1> USE DEF Apart, Counted
<1>1. IsFiniteSet(S) /\ IsFiniteSet(T)
  BY FS_Subset, Zenon
<1>2. Cardinality(S) \in Nat /\ Cardinality(T) \in Nat
  BY <1>1, FS_CardinalityType, Zenon
<1>3. /\ Cardinality(S \ {x}) = IF x \in S THEN Cardinality(S) - 1 ELSE Cardinality(S)
      /\ Cardinality(T \ {x}) = IF x \in T THEN Cardinality(T) - 1 ELSE Cardinality(T)
  BY <1>1, FS_RemoveElement, Zenon
<1>4. Cardinality(S \ {x}) = Cardinality(T \ {x})
  OBVIOUS
<1> QED
  BY <1>2, <1>3, <1>4, SMT

\* A subset of a finite set with a member
LEMMA Inhabited ==
  ASSUME NEW F, IsFiniteSet(F), NEW S \in SUBSET F
  PROVE  /\ Cardinality(S) \in Nat
         /\ Cardinality(S) = 0 => S = {}
         /\ \A x \in S : Cardinality(S) > 0 /\ (Cardinality(S) = 1 => S = {x})
<1>1. IsFiniteSet(S)
  BY FS_Subset, Zenon
<1>2. Cardinality(S) \in Nat
  BY <1>1, FS_CardinalityType, Zenon
<1>3. Cardinality(S) = 0 => S = {}
  BY <1>1, FS_EmptySet, Zenon
<1>4. Cardinality(S) = 1 => \E y : S = {y}
  BY <1>1, FS_Singleton, Zenon
<1> HIDE <1>1
<1>5. \A x \in S : Cardinality(S) # 0
  BY <1>3, Zenon
<1>6. \A x \in S : Cardinality(S) > 0
  BY <1>2, <1>5
<1>7. \A x \in S : Cardinality(S) = 1 => S = {x}
  BY <1>4, Zenon
<1> QED
  BY <1>2, <1>3, <1>6, <1>7, Zenon

\* What a process uses or has open is referenced, and a single reference is of one process.
LEMMA Referenced ==
  ASSUME TypeOK, RefInv
  PROVE  /\ \A p \in Procs : ip[p] # NoSlot => ref[ip[p]] > 0
         /\ \A p \in Procs : fd[p] # NoSlot => ref[fd[p]] > 0
         /\ \A p \in Procs : ip[p] # NoSlot /\ ref[ip[p]] = 1 =>
              \A q \in Procs : fd[q] # ip[p] /\ (ip[q] = ip[p] => q = p)
<1> DEFINE U(s) == Cardinality(Users(s))
           O(s) == Cardinality(Openers(s))
<1>1. /\ ip \in [Procs -> Slots \cup {NoSlot}] /\ fd \in [Procs -> Slots \cup {NoSlot}]
      /\ ref \in [Slots -> Nat] /\ leaked \in [Slots -> Nat]
  BY Zenon DEF TypeOK
<1>2. ASSUME NEW s \in Slots
      PROVE  /\ U(s) \in Nat /\ O(s) \in Nat
             /\ \A p \in Users(s) : U(s) > 0 /\ (U(s) = 1 => Users(s) = {p})
             /\ \A p \in Openers(s) : O(s) > 0
  <2>1. Users(s) \in SUBSET Procs /\ Openers(s) \in SUBSET Procs /\ IsFiniteSet(Procs)
    BY SizeAssumption, Zenon DEF Users, Openers
  <2> QED
    BY <2>1, Inhabited, Zenon
<1>3. \A s \in Slots : ref[s] = U(s) + O(s) + leaked[s] /\ ref[s] \in Nat /\ leaked[s] \in Nat
  BY <1>1, Zenon DEF RefInv
<1> HIDE DEF U, O
<1>4. ASSUME NEW p \in Procs, ip[p] # NoSlot
      PROVE  /\ ref[ip[p]] > 0
             /\ ref[ip[p]] = 1 => O(ip[p]) = 0 /\ Users(ip[p]) = {p}
  <2>1. ip[p] \in Slots /\ p \in Users(ip[p])
    BY <1>1, <1>4, Zenon DEF Users
  <2>2. U(ip[p]) > 0 /\ (U(ip[p]) = 1 => Users(ip[p]) = {p}) /\ U(ip[p]) \in Nat /\ O(ip[p]) \in Nat
    BY <1>2, <2>1, Zenon
  <2> QED
    BY <1>3, <2>1, <2>2
<1>5. ASSUME NEW p \in Procs, fd[p] # NoSlot
      PROVE  fd[p] \in Slots /\ ref[fd[p]] > 0 /\ O(fd[p]) > 0
  <2>1. fd[p] \in Slots /\ p \in Openers(fd[p])
    BY <1>1, <1>5, Zenon DEF Openers
  <2>2. O(fd[p]) > 0 /\ U(fd[p]) \in Nat /\ O(fd[p]) \in Nat
    BY <1>2, <2>1, Zenon
  <2> QED
    BY <1>3, <2>1, <2>2
<1>6. ASSUME NEW p \in Procs, ip[p] # NoSlot, ref[ip[p]] = 1, NEW q \in Procs
      PROVE  fd[q] # ip[p] /\ (ip[q] = ip[p] => q = p)
  <2>1. O(ip[p]) = 0 /\ Users(ip[p]) = {p}
    BY <1>4, <1>6, Zenon
  <2>2. fd[q] # ip[p]
    BY <1>5, <1>6, <2>1
  <2>3. ip[q] = ip[p] => q = p
    BY <2>1, Zenon DEF Users
  <2> QED
    BY <2>2, <2>3
<1> QED
  BY <1>4, <1>5, <1>6, Zenon

\* An inode without links is in no directory entry, and in no call that links it.
LEMMA Linked ==
  ASSUME TypeOK, LinkInv
  PROVE  \A i \in Inums : dnlink[i] = 0 => Entries(i) = {} /\ Linkers(i) = {}
<1> DEFINE E(i) == Cardinality(Entries(i))
           L(i) == Cardinality(Linkers(i))
<1>1. ASSUME NEW i \in Inums, dnlink[i] = 0
      PROVE  Entries(i) = {} /\ Linkers(i) = {}
  <2>1. /\ Entries(i) \in SUBSET Names /\ IsFiniteSet(Names)
        /\ Linkers(i) \in SUBSET Procs /\ IsFiniteSet(Procs)
    BY SizeAssumption, Zenon DEF Entries, Linkers
  <2>2. E(i) \in Nat /\ L(i) \in Nat /\ (E(i) = 0 => Entries(i) = {}) /\ (L(i) = 0 => Linkers(i) = {})
    BY <2>1, Inhabited, Zenon
  <2>3. dnlink[i] = E(i) + L(i)
    BY Zenon DEF LinkInv
  <2> HIDE DEF E, L
  <2>4. E(i) = 0 /\ L(i) = 0
    BY <1>1, <2>2, <2>3
  <2> QED
    BY <2>2, <2>4
<1> QED
  BY <1>1, Zenon

----------------------------------------------------------------------------
\* iget

\* p has taken a reference to inode i, in entry s.
Got(p, i, s) ==
  /\ ip' = [ip EXCEPT ![p] = s]
  /\ ref' = [ref EXCEPT ![s] = @ + 1]
  /\ inum' = [inum EXCEPT ![s] = i]
  /\ UNCHANGED panicked
  /\ \/ ref[s] > 0 /\ inum[s] = i /\ valid' = valid
     \/ ref[s] = 0 /\ Cached(i) = {} /\ valid' = [valid EXCEPT ![s] = FALSE]

\* The cache is full of other inodes.
Full(i) ==
  /\ panicked' = TRUE /\ UNCHANGED <<inum, ref, valid, ip>>
  /\ NINODE < Cardinality(Inums)

\* If every entry is in use, and none for i, there are more inodes than entries.
LEMMA PigeonHole ==
  ASSUME TypeOK, CacheInv, NEW i \in Inums, Cached(i) = {}, Empty = {}
  PROVE  NINODE < Cardinality(Inums)
<1> DEFINE I == Inums \ {i}
<1>1. /\ ref \in [Slots -> Nat]
      /\ inum \in [Slots -> Inums \cup {NoInum}]
  BY Zenon DEF TypeOK
<1>2. \A s \in Slots : ref[s] > 0
  BY <1>1 DEF Empty
<1>3. \A s \in Slots : inum[s] \in I
  BY <1>2, Zenon DEF CacheInv, Cached
<1>4. \A s, t \in Slots : s # t => inum[s] # inum[t]
  BY <1>2, Zenon DEF CacheInv
<1>5. inum \in [Slots -> I]
  BY <1>1, <1>3, Zenon
<1>6. IsFiniteSet(I) /\ Cardinality(I) = Cardinality(Inums) - 1
  BY SizeAssumption, FS_RemoveElement, Zenon
<1>7. Cardinality(Inums) \in Nat
  BY SizeAssumption, FS_CardinalityType, Zenon
<1>8. IsFiniteSet(Slots) /\ Cardinality(Slots) = NINODE
  BY SizeAssumption, FS_Interval DEF Slots
<1> HIDE DEF I
<1>9. ~(Cardinality(I) < Cardinality(Slots))
  <2> SUFFICES ASSUME Cardinality(I) < Cardinality(Slots) PROVE FALSE
    OBVIOUS
  <2>1. \E s, t \in Slots : s # t /\ inum[s] = inum[t]
    BY <1>5, <1>6, <1>8, FS_PigeonHole
  <2> QED
    BY <1>4, <2>1, Zenon
<1> QED
  BY <1>6, <1>7, <1>8, <1>9, SizeAssumption

\* iget takes a reference to an entry for i, or finds the cache full and panics.
LEMMA Iget ==
  ASSUME TypeOK, CacheInv, ~panicked, NEW p \in Procs, NEW i \in Inums, iget(p, i)
  PROVE  Full(i) \/ \E s \in Slots : Got(p, i, s)
<1>1. ref \in [Slots -> Nat] /\ inum \in [Slots -> Inums \cup {NoInum}]
  BY Zenon DEF TypeOK
<1>2. CASE Cached(i) # {}
  <2>1. PICK s \in Cached(i) : /\ ref' = [ref EXCEPT ![s] = @ + 1]
                               /\ ip' = [ip EXCEPT ![p] = s]
                               /\ UNCHANGED <<inum, valid, panicked>>
    BY <1>2, Zenon DEF iget
  <2>2. s \in Slots /\ ref[s] > 0 /\ inum[s] = i
    BY Zenon DEF Cached
  <2>3. inum' = [inum EXCEPT ![s] = i]
    BY <1>1, <2>1, <2>2, SMT
  <2> QED
    BY <2>1, <2>2, <2>3, Zenon DEF Got
<1>3. CASE Cached(i) = {} /\ Empty = {}
  BY <1>3, PigeonHole, Zenon DEF iget, Full
<1>4. CASE Cached(i) = {} /\ Empty # {}
  <2>1. PICK s \in Slots : /\ First(s, Empty)
                           /\ inum' = [inum EXCEPT ![s] = i]
                           /\ ref' = [ref EXCEPT ![s] = 1]
                           /\ valid' = [valid EXCEPT ![s] = FALSE]
                           /\ ip' = [ip EXCEPT ![p] = s]
                           /\ UNCHANGED panicked
    BY <1>4, Zenon DEF iget
  <2>2. ref[s] = 0
    BY <2>1, Zenon DEF First, Empty
  <2>3. ref' = [ref EXCEPT ![s] = @ + 1]
    BY <2>1, <2>2, 0 + 1 = 1, Zenon
  <2> QED
    BY <1>4, <2>1, <2>2, <2>3, Zenon DEF Got
<1> QED
  BY <1>2, <1>3, <1>4, Zenon

----------------------------------------------------------------------------
\* ilock, and what is done under the lock

\* The entry s of an allocated inode has been read, and has n links, as the disk.
Visited(s, n) ==
  /\ valid' = [valid EXCEPT ![s] = TRUE]
  /\ nlink' = [nlink EXCEPT ![s] = n]
  /\ dnlink' = [dnlink EXCEPT ![inum[s]] = n]
  /\ panicked' = FALSE
  /\ UNCHANGED <<allocated, inum, ref>>

\* The calls that lock an inode find it allocated, with the links that it has on disk.
LEMMA Ilock ==
  ASSUME TypeOK, CacheInv, RefInv, LocInv, UseInv, NEW p \in Procs,
         pc[p] \in {"open", "create", "link", "link_bad", "unlink", "unlink_put", "chmod"}
  PROVE  /\ ip[p] \in Slots /\ ref[ip[p]] > 0 /\ inum[ip[p]] \in Inums /\ allocated[inum[ip[p]]]
         /\ LockPanics(ip[p]) = FALSE /\ Links(ip[p]) = dnlink[inum[ip[p]]]
<1>1. /\ ip[p] \in Slots \cup {NoSlot}
      /\ ref \in [Slots -> Nat]
  BY Zenon DEF TypeOK
<1>2. ip[p] # NoSlot /\ allocated[inum[ip[p]]]
  BY Zenon DEF LocInv, LocOf, UseInv, UseOf, Leaving
<1>3. ip[p] \in Slots /\ ref[ip[p]] > 0 /\ inum[ip[p]] \in Inums
  BY <1>1, <1>2, Referenced, Zenon DEF CacheInv
<1>4. ~(ref[ip[p]] < 1)
  BY <1>1, <1>3
<1>5. LockPanics(ip[p]) = FALSE
  BY <1>2, <1>4, Zenon DEF LockPanics
<1>6. Links(ip[p]) = dnlink[inum[ip[p]]]
  BY <1>3, Zenon DEF Links, CacheInv
<1> QED
  BY <1>2, <1>3, <1>5, <1>6, Zenon

\* The links of an inode before and after a visit
LEMMA Visits ==
  ASSUME TypeOK, CacheInv, RefInv, LinkInv, LocInv, UseInv, ~panicked, NEW p \in Procs
  PROVE  LET s == ip[p]  d == dnlink[inum[ip[p]]] IN
         /\ Open(p) => Visited(s, d)
         /\ Create(p) => Visited(s, 1)
         /\ Link(p) => Visited(s, d + 1)
         /\ LinkBad(p) => Visited(s, d - 1)
         /\ Unlink(p) => Visited(s, d)
         /\ UnlinkDec(p) => Visited(s, d - 1)
         /\ Chmod(p) => Visited(s, d)
<1> DEFINE s == ip[p]  d == dnlink[inum[ip[p]]]
<1>1. dnlink \in [Inums -> 0 .. MaxLink]
  BY Zenon DEF TypeOK
<1> USE DEF At, Goto
<1>2. ASSUME Open(p) PROVE Visited(s, d)
  <2>1. LockPanics(s) = FALSE /\ Links(s) = d /\ inum[s] \in Inums
    BY <1>2, Ilock, Zenon DEF Open
  <2>2. dnlink' = [dnlink EXCEPT ![inum[s]] = d]
    BY <1>1, <1>2, <2>1, SMT DEF Open, disk
  <2> QED
    BY <1>2, <2>1, <2>2, Zenon DEF Open, Visited, disk
<1>3. ASSUME Create(p) PROVE Visited(s, 1)
  BY <1>3, Ilock, Zenon DEF Create, SetLinks, Visited
<1>4. ASSUME Link(p) PROVE Visited(s, d + 1)
  BY <1>4, Ilock, Zenon DEF Link, SetLinks, Visited
<1>5. ASSUME LinkBad(p) PROVE Visited(s, d - 1)
  BY <1>5, Ilock, Zenon DEF LinkBad, SetLinks, Visited
<1>6. ASSUME Unlink(p) PROVE Visited(s, d)
  <2>1. pc[p] = "unlink"
    BY <1>6, Zenon DEF Unlink
  <2>2. /\ LockPanics(s) = FALSE /\ Links(s) = d /\ inum[s] \in Inums
        /\ dir[name[p]] = inum[s] /\ name[p] \in Names
    BY <2>1, Ilock, Zenon DEF UseInv, UseOf, LocInv, LocOf
  <2>3. d # 0
    BY <2>2, Linked, Zenon DEF Entries
  <2>4. ~(d < 1)
    BY <1>1, <2>2, <2>3, SizeAssumption
  <2>5. dnlink' = [dnlink EXCEPT ![inum[s]] = d]
    BY <1>1, <1>6, <2>2, SMT DEF Unlink
  <2> QED
    BY <1>6, <2>2, <2>4, <2>5, Zenon DEF Unlink, Visited
<1>7. ASSUME UnlinkDec(p) PROVE Visited(s, d - 1)
  <2>1. pc[p] = "unlink_put"
    BY <1>7, Zenon DEF UnlinkDec
  <2>2. nlink[s] = d
    BY <2>1, Ilock, Zenon DEF UseInv, UseOf, CacheInv
  <2>3. panicked' = FALSE
    BY <1>7, Zenon DEF UnlinkDec, TypeOK
  <2> QED
    BY <1>7, <2>2, <2>3, Zenon DEF UnlinkDec, SetLinks, Visited
<1>8. ASSUME Chmod(p) PROVE Visited(s, d)
  BY <1>8, Ilock, Zenon DEF Chmod, SetLinks, Visited
<1> QED
  BY <1>2, <1>3, <1>4, <1>5, <1>6, <1>7, <1>8, Zenon

----------------------------------------------------------------------------
\* CacheInv

\* What keeps the cache and the disk together: iget, of a name or of a new inode,
LEMMA CacheGot ==
  ASSUME TypeOK, CacheInv, NEW p \in Procs, NEW i \in Inums, NEW s \in Slots, Got(p, i, s),
         UNCHANGED nlink,
         \/ UNCHANGED <<allocated, dnlink>>
         \/ /\ ~allocated[i] /\ allocated' = [allocated EXCEPT ![i] = TRUE]
            /\ dnlink' = [dnlink EXCEPT ![i] = 0]
  PROVE  CacheInv'
<1>1. /\ ref \in [Slots -> Nat] /\ inum \in [Slots -> Inums \cup {NoInum}]
      /\ valid \in [Slots -> BOOLEAN] /\ allocated \in [Inums -> BOOLEAN]
      /\ dnlink \in [Inums -> 0 .. MaxLink]
  BY Zenon DEF TypeOK
<1>2. /\ inum'[s] = i /\ \A t \in Slots \ {s} : inum'[t] = inum[t]
      /\ \A t \in Slots \ {s} : ref'[t] = ref[t] /\ valid'[t] = valid[t]
      /\ valid'[s] => ref[s] > 0 /\ inum[s] = i /\ valid[s]
      /\ \A t \in Slots : ref[t] > 0 /\ inum[t] = i => t = s
  <2>1. inum'[s] = i /\ \A t \in Slots \ {s} : inum'[t] = inum[t]
    BY <1>1, Zenon DEF Got
  <2>2. \A t \in Slots \ {s} : ref'[t] = ref[t] /\ valid'[t] = valid[t]
    BY <1>1, Zenon DEF Got
  <2>3. valid'[s] => ref[s] > 0 /\ inum[s] = i /\ valid[s]
    BY <1>1, Zenon DEF Got
  <2>4. \A t \in Slots : ref[t] > 0 /\ inum[t] = i => t = s
    BY Zenon DEF Got, CacheInv, Cached
  <2> QED
    BY <2>1, <2>2, <2>3, <2>4, Zenon
<1>3. /\ \A j \in Inums \ {i} : allocated'[j] = allocated[j]
      /\ \A j \in Inums \ {i} : dnlink'[j] = dnlink[j]
      /\ UNCHANGED <<allocated, dnlink>> \/ (~allocated[i] /\ dnlink'[i] = 0)
  BY <1>1, Zenon
<1>4. ASSUME NEW t \in Slots, NEW u \in Slots, ref'[t] > 0, ref'[u] > 0, inum'[t] = inum'[u]
      PROVE  t = u
  <2>1. ASSUME NEW v \in Slots \ {s}, ref'[v] > 0
        PROVE  ref[v] > 0 /\ inum'[v] = inum[v] /\ inum[v] # i
    BY <1>2, <2>1, Zenon
  <2>2. CASE t = s \/ u = s
    BY <1>2, <1>4, <2>1, <2>2, Zenon
  <2>3. CASE t # s /\ u # s
    BY <1>4, <2>1, <2>3, Zenon DEF CacheInv
  <2> QED
    BY <2>2, <2>3
<1>5. ASSUME NEW t \in Slots, ref'[t] > 0
      PROVE  inum'[t] \in Inums /\ (valid'[t] => allocated'[inum'[t]] /\ nlink'[t] = dnlink'[inum'[t]])
  <2>1. CASE t = s
    <3>1. inum'[t] \in Inums
      BY <1>2, <2>1, Zenon
    <3>2. ASSUME valid'[t] PROVE allocated'[inum'[t]] /\ nlink'[t] = dnlink'[inum'[t]]
      <4>1. allocated[i] /\ nlink[s] = dnlink[i]
        BY <1>2, <2>1, <3>2, ZenonT(30) DEF CacheInv
      <4>2. UNCHANGED <<allocated, dnlink>>
        BY <1>3, <4>1, Zenon
      <4> QED
        BY <1>2, <2>1, <4>1, <4>2, Zenon
    <3> QED
      BY <3>1, <3>2
  <2>2. CASE t # s
    <3>1. inum[t] \in Inums /\ (valid[t] => allocated[inum[t]] /\ nlink[t] = dnlink[inum[t]])
      BY <1>2, <1>5, <2>2, Zenon DEF CacheInv
    <3>2. inum[t] # i /\ inum'[t] = inum[t] /\ valid'[t] = valid[t]
      BY <1>2, <1>5, <2>2, Zenon
    <3> QED
      BY <1>3, <3>1, <3>2, Zenon
  <2> QED
    BY <2>1, <2>2
<1>6. ASSUME NEW j \in Inums, ~allocated'[j] PROVE dnlink'[j] = 0
  <2>1. CASE UNCHANGED <<allocated, dnlink>>
    BY <1>6, <2>1, Zenon DEF CacheInv
  <2>2. CASE j = i /\ dnlink'[i] = 0
    BY <2>2
  <2>3. CASE j # i
    BY <1>3, <1>6, <2>3, Zenon DEF CacheInv
  <2> QED
    BY <1>3, <2>1, <2>2, <2>3, Zenon
<1> QED
  BY <1>4, <1>5, <1>6, Zenon DEF CacheInv

\* ... a visit under the lock,
LEMMA CacheVisited ==
  ASSUME TypeOK, CacheInv, NEW s \in Slots, ref[s] > 0, inum[s] \in Inums, allocated[inum[s]],
         NEW n, Visited(s, n)
  PROVE  CacheInv'
<1>1. /\ nlink \in [Slots -> 0 .. MaxLink] /\ dnlink \in [Inums -> 0 .. MaxLink]
      /\ valid \in [Slots -> BOOLEAN]
  BY Zenon DEF TypeOK
<1>2. /\ nlink'[s] = n /\ \A t \in Slots \ {s} : nlink'[t] = nlink[t] /\ valid'[t] = valid[t]
      /\ dnlink'[inum[s]] = n /\ \A j \in Inums \ {inum[s]} : dnlink'[j] = dnlink[j]
      /\ allocated' = allocated /\ inum' = inum /\ ref' = ref
  BY <1>1, Zenon DEF Visited
<1>3. ASSUME NEW t \in Slots, ref[t] > 0
      PROVE  inum[t] \in Inums /\ (valid'[t] => allocated[inum[t]] /\ nlink'[t] = dnlink'[inum[t]])
  <2>1. CASE t = s
    BY <1>2, <2>1, Zenon
  <2>2. CASE t # s
    <3>1. inum[t] \in Inums \ {inum[s]}
      BY <1>3, <2>2, Zenon DEF CacheInv
    <3> QED
      BY <1>2, <1>3, <2>2, <3>1, Zenon DEF CacheInv
  <2> QED
    BY <2>1, <2>2
<1>4. ASSUME NEW j \in Inums, ~allocated[j] PROVE dnlink'[j] = 0
  BY <1>2, <1>4, Zenon DEF CacheInv
<1> QED
  BY <1>2, <1>3, <1>4, Zenon DEF CacheInv

\* ... and iput when it frees the inode, which has then no links and one reference.
LEMMA CachePutFree ==
  ASSUME TypeOK, CacheInv, RefInv, LocInv, UseInv, NEW p \in Procs, PutFree(p)
  PROVE  /\ CacheInv'
         /\ ip[p] \in Slots /\ ref[ip[p]] = 1 /\ inum[ip[p]] \in Inums /\ dnlink[inum[ip[p]]] = 0
         /\ dnlink' = dnlink
<1> DEFINE s == ip[p]
<1>1. /\ nlink \in [Slots -> 0 .. MaxLink] /\ dnlink \in [Inums -> 0 .. MaxLink]
      /\ valid \in [Slots -> BOOLEAN] /\ allocated \in [Inums -> BOOLEAN]
      /\ s \in Slots \cup {NoSlot}
  BY Zenon DEF TypeOK
<1>2. pc[p] = "put_free"
  BY Zenon DEF PutFree, Goto, At
<1>3. s \in Slots /\ ref[s] = 1 /\ nlink[s] = 0 /\ valid[s]
  BY <1>1, <1>2, Zenon DEF LocInv, LocOf, UseInv, UseOf
<1>4. ref[s] > 0
  BY <1>3
<1>5. inum[s] \in Inums /\ dnlink[inum[s]] = 0
  BY <1>3, <1>4, Zenon DEF CacheInv
<1>6. dnlink' = dnlink
  BY <1>1, <1>3, <1>5, SMT DEF PutFree
<1>7. /\ \A t \in Slots \ {s} : valid'[t] = valid[t]
      /\ ~valid'[s]
      /\ \A j \in Inums \ {inum[s]} : allocated'[j] = allocated[j]
      /\ nlink' = nlink /\ inum' = inum /\ ref' = ref
  BY <1>1, <1>3, <1>5, Zenon DEF PutFree
<1>8. ASSUME NEW t \in Slots, ref[t] > 0
      PROVE  inum[t] \in Inums /\ (valid'[t] => allocated'[inum[t]] /\ nlink[t] = dnlink[inum[t]])
  <2>1. inum[t] \in Inums
    BY <1>8, Zenon DEF CacheInv
  <2>2. ASSUME valid'[t] PROVE allocated'[inum[t]] /\ nlink[t] = dnlink[inum[t]]
    <3>1. t # s /\ valid[t]
      BY <1>7, <2>2, Zenon
    <3>2. inum[t] # inum[s]
      BY <1>3, <1>4, <1>8, <3>1, Zenon DEF CacheInv
    <3> QED
      BY <1>7, <1>8, <2>1, <3>1, <3>2, Zenon DEF CacheInv
  <2> QED
    BY <2>1, <2>2
<1>9. ASSUME NEW j \in Inums, ~allocated'[j] PROVE dnlink[j] = 0
  BY <1>5, <1>7, <1>9, Zenon DEF CacheInv
<1>10. CacheInv'
  BY <1>6, <1>7, <1>8, <1>9, Zenon DEF CacheInv
<1> QED
  BY <1>3, <1>5, <1>6, <1>10

----------------------------------------------------------------------------
\* TypeOK

\* The part of the state that iget changes
GotTypes ==
  /\ inum' \in [Slots -> Inums \cup {NoInum}] /\ ref' \in [Slots -> Nat]
  /\ valid' \in [Slots -> BOOLEAN] /\ ip' \in [Procs -> Slots \cup {NoSlot}]
  /\ panicked' \in BOOLEAN

\* The types of what iget changes
LEMMA TypeGot ==
  ASSUME TypeOK, CacheInv, ~panicked, NEW p \in Procs, NEW i \in Inums, iget(p, i)
  PROVE  GotTypes
<1>1. CASE Full(i)
  BY <1>1, Zenon DEF Full, TypeOK, GotTypes
<1>2. ASSUME NEW s \in Slots, Got(p, i, s) PROVE GotTypes
  <2>1. inum' \in [Slots -> Inums \cup {NoInum}]
    BY <1>2, Zenon DEF Got, TypeOK
  <2>2. ref' \in [Slots -> Nat]
    BY <1>2, SMT DEF Got, TypeOK
  <2>3. valid' \in [Slots -> BOOLEAN]
    BY <1>2, Zenon DEF Got, TypeOK
  <2>4. ip' \in [Procs -> Slots \cup {NoSlot}] /\ panicked' \in BOOLEAN
    BY <1>2, Zenon DEF Got, TypeOK
  <2> QED
    BY <2>1, <2>2, <2>3, <2>4 DEF GotTypes
<1> QED
  BY <1>1, <1>2, Iget, Zenon

\* ... and the part that a visit under the lock changes
LEMMA TypeVisited ==
  ASSUME TypeOK, NEW s \in Slots, NEW n \in 0 .. MaxLink, Visited(s, n)
  PROVE  /\ valid' \in [Slots -> BOOLEAN] /\ nlink' \in [Slots -> 0 .. MaxLink]
         /\ dnlink' \in [Inums -> 0 .. MaxLink] /\ panicked' \in BOOLEAN
         /\ UNCHANGED <<allocated, inum, ref>>
<1>1. valid' \in [Slots -> BOOLEAN] /\ nlink' \in [Slots -> 0 .. MaxLink]
  BY Zenon DEF Visited, TypeOK
<1>2. dnlink' \in [Inums -> 0 .. MaxLink]
  BY Zenon DEF Visited, TypeOK
<1> QED
  BY <1>1, <1>2, Zenon DEF Visited

\* Every step keeps the types.  The links of an inode stay within the bound, and no
\* reference is dropped that is not there.
LEMMA TypeStep ==
  ASSUME TypeOK, CacheInv, RefInv, LinkInv, LocInv, UseInv, ~panicked, NEW p \in Procs,
         Call(p) \/ Step(p)
  PROVE  TypeOK'
<1> DEFINE s == ip[p]
           d == dnlink[inum[ip[p]]]
<1> USE DEF At, Goto, Locations
<1>1. /\ dir \in [Names -> Inums \cup {NoInum}]
      /\ dnlink \in [Inums -> 0 .. MaxLink] /\ MaxLink \in Nat \ {0} /\ s \in Slots \cup {NoSlot}
  BY SizeAssumption, Zenon DEF TypeOK
<1>2. /\ allocated \in [Inums -> BOOLEAN] /\ dirlock \in Procs \cup {None}
      /\ inum \in [Slots -> Inums \cup {NoInum}] /\ ref \in [Slots -> Nat]
      /\ valid \in [Slots -> BOOLEAN] /\ nlink \in [Slots -> 0 .. MaxLink]
      /\ owner \in [Slots -> Procs \cup {None}] /\ pc \in [Procs -> Locations]
      /\ ip \in [Procs -> Slots \cup {NoSlot}] /\ name \in [Procs -> Names \cup {NoName}]
      /\ fd \in [Procs -> Slots \cup {NoSlot}] /\ leaked \in [Slots -> Nat]
      /\ panicked \in BOOLEAN
  BY Zenon DEF TypeOK
<1>3. ASSUME Close(p) PROVE TypeOK'
  BY <1>1, <1>2, <1>3, Zenon DEF Close, TypeOK, disk, cache
<1>4. ASSUME NEW n \in Names, CallFails(p, n) PROVE TypeOK'
  BY <1>1, <1>2, <1>4, Zenon DEF CallFails, vars, TypeOK
<1>5. ASSUME NEW n \in Names, OpenCall(p, n) \/ ChmodCall(p, n) PROVE TypeOK'
  <2>1. PICK to \in Locations : Namei(p, n, to)
    BY <1>5, Zenon DEF OpenCall, ChmodCall
  <2>2. dir[n] \in Inums /\ iget(p, dir[n])
    BY <1>1, <2>1, Zenon DEF Namei
  <2>3. GotTypes
    BY <2>2, TypeGot, Zenon
  <2> QED
    BY <1>1, <1>2, <2>1, <2>3, Zenon DEF GotTypes, Namei, TypeOK, disk
<1>6. ASSUME NEW n \in Names, UnlinkCall(p, n) PROVE TypeOK'
  <2>1. dir[n] \in Inums /\ iget(p, dir[n])
    BY <1>1, <1>6, Zenon DEF UnlinkCall
  <2>2. GotTypes
    BY <2>1, TypeGot, Zenon
  <2> QED
    BY <1>1, <1>2, <1>6, <2>2, Zenon DEF GotTypes, UnlinkCall, TypeOK, disk
<1>7. ASSUME NEW n \in Names, CreateCall(p, n) PROVE TypeOK'
  <2>1. PICK i \in Inums : /\ allocated' = [allocated EXCEPT ![i] = TRUE]
                           /\ dnlink' = [dnlink EXCEPT ![i] = 0]
                           /\ iget(p, i)
    BY <1>7, Zenon DEF CreateCall, ialloc
  <2>2. GotTypes
    BY <2>1, TypeGot, Zenon
  <2>3. 0 \in 0 .. MaxLink
    BY <1>1
  <2>4. allocated' \in [Inums -> BOOLEAN] /\ dnlink' \in [Inums -> 0 .. MaxLink]
    BY <1>1, <1>2, <2>1, <2>3, Zenon
  <2> QED
    BY <1>1, <1>2, <1>7, <2>2, <2>4, Zenon DEF GotTypes, CreateCall, TypeOK
<1>8. ASSUME NEW old \in Names, NEW n \in Names, LinkCall(p, old, n) PROVE TypeOK'
  <2>1. dir[old] \in Inums /\ iget(p, dir[old])
    BY <1>1, <1>8, Zenon DEF LinkCall
  <2>2. GotTypes
    BY <2>1, TypeGot, Zenon
  <2> QED
    BY <1>1, <1>2, <1>8, <2>2, Zenon DEF GotTypes, LinkCall, TypeOK, disk
<1>9. ASSUME Open(p) \/ Unlink(p) \/ Chmod(p) PROVE TypeOK'
  <2>1. s \in Slots /\ d \in 0 .. MaxLink /\ Visited(s, d)
    BY <1>1, <1>9, Ilock, Visits, Zenon DEF Open, Unlink, Chmod
  <2> HIDE DEF d
  <2>2. /\ valid' \in [Slots -> BOOLEAN] /\ nlink' \in [Slots -> 0 .. MaxLink]
        /\ dnlink' \in [Inums -> 0 .. MaxLink] /\ panicked' \in BOOLEAN
        /\ UNCHANGED <<allocated, inum, ref>>
    BY <2>1, TypeVisited, Zenon
  <2>3. CASE Open(p)
    BY <1>1, <1>2, <2>2, <2>3, Zenon DEF Open, Opened, TypeOK, disk
  <2>4. CASE Unlink(p)
    BY <1>1, <1>2, <2>2, <2>4, Zenon DEF Unlink, TypeOK
  <2>5. CASE Chmod(p)
    <3>1. leaked' \in [Slots -> Nat]
      BY <1>2, <2>1, <2>5, SMT DEF Chmod
    <3> QED
      BY <1>1, <1>2, <2>2, <2>5, <3>1, Zenon DEF Chmod, TypeOK
  <2> QED
    BY <1>9, <2>3, <2>4, <2>5
<1>10. ASSUME Create(p) \/ Link(p) \/ LinkBad(p) \/ UnlinkDec(p) PROVE TypeOK'
  <2>1. s \in Slots /\ inum[s] \in Inums /\ d \in 0 .. MaxLink /\ Links(s) = d
    BY <1>1, <1>10, Ilock, Zenon DEF Create, Link, LinkBad, UnlinkDec
  <2>2. LinkBad(p) \/ UnlinkDec(p) => p \in Linkers(inum[s])
    BY Zenon DEF LinkBad, UnlinkDec, Linkers, Linking
  <2>3. LinkBad(p) \/ UnlinkDec(p) => d # 0
    BY <2>1, <2>2, Linked, Zenon
  <2>4. Link(p) => d < MaxLink
    BY <2>1, Zenon DEF Link
  <2>5. \/ Create(p) /\ Visited(s, 1)
        \/ Link(p) /\ Visited(s, d + 1)
        \/ (LinkBad(p) \/ UnlinkDec(p)) /\ Visited(s, d - 1)
    BY <1>10, Visits, Zenon
  <2> HIDE DEF d
  <2>6. \E n \in 0 .. MaxLink : Visited(s, n)
    <3>1. CASE Create(p) /\ Visited(s, 1)
      <4>1. 1 \in 0 .. MaxLink
        BY <1>1
      <4> QED
        BY <3>1, <4>1, Zenon
    <3>2. CASE Link(p) /\ Visited(s, d + 1)
      <4>1. d + 1 \in 0 .. MaxLink
        BY <1>1, <2>1, <2>4, <3>2
      <4> QED
        BY <3>2, <4>1, Zenon
    <3>3. CASE (LinkBad(p) \/ UnlinkDec(p)) /\ Visited(s, d - 1)
      <4>1. d - 1 \in 0 .. MaxLink
        BY <1>1, <2>1, <2>3, <3>3
      <4> QED
        BY <3>3, <4>1, Zenon
    <3> QED
      BY <2>5, <3>1, <3>2, <3>3
  <2>7. /\ valid' \in [Slots -> BOOLEAN] /\ nlink' \in [Slots -> 0 .. MaxLink]
        /\ dnlink' \in [Inums -> 0 .. MaxLink] /\ panicked' \in BOOLEAN
        /\ UNCHANGED <<allocated, inum, ref>>
    BY <2>1, <2>6, TypeVisited, Zenon
  <2>8. CASE Create(p)
    BY <1>1, <1>2, <2>7, <2>8, Zenon DEF Create, TypeOK
  <2>9. CASE Link(p) \/ LinkBad(p)
    BY <1>1, <1>2, <2>7, <2>9, Zenon DEF Link, LinkBad, TypeOK
  <2>10. CASE UnlinkDec(p)
    BY <1>1, <1>2, <2>7, <2>10, Zenon DEF UnlinkDec, iunlock, TypeOK
  <2> QED
    BY <1>10, <2>8, <2>9, <2>10
<1>11. ASSUME CreateLink(p) PROVE TypeOK'
  <2>1. s \in Slots
    BY <1>1, <1>11, Zenon DEF CreateLink, LocInv, LocOf
  <2>2. panicked' \in BOOLEAN
    BY <1>11, Zenon DEF CreateLink
  <2> QED
    BY <1>1, <1>2, <1>11, <2>1, <2>2, Zenon DEF CreateLink, cache, TypeOK
<1>12. ASSUME CreatePut(p) PROVE TypeOK'
  BY <1>1, <1>2, <1>12, Zenon DEF CreatePut, Opened, iunlock, disk, TypeOK
<1>13. ASSUME LinkDir(p) PROVE TypeOK'
  <2>1. s \in Slots
    BY <1>1, <1>13, Zenon DEF LinkDir, LocInv, LocOf
  <2> QED
    BY <1>1, <1>2, <1>13, <2>1, Zenon DEF LinkDir, cache, TypeOK
<1>14. ASSUME LinkFound(p) PROVE TypeOK'
  BY <1>1, <1>2, <1>14, Zenon DEF LinkFound, disk, cache, TypeOK
<1>15. ASSUME Put(p) \/ PutUnlock(p) PROVE TypeOK'
  BY <1>1, <1>2, <1>15, ZenonT(40) DEF Put, PutUnlock, iunlock, disk, TypeOK
<1>16. ASSUME PutFree(p) PROVE TypeOK'
  <2>1. dnlink' = dnlink
    BY <1>16, CachePutFree, Zenon
  <2> QED
    BY <1>1, <1>2, <1>16, <2>1, Zenon DEF PutFree, TypeOK
<1>17. ASSUME PutRef(p) PROVE TypeOK'
  <2>1. s \in Slots
    BY <1>1, <1>17, Zenon DEF PutRef, LocInv, LocOf
  <2>2. ref[s] > 0
    BY <2>1, Referenced, 0 \notin Slots, Zenon DEF NoSlot, Slots
  <2>3. ref' \in [Slots -> Nat]
    BY <1>2, <1>17, <2>1, <2>2, SMT DEF PutRef
  <2> QED
    BY <1>1, <1>2, <1>17, <2>3, Zenon DEF PutRef, disk, TypeOK
<1> QED
  BY <1>3, <1>4, <1>5, <1>6, <1>7, <1>8, <1>9, <1>10, <1>11, <1>12, <1>13, <1>14, <1>15, <1>16,
     <1>17, Zenon DEF Call, Step

----------------------------------------------------------------------------
\* The kinds of steps

\* No other process moves, and a directory that another process has locked stays as it is.
Only(p) ==
  \A q \in Procs \ {p} :
    pc'[q] = pc[q] /\ ip'[q] = ip[q] /\ name'[q] = name[q] /\ fd'[q] = fd[q]
DirKept(p) == dirlock \in {None, p} \/ UNCHANGED <<dir, dirlock>>

\* Neither inodes nor entries of the cache change.
Same == UNCHANGED <<allocated, dnlink, inum, ref, valid, nlink>> /\ panicked' = FALSE

\* A call begins with iget, of a name that it has found or of the new inode of create.
Lookup(p) ==
  /\ pc[p] = "idle" /\ dirlock = None
  /\ pc' = [pc EXCEPT ![p] = pc'[p]]
  /\ UNCHANGED <<dir, nlink, fd, leaked>>
  /\ \E i \in Inums :
       /\ Full(i) \/ \E s \in Slots : Got(p, i, s)
       /\ \/ /\ \E n \in Names : dir[n] = i
             /\ pc'[p] \in {"open", "chmod", "unlink", "link"}
             /\ UNCHANGED <<allocated, dnlink>>
          \/ /\ ~allocated[i] /\ allocated' = [allocated EXCEPT ![i] = TRUE]
             /\ dnlink' = [dnlink EXCEPT ![i] = 0]
             /\ pc'[p] = "create"

Visiting == {"open", "create", "link", "link_bad", "unlink", "unlink_put", "chmod"}
Visit(p) == pc[p] \in Visiting /\ \E n \in Int : Visited(ip[p], n)

\* The calls that begin with a lookup
LEMMA LookupStep ==
  ASSUME TypeOK, CacheInv, ~panicked, NEW p \in Procs, NEW n \in Names,
         \/ OpenCall(p, n) \/ CreateCall(p, n) \/ UnlinkCall(p, n) \/ ChmodCall(p, n)
         \/ \E new \in Names : LinkCall(p, n, new)
  PROVE  Lookup(p)
<1> USE DEF At, Goto
<1>1. dir \in [Names -> Inums \cup {NoInum}] /\ pc \in [Procs -> Locations]
  BY Zenon DEF TypeOK
<1>2. ASSUME NEW to \in {"open", "chmod", "unlink", "link"},
             pc[p] = "idle", dirlock = None, pc' = [pc EXCEPT ![p] = to],
             UNCHANGED <<dir, nlink, fd, leaked, allocated, dnlink>>,
             dir[n] # NoInum, iget(p, dir[n])
      PROVE  Lookup(p)
  <2>1. dir[n] \in Inums
    BY <1>1, <1>2, Zenon
  <2>2. Full(dir[n]) \/ \E s \in Slots : Got(p, dir[n], s)
    BY <1>2, <2>1, Iget, Zenon
  <2>3. pc'[p] = to
    BY <1>1, <1>2, Zenon
  <2> QED
    BY <1>2, <2>1, <2>2, <2>3, Zenon DEF Lookup
<1>3. CASE OpenCall(p, n)
  BY <1>2, <1>3, Zenon DEF OpenCall, Namei, disk
<1>4. CASE ChmodCall(p, n)
  BY <1>2, <1>4, Zenon DEF ChmodCall, Namei, disk
<1>5. CASE UnlinkCall(p, n)
  BY <1>2, <1>5, Zenon DEF UnlinkCall, disk
<1>6. ASSUME NEW new \in Names, LinkCall(p, n, new) PROVE Lookup(p)
  BY <1>2, <1>6, Zenon DEF LinkCall, disk
<1>7. CASE CreateCall(p, n)
  <2>1. PICK i \in Inums : /\ ~allocated[i] /\ allocated' = [allocated EXCEPT ![i] = TRUE]
                           /\ dnlink' = [dnlink EXCEPT ![i] = 0] /\ iget(p, i)
    BY <1>7, Zenon DEF CreateCall, ialloc
  <2>2. Full(i) \/ \E s \in Slots : Got(p, i, s)
    BY <2>1, Iget, Zenon
  <2>3. /\ pc[p] = "idle" /\ dirlock = None /\ pc' = [pc EXCEPT ![p] = "create"]
        /\ UNCHANGED <<dir, nlink, fd, leaked>>
    BY <1>7, Zenon DEF CreateCall
  <2>4. pc'[p] = "create"
    BY <1>1, <2>3, Zenon
  <2> QED
    BY <2>1, <2>2, <2>3, <2>4, Zenon DEF Lookup
<1> QED
  BY <1>3, <1>4, <1>5, <1>6, <1>7, Zenon

\* Every step of a process is of one of these kinds.
LEMMA View ==
  ASSUME TypeOK, CacheInv, RefInv, LinkInv, LocInv, UseInv, ~panicked, NEW p \in Procs,
         Call(p) \/ Step(p)
  PROVE  /\ Only(p) /\ DirKept(p)
         /\ Same \/ Lookup(p) \/ Visit(p) \/ PutFree(p) \/ PutRef(p)
<1> USE DEF At, Goto
<1>1. /\ dnlink \in [Inums -> 0 .. MaxLink] /\ MaxLink \in Nat
      /\ panicked = FALSE
  BY SizeAssumption, Zenon DEF TypeOK
<1>2. /\ pc \in [Procs -> Locations] /\ ip \in [Procs -> Slots \cup {NoSlot}]
      /\ name \in [Procs -> Names \cup {NoName}] /\ fd \in [Procs -> Slots \cup {NoSlot}]
  BY Zenon DEF TypeOK
<1>3. ASSUME Close(p)
      PROVE  Only(p) /\ DirKept(p) /\ Same
  BY <1>1, <1>2, <1>3, Zenon DEF Close, Only, DirKept, Same, disk, cache
<1>4. ASSUME NEW n \in Names, CallFails(p, n)
      PROVE  Only(p) /\ DirKept(p) /\ Same
  BY <1>1, <1>2, <1>4, Zenon DEF CallFails, vars, Only, DirKept, Same
<1>5. ASSUME NEW n \in Names,
             \/ OpenCall(p, n) \/ CreateCall(p, n) \/ UnlinkCall(p, n) \/ ChmodCall(p, n)
             \/ \E new \in Names : LinkCall(p, n, new)
      PROVE  Only(p) /\ DirKept(p) /\ Lookup(p)
  <2>1. Lookup(p)
    BY <1>5, LookupStep, Zenon
  <2>2. \A q \in Procs \ {p} : name'[q] = name[q]
    <3>1. name' = name \/ \E n1 \in Names : name' = [name EXCEPT ![p] = n1]
      BY <1>5, Zenon DEF OpenCall, CreateCall, UnlinkCall, ChmodCall, LinkCall, Namei
    <3> QED
      BY <1>2, <3>1, Zenon
  <2>3. \A q \in Procs \ {p} : ip'[q] = ip[q]
    BY <1>2, <2>1, Zenon DEF Lookup, Full, Got
  <2>4. \A q \in Procs \ {p} : pc'[q] = pc[q]
    BY <1>2, <2>1, Zenon DEF Lookup
  <2> QED
    BY <2>1, <2>2, <2>3, <2>4, Zenon DEF Lookup, Only, DirKept
<1>6. ASSUME Open(p) \/ Create(p) \/ Link(p) \/ LinkBad(p) \/ Unlink(p) \/ UnlinkDec(p) \/ Chmod(p)
      PROVE  Only(p) /\ DirKept(p) /\ Visit(p)
  <2> DEFINE d == dnlink[inum[ip[p]]]
  <2>1. pc[p] \in Visiting
    BY <1>6, Zenon DEF Open, Create, Link, LinkBad, Unlink, UnlinkDec, Chmod, Visiting
  <2>2. d \in Int /\ d + 1 \in Int /\ d - 1 \in Int /\ 1 \in Int
    <3>1. inum[ip[p]] \in Inums
      BY <2>1, Ilock, Zenon DEF Visiting
    <3>2. d \in 0 .. MaxLink
      BY <1>1, <3>1, Zenon
    <3> HIDE DEF d
    <3> QED
      BY <1>1, <3>2
  <2>3. Visited(ip[p], d) \/ Visited(ip[p], d + 1) \/ Visited(ip[p], d - 1) \/ Visited(ip[p], 1)
    BY <1>6, Visits, Zenon
  <2> HIDE DEF d
  <2>4. Visit(p)
    BY <2>1, <2>2, <2>3, Zenon DEF Visit
  <2>5. Only(p)
    <3>1. CASE Open(p)
      BY <1>2, <3>1, Zenon DEF Open, Opened, Only
    <3>2. CASE Create(p) \/ Link(p) \/ LinkBad(p) \/ UnlinkDec(p)
      BY <1>2, <3>2, Zenon DEF Create, Link, LinkBad, UnlinkDec, Only
    <3>3. CASE Unlink(p) \/ Chmod(p)
      BY <1>2, <3>3, Zenon DEF Unlink, Chmod, Only
    <3> QED
      BY <1>6, <3>1, <3>2, <3>3, Zenon
  <2>6. DirKept(p)
    <3>1. CASE Unlink(p)
      BY <3>1, Zenon DEF Unlink, LocInv, LocOf, DirKept
    <3>2. CASE ~Unlink(p)
      BY <1>6, <3>2, Zenon DEF Open, Create, Link, LinkBad, UnlinkDec, Chmod, DirKept, disk
    <3> QED
      BY <3>1, <3>2
  <2> QED
    BY <2>4, <2>5, <2>6
<1>7. ASSUME CreateLink(p)
      PROVE  Only(p) /\ DirKept(p) /\ Same
  <2>1. dirlock = p /\ dir[name[p]] = NoInum
    BY <1>7, Zenon DEF CreateLink, LocInv, LocOf, UseInv, UseOf
  <2>2. panicked' = FALSE
    BY <1>7, <2>1, Zenon DEF CreateLink
  <2> QED
    BY <1>2, <1>7, <2>1, <2>2, Zenon DEF CreateLink, Only, DirKept, Same, cache
<1>8. ASSUME CreatePut(p)
      PROVE  Only(p) /\ DirKept(p) /\ Same
  BY <1>1, <1>2, <1>8, Zenon DEF CreatePut, Opened, Only, DirKept, Same, disk
<1>9. ASSUME LinkDir(p)
      PROVE  Only(p) /\ DirKept(p) /\ Same
  BY <1>1, <1>2, <1>9, Zenon DEF LinkDir, Only, DirKept, Same, cache
<1>10. ASSUME LinkFound(p)
      PROVE  Only(p) /\ DirKept(p) /\ Same
  <2>1. dirlock = p
    BY <1>10, Zenon DEF LinkFound, LocInv, LocOf
  <2> QED
    BY <1>1, <1>2, <1>10, <2>1, Zenon DEF LinkFound, Only, DirKept, Same, disk, cache
<1>11. ASSUME Put(p) \/ PutUnlock(p)
      PROVE  Only(p) /\ DirKept(p) /\ Same
  BY <1>1, <1>2, <1>11, Zenon DEF Put, PutUnlock, Only, DirKept, Same, disk
<1>12. ASSUME PutFree(p) \/ PutRef(p)
      PROVE  Only(p) /\ DirKept(p)
  BY <1>1, <1>2, <1>12, Zenon DEF PutFree, PutRef, Only, DirKept, disk
<1> QED
  BY <1>3, <1>4, <1>5, <1>6, <1>7, <1>8, <1>9, <1>10, <1>11, <1>12, Zenon DEF Call, Step

\* An inode never gets a second entry, a valid entry agrees with the disk, and iget finds
\* an entry if there are as many as inodes.
LEMMA CacheStep ==
  ASSUME TypeOK, CacheInv, RefInv, LinkInv, NoPanic, LocInv, UseInv, ~panicked, NEW p \in Procs,
         Call(p) \/ Step(p)
  PROVE  CacheInv' /\ NoPanic'
<1>1. Same \/ Lookup(p) \/ Visit(p) \/ PutFree(p) \/ PutRef(p)
  BY View, Zenon
<1>2. /\ NINODE \in Nat /\ Cardinality(Inums) \in Nat
      /\ panicked = FALSE /\ ip[p] \in Slots \cup {NoSlot} /\ ref \in [Slots -> Nat]
  BY SizeAssumption, FS_CardinalityType, Zenon DEF TypeOK
<1>3. CASE Same
  BY <1>3, Zenon DEF Same, CacheInv, NoPanic
<1>4. CASE Lookup(p)
  <2>1. PICK i \in Inums :
          /\ Full(i) \/ \E s \in Slots : Got(p, i, s)
          /\ UNCHANGED nlink
          /\ \/ UNCHANGED <<allocated, dnlink>>
             \/ /\ ~allocated[i] /\ allocated' = [allocated EXCEPT ![i] = TRUE]
                /\ dnlink' = [dnlink EXCEPT ![i] = 0]
    BY <1>4, Zenon DEF Lookup
  <2>2. ASSUME NEW s \in Slots, Got(p, i, s) PROVE CacheInv' /\ NoPanic'
    <3>1. CacheInv'
      BY <2>1, <2>2, CacheGot, Zenon
    <3> QED
      BY <1>2, <2>2, <3>1, Zenon DEF Got, NoPanic
  <2>3. CASE Full(i)
    <3>1. ~(NINODE >= Cardinality(Inums))
      BY <1>2, <2>3 DEF Full
    <3>2. allocated \in [Inums -> BOOLEAN] /\ dnlink \in [Inums -> 0 .. MaxLink]
      BY Zenon DEF TypeOK
    <3>3. inum' = inum /\ ref' = ref /\ valid' = valid /\ nlink' = nlink
      BY <2>1, <2>3, Zenon DEF Full
    <3>4. CASE UNCHANGED <<allocated, dnlink>>
      BY <3>1, <3>3, <3>4, Zenon DEF CacheInv, NoPanic
    <3>5. CASE /\ ~allocated[i] /\ allocated' = [allocated EXCEPT ![i] = TRUE]
               /\ dnlink' = [dnlink EXCEPT ![i] = 0]
      <4>1. /\ allocated'[i] /\ dnlink'[i] = 0
            /\ \A j \in Inums \ {i} : allocated'[j] = allocated[j] /\ dnlink'[j] = dnlink[j]
        BY <3>2, <3>5, Zenon
      <4>2. \A s \in Slots : ref[s] > 0 /\ valid[s] => inum[s] # i
        BY <3>5, Zenon DEF CacheInv
      <4> QED
        BY <3>1, <3>3, <4>1, <4>2, Zenon DEF CacheInv, NoPanic
    <3> QED
      BY <2>1, <3>4, <3>5
  <2> QED
    BY <2>1, <2>2, <2>3, Zenon
<1>5. CASE Visit(p)
  <2>1. PICK n \in Int : Visited(ip[p], n)
    BY <1>5, Zenon DEF Visit
  <2>2. ip[p] \in Slots /\ ref[ip[p]] > 0 /\ inum[ip[p]] \in Inums /\ allocated[inum[ip[p]]]
    BY <1>5, Ilock, Zenon DEF Visit, Visiting
  <2>3. CacheInv'
    BY <2>1, <2>2, CacheVisited, Zenon
  <2> QED
    BY <2>1, <2>3, Zenon DEF Visited, NoPanic
<1>6. CASE PutFree(p)
  BY <1>2, <1>6, CachePutFree, Zenon DEF PutFree, NoPanic
<1>7. CASE PutRef(p)
  <2>1. ip[p] \in Slots
    BY <1>2, <1>7, Zenon DEF PutRef, Goto, At, LocInv, LocOf
  <2>2. \A s \in Slots : ref'[s] > 0 => ref[s] > 0
    BY <1>2, <1>7, <2>1, SMT DEF PutRef
  <2>3. allocated' = allocated /\ dnlink' = dnlink /\ inum' = inum /\ valid' = valid /\ nlink' = nlink
    BY <1>7, Zenon DEF PutRef, disk
  <2>4. CacheInv'
    BY <2>2, <2>3, Zenon DEF CacheInv
  <2> QED
    BY <1>2, <1>7, <2>4, Zenon DEF PutRef, NoPanic
<1> QED
  BY <1>1, <1>3, <1>4, <1>5, <1>6, <1>7, Zenon

----------------------------------------------------------------------------
\* RefInv

\* One reference from a to s, or none
Holds(a, s) == IF a = s THEN 1 ELSE 0

\* Who uses a slot, and who has it open, after p has changed its own
LEMMA UserCount ==
  ASSUME TypeOK, TypeOK', NEW p \in Procs, Only(p), NEW s \in Slots
  PROVE  /\ Cardinality(Users(s)) \in Nat /\ Cardinality(Users(s)') \in Nat
         /\ Cardinality(Users(s)') = Cardinality(Users(s)) + Holds(ip'[p], s) - Holds(ip[p], s)
<1> DEFINE S == {q \in Procs : ip[q] = s}
           T == {q \in Procs : ip'[q] = s}
<1>1. IsFiniteSet(Procs)
  BY SizeAssumption
<1>2. /\ S \in SUBSET Procs /\ T \in SUBSET Procs /\ S \ {p} = T \ {p}
      /\ (p \in S <=> ip[p] = s) /\ (p \in T <=> ip'[p] = s)
  BY Zenon DEF Only
<1>3. S = Users(s) /\ T = Users(s)'
  BY Zenon DEF Users
<1> HIDE DEF S, T
<1>4. Counted(S, T, p)
  <2>1. Apart(Procs, S, T, p)
    BY <1>1, <1>2, Zenon DEF Apart
  <2> QED
    BY <2>1, OneApart, Zenon
<1> QED
  BY <1>2, <1>3, <1>4, Zenon DEF Holds, Counted

LEMMA OpenerCount ==
  ASSUME TypeOK, TypeOK', NEW p \in Procs, Only(p), NEW s \in Slots
  PROVE  /\ Cardinality(Openers(s)) \in Nat /\ Cardinality(Openers(s)') \in Nat
         /\ Cardinality(Openers(s)') = Cardinality(Openers(s)) + Holds(fd'[p], s) - Holds(fd[p], s)
<1> DEFINE S == {q \in Procs : fd[q] = s}
           T == {q \in Procs : fd'[q] = s}
<1>1. IsFiniteSet(Procs)
  BY SizeAssumption
<1>2. /\ S \in SUBSET Procs /\ T \in SUBSET Procs /\ S \ {p} = T \ {p}
      /\ (p \in S <=> fd[p] = s) /\ (p \in T <=> fd'[p] = s)
  BY Zenon DEF Only
<1>3. S = Openers(s) /\ T = Openers(s)'
  BY Zenon DEF Openers
<1> HIDE DEF S, T
<1>4. Counted(S, T, p)
  <2>1. Apart(Procs, S, T, p)
    BY <1>1, <1>2, Zenon DEF Apart
  <2> QED
    BY <2>1, OneApart, Zenon
<1> QED
  BY <1>2, <1>3, <1>4, Zenon DEF Holds, Counted

\* A reference moves: taken by iget, from a call to a descriptor and back, left behind by
\* chmod, or dropped by iput.
Moved(p, s) == Holds(ip'[p], s) - Holds(ip[p], s) + Holds(fd'[p], s) - Holds(fd[p], s)

\* Wherever the reference goes, the counts follow.
LEMMA RefMoves ==
  ASSUME TypeOK, TypeOK', RefInv, NEW p \in Procs, Only(p),
         \A s \in Slots : ref'[s] - leaked'[s] = ref[s] - leaked[s] + Moved(p, s)
  PROVE  RefInv'
<1>1. SUFFICES ASSUME NEW s \in Slots
      PROVE  ref'[s] = Cardinality(Users(s)') + Cardinality(Openers(s)') + leaked'[s]
  BY Zenon DEF RefInv
<1> DEFINE U0 == Cardinality(Users(s))  U1 == Cardinality(Users(s)')
           O0 == Cardinality(Openers(s))  O1 == Cardinality(Openers(s)')
<1>2. U0 \in Nat /\ U1 \in Nat /\ U1 = U0 + Holds(ip'[p], s) - Holds(ip[p], s)
  BY UserCount, Zenon
<1>3. O0 \in Nat /\ O1 \in Nat /\ O1 = O0 + Holds(fd'[p], s) - Holds(fd[p], s)
  BY OpenerCount, Zenon
<1>4. ref[s] = U0 + O0 + leaked[s]
  BY Zenon DEF RefInv
<1>5. ref[s] \in Nat /\ leaked[s] \in Nat /\ ref'[s] \in Nat /\ leaked'[s] \in Nat
  BY Zenon DEF TypeOK
<1> HIDE DEF U0, U1, O0, O1
<1>6. ref'[s] = U1 + O1 + leaked'[s]
  BY <1>2, <1>3, <1>4, <1>5, SMTT(20) DEF Holds, Moved
<1> QED
  BY <1>6 DEF U1, O1

\* Every step keeps the reference counts exact.
LEMMA RefStep ==
  ASSUME TypeOK, CacheInv, RefInv, LinkInv, LocInv, UseInv, ~panicked, NEW p \in Procs,
         Call(p) \/ Step(p), TypeOK'
  PROVE  RefInv'
<1> USE DEF At, Goto
<1>1. /\ ip \in [Procs -> Slots \cup {NoSlot}] /\ fd \in [Procs -> Slots \cup {NoSlot}]
      /\ ref \in [Slots -> Nat] /\ leaked \in [Slots -> Nat] /\ NoSlot \notin Slots
  BY 0 \notin 1 .. NINODE, Zenon DEF TypeOK, NoSlot, Slots
<1>2. ip[p] \in Slots \cup {NoSlot} /\ fd[p] \in Slots \cup {NoSlot}
  BY <1>1, Zenon
<1>3. SUFFICES ASSUME ~UNCHANGED <<ip, fd, ref, leaked>>
      PROVE  \A s \in Slots : ref'[s] - leaked'[s] = ref[s] - leaked[s] + Moved(p, s)
  <2>1. CASE UNCHANGED <<ip, fd, ref, leaked>>
    BY <2>1, Zenon DEF RefInv, Users, Openers
  <2>2. Only(p)
    BY View, Zenon
  <2> QED
    BY <1>3, <2>1, <2>2, RefMoves, Zenon
<1>4. CASE Close(p)
  <2>1. /\ ip[p] = NoSlot /\ ip'[p] = fd[p] /\ fd'[p] = NoSlot
        /\ ref' = ref /\ leaked' = leaked
    BY <1>1, <1>4, Zenon DEF Close, LocInv, LocOf, cache
  <2> QED
    BY <1>1, <2>1, SMT DEF Holds, Moved
<1>5. CASE Lookup(p)
  <2>1. PICK i \in Inums : Full(i) \/ \E s \in Slots : Got(p, i, s)
    BY <1>5, Zenon DEF Lookup
  <2>2. fd' = fd /\ leaked' = leaked /\ ip[p] = NoSlot
    BY <1>5, Zenon DEF Lookup, LocInv, LocOf
  <2>3. PICK t \in Slots : Got(p, i, t)
    BY <1>3, <2>1, <2>2, Zenon DEF Full
  <2>4. ip'[p] = t /\ ref' = [ref EXCEPT ![t] = @ + 1]
    BY <1>1, <2>3, Zenon DEF Got
  <2> QED
    BY <1>1, <2>2, <2>4, SMT DEF Holds, Moved
<1>6. CASE Open(p) \/ CreatePut(p)
  <2>1. fd[p] = NoSlot /\ ref' = ref /\ leaked' = leaked
    BY <1>6, Zenon DEF Open, CreatePut, LocInv, LocOf
  <2>2. fd'[p] = ip[p] /\ ip'[p] = NoSlot
    BY <1>1, <1>3, <1>6, <2>1, Zenon DEF Open, CreatePut, Opened
  <2> QED
    BY <1>1, <2>1, <2>2, SMT DEF Holds, Moved
<1>7. CASE Chmod(p)
  <2>1. /\ ip[p] \in Slots /\ ip'[p] = NoSlot /\ leaked' = [leaked EXCEPT ![ip[p]] = @ + 1]
        /\ ref' = ref /\ fd' = fd
    BY <1>1, <1>2, <1>7, Zenon DEF Chmod, LocInv, LocOf
  <2> QED
    BY <1>1, <2>1, SMT DEF Holds, Moved
<1>8. CASE PutRef(p)
  <2>1. /\ ip[p] \in Slots /\ ip'[p] = NoSlot /\ ref' = [ref EXCEPT ![ip[p]] = @ - 1]
        /\ leaked' = leaked /\ fd' = fd
    BY <1>1, <1>2, <1>8, Zenon DEF PutRef, LocInv, LocOf
  <2>2. ref'[ip[p]] \in Nat
    BY <2>1, Zenon DEF TypeOK
  <2> QED
    BY <1>1, <2>1, <2>2, SMT DEF Holds, Moved
<1>9. Close(p) \/ Lookup(p) \/ Open(p) \/ CreatePut(p) \/ Chmod(p) \/ PutRef(p)
  <2>1. CASE Call(p)
    <3>1. \/ Close(p) \/ Lookup(p) \/ \E n \in Names : CallFails(p, n)
      BY <2>1, LookupStep, Zenon DEF Call
    <3> QED
      BY <1>3, <3>1, Zenon DEF CallFails, vars
  <2>2. CASE Step(p)
    BY <1>3, <2>2, Zenon DEF Step, Create, CreateLink, Link, LinkDir, LinkFound, LinkBad, Unlink,
          UnlinkDec, Put, PutFree, PutUnlock, cache
  <2> QED
    BY <2>1, <2>2
<1> QED
  BY <1>4, <1>5, <1>6, <1>7, <1>8, <1>9, Zenon

----------------------------------------------------------------------------
\* LinkInv

\* An entry in use keeps its inode.
LEMMA InumKept ==
  ASSUME TypeOK, CacheInv, RefInv, LinkInv, LocInv, UseInv, ~panicked, NEW p \in Procs,
         Call(p) \/ Step(p), NEW s \in Slots, ref[s] > 0
  PROVE  inum'[s] = inum[s]
<1>1. Same \/ Lookup(p) \/ Visit(p) \/ PutFree(p) \/ PutRef(p)
  BY View, Zenon
<1>2. CASE Lookup(p)
  <2>1. PICK i \in Inums : Full(i) \/ \E t \in Slots : Got(p, i, t)
    BY <1>2, Zenon DEF Lookup
  <2>2. ASSUME NEW t \in Slots, Got(p, i, t) PROVE inum'[s] = inum[s]
    <3>1. inum \in [Slots -> Inums \cup {NoInum}]
      BY Zenon DEF TypeOK
    <3>2. ref[t] = 0 => s # t
      OBVIOUS
    <3> QED
      BY <2>2, <3>1, <3>2, Zenon DEF Got
  <2> QED
    BY <2>1, <2>2, Zenon DEF Full
<1> QED
  BY <1>1, <1>2, Zenon DEF Same, Visit, Visited, PutFree, PutRef

\* The inode whose link p has counted and not yet made, or taken away and not yet counted
LinkOf(p) == IF pc[p] \in Linking THEN inum[ip[p]] ELSE NoInum
LinkersKept(p) == \A q \in Procs \ {p} : LinkOf(q)' = LinkOf(q)
EntriesKept(n) == \A m \in Names \ {n} : dir'[m] = dir[m]

\* The calls that link an inode, and the names that it has, after one step
LEMMA LinkerCount ==
  ASSUME NEW p \in Procs, NEW i \in Inums, LinkersKept(p)
  PROVE  /\ Cardinality(Linkers(i)) \in Nat /\ Cardinality(Linkers(i)') \in Nat
         /\ Cardinality(Linkers(i)') = Cardinality(Linkers(i)) + Holds(LinkOf(p)', i)
                                                        - Holds(LinkOf(p), i)
<1>1. IsFiniteSet(Procs)
  BY SizeAssumption
<1>2. PICK S \in SUBSET Procs : S = {q \in Procs : LinkOf(q) = i}
  BY Zenon
<1>3. PICK T \in SUBSET Procs : T = {q \in Procs : LinkOf(q)' = i}
  BY Zenon
<1>4. S \ {p} = T \ {p}
  BY <1>2, <1>3, SMTT(20) DEF LinkersKept
<1>7. (p \in S <=> LinkOf(p) = i) /\ (p \in T <=> LinkOf(p)' = i)
  BY <1>2, <1>3, Zenon
<1>5. S = Linkers(i) /\ T = Linkers(i)'
  BY <1>2, <1>3, NoneAssumption, Zenon DEF Linkers, LinkOf
<1>6. Counted(S, T, p)
  <2>1. Apart(Procs, S, T, p)
    BY <1>1, <1>4, Zenon DEF Apart
  <2> QED
    BY <2>1, OneApart, Zenon
<1> QED
  BY <1>5, <1>6, <1>7, Zenon DEF Holds, Counted

LEMMA EntryCount ==
  ASSUME NEW n \in Names, NEW i \in Inums, EntriesKept(n)
  PROVE  /\ Cardinality(Entries(i)) \in Nat /\ Cardinality(Entries(i)') \in Nat
         /\ Cardinality(Entries(i)') = Cardinality(Entries(i)) + Holds(dir'[n], i) - Holds(dir[n], i)
<1> DEFINE S == {m \in Names : dir[m] = i}
           T == {m \in Names : dir'[m] = i}
<1>1. IsFiniteSet(Names)
  BY SizeAssumption
<1>2. /\ S \in SUBSET Names /\ T \in SUBSET Names /\ S \ {n} = T \ {n}
      /\ (n \in S <=> dir[n] = i) /\ (n \in T <=> dir'[n] = i)
  BY Zenon DEF EntriesKept
<1>3. S = Entries(i) /\ T = Entries(i)'
  BY Zenon DEF Entries
<1> HIDE DEF S, T
<1>4. Counted(S, T, n)
  <2>1. Apart(Names, S, T, n)
    BY <1>1, <1>2, Zenon DEF Apart
  <2> QED
    BY <2>1, OneApart, Zenon
<1> QED
  BY <1>2, <1>3, <1>4, Zenon DEF Holds, Counted

\* A link moves, between a count, a call and the directory.
LEMMA LinkMoves ==
  ASSUME TypeOK, TypeOK', LinkInv, NEW p \in Procs, LinkersKept(p),
         NEW n \in Names, EntriesKept(n),
         \A i \in Inums : dnlink'[i] = dnlink[i] + Holds(dir'[n], i) - Holds(dir[n], i)
                                                 + Holds(LinkOf(p)', i) - Holds(LinkOf(p), i)
  PROVE  LinkInv'
<1>1. SUFFICES ASSUME NEW i \in Inums
      PROVE  dnlink'[i] = Cardinality(Entries(i)') + Cardinality(Linkers(i)')
  BY Zenon DEF LinkInv
<1> DEFINE E0 == Cardinality(Entries(i))  E1 == Cardinality(Entries(i)')
           L0 == Cardinality(Linkers(i))  L1 == Cardinality(Linkers(i)')
<1>2. E0 \in Nat /\ E1 \in Nat /\ E1 = E0 + Holds(dir'[n], i) - Holds(dir[n], i)
  BY EntryCount, Zenon
<1>3. L0 \in Nat /\ L1 \in Nat /\ L1 = L0 + Holds(LinkOf(p)', i) - Holds(LinkOf(p), i)
  BY LinkerCount, Zenon
<1>4. dnlink[i] = E0 + L0
  BY Zenon DEF LinkInv
<1> HIDE DEF E0, E1, L0, L1
<1>5. dnlink'[i] = E1 + L1
  BY <1>2, <1>3, <1>4, SMTT(20) DEF Holds
<1> QED
  BY <1>5 DEF E1, L1

\* A count changes with the calls, not with the directory.
LEMMA LinkKept ==
  ASSUME TypeOK, TypeOK', LinkInv, NEW p \in Procs, LinkersKept(p),
         UNCHANGED dir,
         \A i \in Inums : dnlink'[i] = dnlink[i] + Holds(LinkOf(p)', i) - Holds(LinkOf(p), i)
  PROVE  LinkInv'
<1>1. SUFFICES ASSUME NEW i \in Inums
      PROVE  dnlink'[i] = Cardinality(Entries(i)') + Cardinality(Linkers(i)')
  BY Zenon DEF LinkInv
<1> DEFINE E0 == Cardinality(Entries(i))
           L0 == Cardinality(Linkers(i))  L1 == Cardinality(Linkers(i)')
<1>2. Entries(i)' = Entries(i)
  BY Zenon DEF Entries
<1>3. L0 \in Nat /\ L1 \in Nat /\ L1 = L0 + Holds(LinkOf(p)', i) - Holds(LinkOf(p), i)
  BY LinkerCount, Zenon
<1>4. dnlink[i] = E0 + L0 /\ dnlink[i] \in 0 .. MaxLink /\ MaxLink \in Nat
  BY SizeAssumption, Zenon DEF LinkInv, TypeOK
<1>5. E0 \in Nat
  <2>1. IsFiniteSet(Names) /\ Entries(i) \in SUBSET Names
    BY SizeAssumption DEF Entries
  <2> QED
    BY <2>1, Inhabited, Zenon
<1> HIDE DEF E0, L0, L1
<1>6. dnlink'[i] = E0 + L1
  BY <1>3, <1>4, <1>5, SMTT(20) DEF Holds
<1> QED
  BY <1>2, <1>6 DEF E0, L1

\* Every step keeps the link counts exact.
LEMMA LinkStep ==
  ASSUME TypeOK, CacheInv, RefInv, LinkInv, LocInv, UseInv, ~panicked, NEW p \in Procs,
         Call(p) \/ Step(p), TypeOK'
  PROVE  LinkInv'
<1> USE DEF At, Goto
<1> DEFINE s == ip[p]
           i0 == inum[ip[p]]
<1>1. /\ pc \in [Procs -> Locations] /\ ip \in [Procs -> Slots \cup {NoSlot}]
      /\ dir \in [Names -> Inums \cup {NoInum}] /\ dnlink \in [Inums -> 0 .. MaxLink]
      /\ MaxLink \in Nat /\ NoInum \notin Inums
  BY SizeAssumption, NoneAssumption, Zenon DEF TypeOK
<1>2. LinkersKept(p)
  <2>1. SUFFICES ASSUME NEW q \in Procs \ {p} PROVE LinkOf(q)' = LinkOf(q)
    BY Zenon DEF LinkersKept
  <2>2. pc'[q] = pc[q] /\ ip'[q] = ip[q]
    BY View, Zenon DEF Only
  <2>3. CASE pc[q] \in Linking
    <3>1. ip[q] \in Slots /\ ip[q] # NoSlot
      BY <1>1, <2>3, Zenon DEF LocInv, LocOf, Linking
    <3>2. ref[ip[q]] > 0
      BY <3>1, Referenced, Zenon
    <3>3. inum'[ip[q]] = inum[ip[q]]
      BY <3>1, <3>2, InumKept, Zenon
    <3> QED
      BY <2>2, <3>3, Zenon DEF LinkOf
  <2> QED
    BY <2>2, <2>3, Zenon DEF LinkOf
<1>3. ASSUME pc[p] \notin Linking, pc'[p] \notin Linking, dir' = dir,
             \A i \in Inums : dnlink'[i] = dnlink[i]
      PROVE  LinkInv'
  <2>1. LinkOf(p) = NoInum /\ LinkOf(p)' = NoInum
    BY <1>3, Zenon DEF LinkOf
  <2>2. \A i \in Inums : dnlink'[i] = dnlink[i] + Holds(LinkOf(p)', i) - Holds(LinkOf(p), i)
    BY <1>1, <1>3, <2>1, SMT DEF Holds
  <2> QED
    BY <1>2, <1>3, <2>2, LinkKept, Zenon
<1>4. CASE Call(p)
  <2>1. Close(p) \/ Lookup(p) \/ \E n \in Names : CallFails(p, n)
    BY <1>4, LookupStep, Zenon DEF Call
  <2>2. CASE Close(p)
    BY <1>1, <1>3, <2>2, Zenon DEF Close, disk, Linking
  <2>3. CASE \E n \in Names : CallFails(p, n)
    BY <1>1, <1>3, <2>3, Zenon DEF CallFails, vars, Linking
  <2>4. CASE Lookup(p)
    <3>1. /\ pc[p] \notin Linking /\ pc'[p] \notin Linking /\ dir' = dir
      BY <2>4, Zenon DEF Lookup, Linking
    <3>2. \A i \in Inums : dnlink'[i] = dnlink[i]
      BY <1>1, <2>4, ZenonT(30) DEF Lookup, CacheInv
    <3> QED
      BY <1>3, <3>1, <3>2, Zenon
  <2> QED
    BY <2>1, <2>2, <2>3, <2>4, Zenon
<1>5. ASSUME pc[p] \in Visiting \cup Linking
      PROVE  s \in Slots /\ ref[s] > 0 /\ i0 \in Inums /\ dnlink[i0] \in 0 .. MaxLink
  <2>1. s \in Slots /\ s # NoSlot
    BY <1>1, <1>5, Zenon DEF LocInv, LocOf, Linking, Visiting
  <2>2. ref[s] > 0
    BY <2>1, Referenced, Zenon
  <2> QED
    BY <1>1, <2>1, <2>2, Zenon DEF CacheInv
<1>6. ASSUME NEW n \in Int, Visited(s, n), i0 \in Inums
      PROVE  /\ inum' = inum /\ dnlink'[i0] = n
             /\ \A i \in Inums \ {i0} : dnlink'[i] = dnlink[i]
  BY <1>1, <1>6, Zenon DEF Visited
<1>7. ASSUME Open(p) \/ Chmod(p) PROVE LinkInv'
  <2>1. i0 \in Inums /\ Visited(s, dnlink[i0]) /\ dnlink[i0] \in Int
    <3>1. pc[p] \in Visiting
      BY <1>7, Zenon DEF Open, Chmod, Visiting
    <3>2. i0 \in Inums /\ dnlink[i0] \in 0 .. MaxLink
      BY <1>5, <3>1, Zenon
    <3>3. dnlink[i0] \in Int
      BY <1>1, <3>2
    <3> QED
      BY <1>7, <3>2, <3>3, Visits, Zenon
  <2>2. \A i \in Inums : dnlink'[i] = dnlink[i]
    BY <1>6, <2>1, Zenon
  <2>3. dir' = dir /\ pc[p] \notin Linking /\ pc'[p] \notin Linking
    BY <1>1, <1>7, Zenon DEF Open, Opened, Chmod, Linking, disk
  <2> QED
    BY <1>3, <2>2, <2>3, Zenon
<1>8. CASE CreatePut(p) \/ Put(p) \/ PutUnlock(p) \/ PutRef(p)
  BY <1>1, <1>3, <1>8, Zenon DEF CreatePut, Opened, Put, PutUnlock, PutRef, Linking, disk
<1>9. CASE PutFree(p)
  <2>1. dnlink' = dnlink
    BY <1>9, CachePutFree, Zenon
  <2>2. dir' = dir /\ pc[p] \notin Linking /\ pc'[p] \notin Linking
    BY <1>1, <1>9, Zenon DEF PutFree, Linking
  <2> QED
    BY <1>3, <2>1, <2>2, Zenon
<1>10. ASSUME pc[p] \in Visiting \cup Linking, NEW d \in Int, Visited(s, d), dir' = dir,
              ip' = ip,
              \/ pc[p] \notin Linking /\ pc'[p] \in Linking /\ d = dnlink[i0] + 1
              \/ pc[p] \in Linking /\ pc'[p] \notin Linking /\ d = dnlink[i0] - 1
       PROVE  LinkInv'
  <2>1. /\ s \in Slots /\ i0 \in Inums /\ dnlink[i0] \in 0 .. MaxLink
    BY <1>5, <1>10, Zenon
  <2>2. inum' = inum /\ dnlink'[i0] = d /\ \A i \in Inums \ {i0} : dnlink'[i] = dnlink[i]
    BY <1>6, <1>10, <2>1, Zenon
  <2>3. \/ LinkOf(p) = NoInum /\ LinkOf(p)' = i0 /\ d = dnlink[i0] + 1
        \/ LinkOf(p) = i0 /\ LinkOf(p)' = NoInum /\ d = dnlink[i0] - 1
    BY <1>10, <2>2, Zenon DEF LinkOf
  <2>4. \A i \in Inums : dnlink'[i] = dnlink[i] + Holds(LinkOf(p)', i) - Holds(LinkOf(p), i)
    <3>1. SUFFICES ASSUME NEW i \in Inums
          PROVE  dnlink'[i] = dnlink[i] + Holds(LinkOf(p)', i) - Holds(LinkOf(p), i)
      OBVIOUS
    <3>2. dnlink[i] \in 0 .. MaxLink
      BY <1>1, Zenon
    <3>3. CASE i = i0
      BY <1>1, <2>1, <2>2, <2>3, <3>2, <3>3, SMTT(30) DEF Holds
    <3>4. CASE i # i0
      BY <1>1, <2>2, <2>3, <3>2, <3>4, SMTT(30) DEF Holds
    <3> QED
      BY <3>3, <3>4
  <2> QED
    BY <1>2, <1>10, <2>4, LinkKept, Zenon
<1>11. CASE Create(p)
  <2>1. /\ pc[p] = "create" /\ pc'[p] = "create_link" /\ Visited(s, 1) /\ dir' = dir /\ ip' = ip
    BY <1>1, <1>11, Visits, Zenon DEF Create
  <2>2. dnlink[i0] = 0
    BY <2>1, Zenon DEF UseInv, UseOf
  <2>3. 1 = dnlink[i0] + 1 /\ 1 \in Int
    BY <2>2
  <2> QED
    BY <1>10, <2>1, <2>3, Zenon DEF Visiting, Linking
<1>12. CASE Link(p) \/ LinkBad(p) \/ UnlinkDec(p)
  <2>1. pc[p] \in Visiting \cup Linking
    BY <1>12, Zenon DEF Link, LinkBad, UnlinkDec, Visiting
  <2>2. dnlink[i0] \in Int /\ dnlink[i0] + 1 \in Int /\ dnlink[i0] - 1 \in Int
    <3>1. dnlink[i0] \in 0 .. MaxLink
      BY <1>5, <2>1, Zenon
    <3> QED
      BY <1>1, <3>1
  <2>3. dir' = dir /\ ip' = ip
    BY <1>12, Zenon DEF Link, LinkBad, UnlinkDec
  <2>4. CASE Link(p)
    <3>1. pc[p] = "link" /\ pc'[p] = "link_dir" /\ Visited(s, dnlink[i0] + 1)
      BY <1>1, <2>4, Visits, Zenon DEF Link
    <3> QED
      BY <1>10, <2>1, <2>2, <2>3, <3>1, Zenon DEF Linking
  <2>5. CASE LinkBad(p) \/ UnlinkDec(p)
    <3>1. pc[p] \in {"link_bad", "unlink_put"} /\ pc'[p] = "put" /\ Visited(s, dnlink[i0] - 1)
      BY <1>1, <2>5, Visits, Zenon DEF LinkBad, UnlinkDec
    <3>2. pc[p] \in Linking /\ pc'[p] \notin Linking
      BY <3>1, Zenon DEF Linking
    <3> QED
      BY <1>10, <2>1, <2>2, <2>3, <3>1, <3>2, Zenon
  <2> QED
    BY <1>12, <2>4, <2>5
<1>13. ASSUME pc[p] \in Linking, pc'[p] \in Linking, dir' = dir, ip' = ip, inum' = inum,
              dnlink' = dnlink
       PROVE  LinkInv'
  <2>1. LinkOf(p)' = LinkOf(p)
    BY <1>13, Zenon DEF LinkOf
  <2>2. \A i \in Inums : dnlink'[i] = dnlink[i] + Holds(LinkOf(p)', i) - Holds(LinkOf(p), i)
    BY <1>1, <1>13, <2>1, SMT DEF Holds
  <2> QED
    BY <1>2, <1>13, <2>2, LinkKept, Zenon
<1>14. ASSUME NEW n \in Names, inum' = inum, ip' = ip, i0 \in Inums,
              \A i \in Inums : dnlink'[i] = dnlink[i],
              \/ /\ pc[p] \in Linking /\ pc'[p] \notin Linking /\ dir[n] = NoInum
                 /\ dir' = [dir EXCEPT ![n] = i0]
              \/ /\ pc[p] \notin Linking /\ pc'[p] \in Linking /\ dir[n] = i0
                 /\ dir' = [dir EXCEPT ![n] = NoInum]
       PROVE  LinkInv'
  <2>1. EntriesKept(n)
    BY <1>1, <1>14, Zenon DEF EntriesKept
  <2>2. \/ dir[n] = NoInum /\ dir'[n] = i0 /\ LinkOf(p) = i0 /\ LinkOf(p)' = NoInum
        \/ dir[n] = i0 /\ dir'[n] = NoInum /\ LinkOf(p) = NoInum /\ LinkOf(p)' = i0
    BY <1>1, <1>14, Zenon DEF LinkOf
  <2>3. \A i \in Inums : dnlink'[i] = dnlink[i] + Holds(dir'[n], i) - Holds(dir[n], i)
                                                + Holds(LinkOf(p)', i) - Holds(LinkOf(p), i)
    <3>1. SUFFICES ASSUME NEW i \in Inums
          PROVE  dnlink[i] = dnlink[i] + Holds(dir'[n], i) - Holds(dir[n], i)
                                       + Holds(LinkOf(p)', i) - Holds(LinkOf(p), i)
      BY <1>14, Zenon
    <3>2. dnlink[i] \in 0 .. MaxLink
      BY <1>1, Zenon
    <3> QED
      BY <1>1, <2>2, <3>2, SMT DEF Holds
  <2> QED
    BY <1>2, <2>1, <2>3, LinkMoves, Zenon
<1>15. CASE CreateLink(p)
  <2>1. pc[p] = "create_link" /\ pc'[p] = "create_put" /\ dir' = [dir EXCEPT ![name[p]] = i0]
    BY <1>1, <1>15, Zenon DEF CreateLink
  <2>2. name[p] \in Names /\ dir[name[p]] = NoInum /\ i0 \in Inums
    BY <1>5, <2>1, Zenon DEF LocInv, LocOf, UseInv, UseOf, Linking
  <2>3. inum' = inum /\ ip' = ip /\ dnlink' = dnlink
    BY <1>15, Zenon DEF CreateLink, cache
  <2>4. pc[p] \in Linking /\ pc'[p] \notin Linking
    BY <2>1, Zenon DEF Linking
  <2> QED
    BY <1>14, <2>1, <2>2, <2>3, <2>4, Zenon
<1>16. CASE LinkDir(p)
  <2>1. /\ pc[p] = "link_dir" /\ inum' = inum /\ ip' = ip /\ dnlink' = dnlink
    BY <1>16, Zenon DEF LinkDir, cache
  <2>2. name[p] \in Names /\ i0 \in Inums /\ pc[p] \in Linking
    BY <1>5, <2>1, Zenon DEF LocInv, LocOf, Linking
  <2>3. CASE dir[name[p]] # NoInum
    <3>1. pc'[p] = "link_found" /\ dir' = dir
      BY <1>1, <1>16, <2>3, Zenon DEF LinkDir
    <3> QED
      BY <1>13, <2>1, <2>2, <3>1, Zenon DEF Linking
  <2>4. CASE dir[name[p]] = NoInum
    <3>1. pc'[p] = "put" /\ dir' = [dir EXCEPT ![name[p]] = i0]
      BY <1>1, <1>16, <2>4, Zenon DEF LinkDir
    <3>2. pc'[p] \notin Linking
      BY <3>1, Zenon DEF Linking
    <3> QED
      BY <1>14, <2>1, <2>2, <2>4, <3>1, <3>2, Zenon
  <2> QED
    BY <2>3, <2>4
<1>17. CASE LinkFound(p)
  BY <1>1, <1>13, <1>17, Zenon DEF LinkFound, Linking, disk, cache
<1>18. CASE Unlink(p)
  <2>1. /\ pc[p] = "unlink" /\ pc'[p] = "unlink_put" /\ dir' = [dir EXCEPT ![name[p]] = NoInum]
        /\ inum' = inum /\ ip' = ip /\ dnlink' = dnlink
    BY <1>1, <1>18, Zenon DEF Unlink
  <2>2. name[p] \in Names /\ dir[name[p]] = i0 /\ i0 \in Inums
    BY <1>5, <2>1, Zenon DEF LocInv, LocOf, UseInv, UseOf, Visiting
  <2>3. pc[p] \notin Linking /\ pc'[p] \in Linking
    BY <2>1, Zenon DEF Linking
  <2> QED
    BY <1>14, <2>1, <2>2, <2>3, Zenon
<1> QED
  BY <1>4, <1>7, <1>8, <1>9, <1>11, <1>12, <1>15, <1>16, <1>17, <1>18, Zenon DEF Step

----------------------------------------------------------------------------
\* NoDangling

\* Nobody else comes to the inode that iput frees, by any name, file or call.
LEMMA Forgotten ==
  ASSUME TypeOK, CacheInv, RefInv, LinkInv, LocInv, UseInv, NEW p \in Procs, PutFree(p)
  PROVE  /\ \A n \in Names : dir[n] # inum[ip[p]]
         /\ \A q \in Procs : fd[q] # NoSlot => inum[fd[q]] # inum[ip[p]]
         /\ \A q \in Procs \ {p} : ip[q] # NoSlot => inum[ip[q]] # inum[ip[p]]
<1>1. /\ ip \in [Procs -> Slots \cup {NoSlot}] /\ fd \in [Procs -> Slots \cup {NoSlot}]
  BY Zenon DEF TypeOK
<1>2. ip[p] # NoSlot
  BY Zenon DEF PutFree, Goto, At, LocInv, LocOf
<1>3. ip[p] \in Slots /\ ref[ip[p]] > 0 /\ inum[ip[p]] \in Inums
  <2>1. ip[p] \in Slots
    BY <1>1, <1>2, Zenon
  <2>2. ref[ip[p]] > 0
    BY <1>2, Referenced, Zenon
  <2> QED
    BY <2>1, <2>2, Zenon DEF CacheInv
<1>4. ref[ip[p]] = 1 /\ dnlink[inum[ip[p]]] = 0
  BY CachePutFree, Zenon
<1>5. \A q \in Procs : fd[q] # ip[p] /\ (ip[q] = ip[p] => q = p)
  BY <1>2, <1>4, Referenced, Zenon
<1>6. \A n \in Names : dir[n] # inum[ip[p]]
  BY <1>3, <1>4, Linked, Zenon DEF Entries
<1>7. ASSUME NEW s \in Slots, ref[s] > 0, s # ip[p] PROVE inum[s] # inum[ip[p]]
  BY <1>3, <1>7, Zenon DEF CacheInv
<1>8. ASSUME NEW q \in Procs, fd[q] # NoSlot PROVE inum[fd[q]] # inum[ip[p]]
  <2>1. fd[q] \in Slots /\ ref[fd[q]] > 0
    BY <1>1, <1>8, Referenced, Zenon
  <2> QED
    BY <1>5, <1>7, <2>1, Zenon
<1>9. ASSUME NEW q \in Procs \ {p}, ip[q] # NoSlot PROVE inum[ip[q]] # inum[ip[p]]
  <2>1. ip[q] \in Slots /\ ref[ip[q]] > 0
    BY <1>1, <1>9, Referenced, Zenon
  <2> QED
    BY <1>5, <1>7, <2>1, Zenon
<1> QED
  BY <1>6, <1>8, <1>9, Zenon

\* What a name, an open file or another call leads to stays allocated.
LEMMA StaysAllocated ==
  ASSUME TypeOK, CacheInv, RefInv, LinkInv, LocInv, UseInv, ~panicked, NEW p \in Procs,
         Call(p) \/ Step(p)
  PROVE  /\ \A n \in Names : dir[n] # NoInum /\ allocated[dir[n]] => allocated'[dir[n]]
         /\ \A q \in Procs : fd[q] # NoSlot /\ allocated[inum[fd[q]]] => allocated'[inum'[fd[q]]]
         /\ \A q \in Procs : /\ ip[q] # NoSlot /\ allocated[inum[ip[q]]]
                             /\ q = p => pc[p] # "put_free"
                             => allocated'[inum'[ip[q]]]
<1>1. /\ ip \in [Procs -> Slots \cup {NoSlot}] /\ fd \in [Procs -> Slots \cup {NoSlot}]
      /\ allocated \in [Inums -> BOOLEAN] /\ dir \in [Names -> Inums \cup {NoInum}]
  BY Zenon DEF TypeOK
<1>2. Same \/ Lookup(p) \/ Visit(p) \/ PutFree(p) \/ PutRef(p)
  BY View, Zenon
<1>3. \A i \in Inums : allocated[i] /\ ~(PutFree(p) /\ i = inum[ip[p]]) => allocated'[i]
  <2>1. CASE Same \/ Visit(p) \/ PutRef(p)
    BY <2>1, Zenon DEF Same, Visit, Visited, PutRef, disk
  <2>2. CASE Lookup(p)
    BY <1>1, <2>2, Zenon DEF Lookup
  <2>3. CASE PutFree(p)
    BY <1>1, <2>3, Zenon DEF PutFree
  <2> QED
    BY <1>2, <2>1, <2>2, <2>3
<1>4. ASSUME NEW n \in Names, dir[n] # NoInum /\ allocated[dir[n]] PROVE allocated'[dir[n]]
  BY <1>1, <1>3, <1>4, Forgotten, Zenon
<1>5. ASSUME NEW q \in Procs, fd[q] # NoSlot /\ allocated[inum[fd[q]]]
      PROVE  allocated'[inum'[fd[q]]]
  <2>1. fd[q] \in Slots /\ ref[fd[q]] > 0
    BY <1>1, <1>5, Referenced, Zenon
  <2>2. inum'[fd[q]] = inum[fd[q]] /\ inum[fd[q]] \in Inums
    BY <2>1, InumKept, Zenon DEF CacheInv
  <2>3. PutFree(p) => inum[fd[q]] # inum[ip[p]]
    BY <1>5, Forgotten, Zenon
  <2> QED
    BY <1>3, <1>5, <2>2, <2>3, Zenon
<1>6. ASSUME NEW q \in Procs, ip[q] # NoSlot /\ allocated[inum[ip[q]]], q = p => pc[p] # "put_free"
      PROVE  allocated'[inum'[ip[q]]]
  <2>1. ip[q] \in Slots /\ ref[ip[q]] > 0
    BY <1>1, <1>6, Referenced, Zenon
  <2>2. inum'[ip[q]] = inum[ip[q]] /\ inum[ip[q]] \in Inums
    BY <2>1, InumKept, Zenon DEF CacheInv
  <2>3. PutFree(p) => q # p
    BY <1>6, Zenon DEF PutFree, Goto, At
  <2>4. PutFree(p) => inum[ip[q]] # inum[ip[p]]
    BY <1>6, <2>3, Forgotten, Zenon
  <2> QED
    BY <1>3, <1>6, <2>2, <2>4, Zenon
<1> QED
  BY <1>4, <1>5, <1>6, Zenon

\* How the directory, an open file and the inode of a call change
LEMMA Changes ==
  ASSUME TypeOK, CacheInv, LocInv, ~panicked, NEW p \in Procs, Call(p) \/ Step(p)
  PROVE  /\ \A n \in Names : \/ dir'[n] = dir[n] \/ dir'[n] = NoInum
                             \/ dir'[n] = inum[ip[p]] /\ pc[p] \in {"create_link", "link_dir"}
         /\ \/ fd'[p] = fd[p] \/ fd'[p] = NoSlot
            \/ fd'[p] = ip[p] /\ pc[p] \in {"open", "create_put"}
         /\ \/ ip'[p] = NoSlot
            \/ ip'[p] = ip[p] /\ (pc[p] \in Leaving => pc'[p] \in Leaving)
            \/ ip'[p] = fd[p] \/ Lookup(p)
<1> USE DEF At, Goto
<1>1. /\ ip \in [Procs -> Slots \cup {NoSlot}] /\ fd \in [Procs -> Slots \cup {NoSlot}]
      /\ dir \in [Names -> Inums \cup {NoInum}] /\ pc \in [Procs -> Locations]
  BY Zenon DEF TypeOK
<1>2. CASE Call(p)
  <2>1. Close(p) \/ Lookup(p) \/ \E n \in Names : CallFails(p, n)
    BY <1>2, LookupStep, Zenon DEF Call
  <2> QED
    BY <1>1, <2>1, Zenon DEF Close, disk, Lookup, CallFails, vars
<1>3. CASE Open(p) \/ CreatePut(p)
  BY <1>1, <1>3, Zenon DEF Open, CreatePut, Opened, disk, Leaving
<1>4. CASE CreateLink(p) \/ LinkDir(p) \/ Unlink(p)
  <2>1. ip' = ip /\ fd' = fd /\ pc[p] \notin Leaving
    BY <1>4, Zenon DEF CreateLink, LinkDir, Unlink, Leaving
  <2> QED
    BY <1>1, <1>4, <2>1, Zenon DEF CreateLink, LinkDir, Unlink
<1>5. CASE Create(p) \/ Link(p) \/ LinkFound(p) \/ LinkBad(p) \/ UnlinkDec(p) \/ Put(p) \/ PutFree(p)
  BY <1>5, Zenon DEF Create, Link, LinkFound, LinkBad, UnlinkDec, Put, PutFree, Leaving, disk
<1>6. CASE PutUnlock(p) \/ PutRef(p) \/ Chmod(p)
  BY <1>1, <1>6, Zenon DEF PutUnlock, PutRef, Chmod, Leaving, disk
<1> QED
  BY <1>2, <1>3, <1>4, <1>5, <1>6, Zenon DEF Step

\* No step frees an inode that has a name or is open.
LEMMA DanglingStep ==
  ASSUME TypeOK, CacheInv, RefInv, LinkInv, LocInv, UseInv, NoDangling, ~panicked, NEW p \in Procs,
         Call(p) \/ Step(p)
  PROVE  NoDangling'
<1>1. ASSUME NEW n \in Names, dir'[n] # NoInum PROVE allocated'[dir'[n]]
  <2>1. CASE dir'[n] = dir[n]
    BY <1>1, <2>1, StaysAllocated, Zenon DEF NoDangling
  <2>2. CASE dir'[n] = inum[ip[p]] /\ pc[p] \in {"create_link", "link_dir"}
    <3>1. ip[p] # NoSlot /\ allocated[inum[ip[p]]] /\ pc[p] # "put_free"
      BY <2>2, Zenon DEF UseInv, UseOf, LocInv, LocOf, Leaving
    <3>2. ip[p] \in Slots /\ ref[ip[p]] > 0
      BY <3>1, Referenced, Zenon DEF TypeOK
    <3>3. allocated'[inum'[ip[p]]] /\ inum'[ip[p]] = inum[ip[p]]
      BY <3>1, <3>2, StaysAllocated, InumKept, Zenon
    <3> QED
      BY <2>2, <3>3, Zenon
  <2> QED
    BY <1>1, <2>1, <2>2, Changes, Zenon
<1>2. ASSUME NEW q \in Procs, fd'[q] # NoSlot PROVE allocated'[inum'[fd'[q]]]
  <2>1. CASE fd'[q] = fd[q]
    BY <1>2, <2>1, StaysAllocated, Zenon DEF NoDangling
  <2>2. CASE q = p /\ fd'[p] = ip[p] /\ pc[p] \in {"open", "create_put"}
    <3>1. ip[p] # NoSlot /\ allocated[inum[ip[p]]] /\ pc[p] # "put_free"
      BY <2>2, Zenon DEF UseInv, UseOf, LocInv, LocOf, Leaving
    <3> QED
      BY <2>2, <3>1, StaysAllocated, Zenon
  <2>3. q # p => fd'[q] = fd[q]
    BY View, Zenon DEF Only
  <2> QED
    BY <1>2, <2>1, <2>2, <2>3, Changes, Zenon
<1> QED
  BY <1>1, <1>2, Zenon DEF NoDangling

----------------------------------------------------------------------------
\* LocInv

\* A call keeps its slot, its name and the directory lock.
LEMMA LocStep ==
  ASSUME TypeOK, CacheInv, RefInv, LinkInv, LocInv, UseInv, ~panicked, NEW p \in Procs,
         Call(p) \/ Step(p), ~panicked'
  PROVE  LocInv'
<1> USE DEF At, Goto
<1>1. /\ ip \in [Procs -> Slots \cup {NoSlot}] /\ fd \in [Procs -> Slots \cup {NoSlot}]
      /\ name \in [Procs -> Names \cup {NoName}] /\ pc \in [Procs -> Locations]
      /\ NoSlot \notin Slots /\ None \notin Procs
  BY 0 \notin 1 .. NINODE, NoneAssumption, Zenon DEF TypeOK, NoSlot, Slots
<1>2. /\ Only(p) /\ DirKept(p)
      /\ \A q \in Procs : LocOf(q)
  BY View, Zenon DEF LocInv, LocOf
<1>3. ASSUME NEW q \in Procs \ {p} PROVE LocOf(q)'
  <2>1. pc'[q] = pc[q] /\ ip'[q] = ip[q] /\ name'[q] = name[q] /\ fd'[q] = fd[q]
    BY <1>2, Zenon DEF Only
  <2>2. dirlock = q => dirlock' = q
    BY <1>1, <1>2, Zenon DEF DirKept
  <2>3. LocOf(q)
    BY <1>2, Zenon
  <2> QED
    BY <2>1, <2>2, <2>3, Zenon DEF LocOf
<1>4. LocOf(p)
  BY <1>2, Zenon
<1>5. ASSUME Lookup(p) PROVE ip'[p] # NoSlot
  BY <1>1, <1>5, Zenon DEF Lookup, Full, Got
<1>6. ASSUME NEW n \in Names, OpenCall(p, n) \/ ChmodCall(p, n) PROVE LocOf(p)'
  <2>1. ip'[p] # NoSlot
    BY <1>5, <1>6, LookupStep, Zenon
  <2> QED
    BY <1>1, <1>6, <2>1, Zenon DEF OpenCall, ChmodCall, Namei, LocOf
<1>7. ASSUME NEW n \in Names, CreateCall(p, n) \/ UnlinkCall(p, n) PROVE LocOf(p)'
  <2>1. ip'[p] # NoSlot
    BY <1>5, <1>7, LookupStep, Zenon
  <2>2. pc'[p] \in {"create", "unlink"} /\ name'[p] = n /\ dirlock' = p /\ fd' = fd
    BY <1>1, <1>7, Zenon DEF CreateCall, UnlinkCall
  <2>3. pc'[p] = "create" => fd[p] = NoSlot
    BY <1>1, <1>7, Zenon DEF CreateCall, UnlinkCall
  <2> QED
    BY <2>1, <2>2, <2>3, Zenon DEF LocOf
<1>8. ASSUME NEW old \in Names, NEW new \in Names, LinkCall(p, old, new) PROVE LocOf(p)'
  <2>1. ip'[p] # NoSlot
    BY <1>5, <1>8, LookupStep, Zenon
  <2> QED
    BY <1>1, <1>8, <2>1, Zenon DEF LinkCall, LocOf
<1>9. ASSUME Close(p) PROVE LocOf(p)'
  BY <1>1, <1>9, Zenon DEF Close, LocOf
<1>10. ASSUME NEW n \in Names, CallFails(p, n) PROVE LocOf(p)'
  BY <1>4, <1>10, Zenon DEF CallFails, vars, LocOf
<1>11. ASSUME Open(p) \/ CreatePut(p) PROVE LocOf(p)'
  <2>1. \/ pc'[p] = "idle" /\ ip'[p] = NoSlot
        \/ pc'[p] = "put" /\ ip'[p] = ip[p] /\ ip[p] # NoSlot
    BY <1>1, <1>4, <1>11, Zenon DEF Open, CreatePut, Opened, LocOf
  <2> QED
    BY <2>1, Zenon DEF LocOf
<1>12. ASSUME Create(p) PROVE LocOf(p)'
  BY <1>1, <1>4, <1>12, Zenon DEF Create, LocOf
<1>13. ASSUME CreateLink(p) PROVE LocOf(p)'
  BY <1>1, <1>4, <1>13, Zenon DEF CreateLink, LocOf
<1>14. ASSUME LinkDir(p) PROVE LocOf(p)'
  <2>1. ip[p] # NoSlot /\ name[p] \in Names /\ ip' = ip
    BY <1>4, <1>14, Zenon DEF LinkDir, LocOf
  <2>2. pc'[p] = "put" \/ (pc'[p] = "link_found" /\ dirlock' = p /\ name' = name)
    BY <1>1, <1>14, Zenon DEF LinkDir
  <2> QED
    BY <2>1, <2>2, Zenon DEF LocOf
<1>15. ASSUME Link(p) PROVE LocOf(p)'
  BY <1>1, <1>4, <1>15, Zenon DEF Link, LocOf
<1>16. ASSUME \/ LinkFound(p) \/ LinkBad(p) \/ Unlink(p) \/ UnlinkDec(p)
              \/ Put(p) \/ PutFree(p) \/ PutUnlock(p)
       PROVE  LocOf(p)'
  <2>1. ip' = ip /\ pc[p] # "idle"
    BY <1>16, Zenon DEF LinkFound, LinkBad, Unlink, UnlinkDec, Put, PutFree, PutUnlock
  <2>2. pc'[p] \in {"link_bad", "put", "unlink_put", "put_free", "put_unlock", "put_ref"}
    BY <1>1, <1>16, Zenon DEF LinkFound, LinkBad, Unlink, UnlinkDec, Put, PutFree, PutUnlock
  <2> QED
    BY <1>4, <2>1, <2>2, Zenon DEF LocOf
<1>17. ASSUME PutRef(p) \/ Chmod(p) PROVE LocOf(p)'
  BY <1>1, <1>17, Zenon DEF PutRef, Chmod, LocOf
<1>18. LocOf(p)'
  BY <1>6, <1>7, <1>8, <1>9, <1>10, <1>11, <1>12, <1>13, <1>14, <1>15, <1>16, <1>17, Zenon
     DEF Call, Step
<1> QED
  BY <1>3, <1>18, Zenon DEF LocInv, LocOf

----------------------------------------------------------------------------
\* UseInv

\* iget does not return an inode that has no links: it has no name, and it is not free.
LEMMA Unlooked ==
  ASSUME TypeOK, CacheInv, RefInv, LinkInv, LocInv, UseInv, ~panicked, NEW p \in Procs, Lookup(p),
         NEW s \in Slots, ref[s] > 0, allocated[inum[s]], dnlink[inum[s]] = 0
  PROVE  /\ ip'[p] # s /\ ref'[s] = ref[s] /\ valid'[s] = valid[s] /\ nlink'[s] = nlink[s]
         /\ dnlink'[inum[s]] = 0
<1>1. /\ ip \in [Procs -> Slots \cup {NoSlot}] /\ ref \in [Slots -> Nat] /\ valid \in [Slots -> BOOLEAN]
      /\ dnlink \in [Inums -> 0 .. MaxLink] /\ inum[s] \in Inums
  BY Zenon DEF TypeOK, CacheInv
<1>2. PICK i \in Inums :
        /\ Full(i) \/ \E t \in Slots : Got(p, i, t)
        /\ \/ (\E n \in Names : dir[n] = i) /\ UNCHANGED <<allocated, dnlink>>
           \/ ~allocated[i] /\ dnlink' = [dnlink EXCEPT ![i] = 0]
  BY Zenon DEF Lookup
<1>3. i # inum[s]
  BY <1>1, <1>2, Linked, Zenon DEF Entries
<1>4. dnlink'[inum[s]] = 0 /\ nlink' = nlink
  BY <1>1, <1>2, <1>3, Zenon DEF Lookup
<1>5. CASE Full(i)
  <2>1. ip[p] = NoSlot /\ NoSlot \notin Slots
    BY 0 \notin 1 .. NINODE, Zenon DEF Lookup, LocInv, LocOf, NoSlot, Slots
  <2> QED
    BY <1>4, <1>5, <2>1, Zenon DEF Full
<1>6. ASSUME NEW t \in Slots, Got(p, i, t)
      PROVE  ip'[p] # s /\ ref'[s] = ref[s] /\ valid'[s] = valid[s]
  <2>1. ref[t] = 0 => s # t
    OBVIOUS
  <2>2. s # t
    BY <1>3, <1>6, <2>1, Zenon DEF Got
  <2> QED
    BY <1>1, <1>6, <2>2, Zenon DEF Got
<1> QED
  BY <1>2, <1>4, <1>5, <1>6, Zenon

\* What another process has of its entry does not change under it.
LEMMA Undisturbed ==
  ASSUME TypeOK, CacheInv, RefInv, LinkInv, LocInv, UseInv, ~panicked, NEW p \in Procs,
         Call(p) \/ Step(p), NEW q \in Procs \ {p}
  PROVE  /\ pc[q] \in {"unlink_put", "put_free"} => valid'[ip[q]]
         /\ pc[q] = "put_free" => nlink'[ip[q]] = 0 /\ ref'[ip[q]] = 1
         /\ pc[q] = "create" => dnlink'[inum[ip[q]]] = 0
<1> DEFINE s == ip[q]
<1>1. /\ ip \in [Procs -> Slots \cup {NoSlot}] /\ ref \in [Slots -> Nat] /\ valid \in [Slots -> BOOLEAN]
      /\ dnlink \in [Inums -> 0 .. MaxLink] /\ nlink \in [Slots -> 0 .. MaxLink]
  BY Zenon DEF TypeOK
<1>2. SUFFICES ASSUME pc[q] \in {"unlink_put", "put_free", "create"}
      PROVE  /\ pc[q] \in {"unlink_put", "put_free"} => valid'[s]
             /\ pc[q] = "put_free" => nlink'[s] = 0 /\ ref'[s] = 1
             /\ pc[q] = "create" => dnlink'[inum[s]] = 0
  BY Zenon
<1>3. s # NoSlot /\ s \in Slots /\ allocated[inum[s]]
  BY <1>1, <1>2, ZenonT(30) DEF LocInv, LocOf, UseInv, UseOf, Leaving
<1>4. ref[s] > 0
  BY <1>3, Referenced, Zenon
<1>5. /\ inum[s] \in Inums
      /\ pc[q] \in {"unlink_put", "put_free"} => valid[s]
      /\ pc[q] = "put_free" => nlink[s] = 0 /\ ref[s] = 1
      /\ pc[q] \in {"put_free", "create"} => dnlink[inum[s]] = 0
  BY <1>3, <1>4, ZenonT(30) DEF UseInv, UseOf, CacheInv
<1>6. Same \/ Lookup(p) \/ Visit(p) \/ PutFree(p) \/ PutRef(p)
  BY View, Zenon
<1>7. CASE Same
  BY <1>5, <1>7, Zenon DEF Same
<1>8. CASE Lookup(p)
  <2>1. CASE pc[q] \in {"put_free", "create"}
    BY <1>3, <1>4, <1>5, <1>8, <2>1, Unlooked, Zenon
  <2>2. CASE pc[q] = "unlink_put"
    <3>1. PICK i \in Inums : Full(i) \/ \E t \in Slots : Got(p, i, t)
      BY <1>8, Zenon DEF Lookup
    <3>2. valid[s]
      BY <1>5, <2>2, Zenon
    <3>3. \A t \in Slots : ref[t] = 0 => t # s
      BY <1>4
    <3>4. valid'[s]
      BY <1>1, <1>3, <3>1, <3>2, <3>3, Zenon DEF Full, Got
    <3> QED
      BY <2>2, <3>4, Zenon
  <2> QED
    BY <1>2, <2>1, <2>2, Zenon
<1>9. pc[q] = "put_free" => ip[p] # s
  BY <1>3, <1>5, Referenced, Zenon
<1>10. pc[q] = "create" /\ pc[p] \notin Leaving => ip[p] # s
  BY Zenon DEF UseInv, UseOf
<1>11. CASE Visit(p)
  <2>1. PICK n \in Int : Visited(ip[p], n)
    BY <1>11, Zenon DEF Visit
  <2>2. ip[p] \in Slots /\ ref[ip[p]] > 0 /\ inum[ip[p]] \in Inums /\ pc[p] \notin Leaving
    BY <1>11, Ilock, Zenon DEF Visit, Visiting, Leaving
  <2>3. pc[q] \in {"put_free", "create"} => inum[ip[p]] # inum[s]
    BY <1>3, <1>4, <1>9, <1>10, <2>2, Zenon DEF CacheInv
  <2>4. pc[q] \in {"unlink_put", "put_free"} => valid'[s]
    BY <1>1, <1>3, <1>5, <2>1, Zenon DEF Visited
  <2>5. pc[q] = "put_free" => nlink'[s] = 0 /\ ref'[s] = 1
    BY <1>1, <1>3, <1>5, <1>9, <2>1, Zenon DEF Visited
  <2>6. pc[q] = "create" => dnlink'[inum[s]] = 0
    BY <1>1, <1>5, <2>1, <2>3, Zenon DEF Visited
  <2> QED
    BY <2>4, <2>5, <2>6, Zenon
<1>12. CASE PutFree(p)
  <2>1. dnlink' = dnlink /\ ref' = ref /\ nlink' = nlink /\ inum[s] # inum[ip[p]]
    BY <1>3, <1>12, CachePutFree, Forgotten, Zenon DEF PutFree
  <2>2. valid'[s] = valid[s]
    BY <1>1, <1>3, <1>12, <2>1, Zenon DEF PutFree
  <2> QED
    BY <1>5, <2>1, <2>2, Zenon
<1>13. CASE PutRef(p)
  <2>1. valid' = valid /\ nlink' = nlink /\ dnlink' = dnlink /\ ref' = [ref EXCEPT ![ip[p]] = @ - 1]
    BY <1>13, Zenon DEF PutRef, disk
  <2>2. pc[q] = "put_free" => ref'[s] = ref[s]
    BY <1>1, <1>3, <1>9, <2>1, Zenon
  <2> QED
    BY <1>5, <2>1, <2>2, Zenon
<1> QED
  BY <1>6, <1>7, <1>8, <1>11, <1>12, <1>13, Zenon

\* What the other processes rely on
LEMMA OthersUse ==
  ASSUME TypeOK, CacheInv, RefInv, LinkInv, LocInv, UseInv, ~panicked, NEW p \in Procs,
         Call(p) \/ Step(p), NEW q \in Procs \ {p}
  PROVE  UseOf(q)'
<1>1. /\ pc'[q] = pc[q] /\ ip'[q] = ip[q] /\ name'[q] = name[q] /\ fd'[q] = fd[q]
      /\ Only(p) /\ DirKept(p) /\ None \notin Procs
      /\ ip[q] \in Slots \cup {NoSlot} /\ ip[p] \in Slots \cup {NoSlot}
  BY View, NoneAssumption, Zenon DEF Only, TypeOK
<1>2. pc[q] # "idle" => ip[q] # NoSlot /\ ip[q] \in Slots
  BY <1>1, Zenon DEF LocInv, LocOf
<1>3. pc[q] # "idle" => inum'[ip[q]] = inum[ip[q]]
  <2>1. pc[q] # "idle" => ref[ip[q]] > 0
    BY <1>2, Referenced, Zenon
  <2> QED
    BY <1>2, <2>1, InumKept, Zenon
<1>4. pc[q] \notin Leaving \cup {"idle"} => allocated'[inum'[ip[q]]]
  BY <1>2, StaysAllocated, Zenon DEF UseInv, UseOf
<1>5. ASSUME pc[q] \in {"create", "create_link", "unlink"} PROVE dir' = dir
  <2>1. dirlock = q
    BY <1>5, Zenon DEF LocInv, LocOf
  <2> QED
    BY <1>1, <2>1, Zenon DEF DirKept
<1>6. ASSUME pc[q] = "create", NEW r \in Procs
      PROVE  fd'[r] # ip[q] /\ (ip'[r] = ip[q] => r = q \/ pc'[r] \in Leaving)
  <2>1. /\ fd[r] # ip[q] /\ (ip[r] = ip[q] => r = q \/ pc[r] \in Leaving)
    BY <1>6, Zenon DEF UseInv, UseOf
  <2>2. CASE r # p
    <3>1. fd'[r] = fd[r] /\ ip'[r] = ip[r] /\ pc'[r] = pc[r]
      BY <1>1, <2>2, Zenon DEF Only
    <3> QED
      BY <2>1, <3>1, Zenon
  <2>3. CASE r = p
    <3>1. pc[p] \notin Leaving => ip[p] # ip[q]
      BY <2>1, <2>3, Zenon
    <3>2. fd'[p] # ip[q]
      BY <1>2, <1>6, <2>1, <2>3, <3>1, Changes, Zenon DEF Leaving
    <3>3. Lookup(p) => ip'[p] # ip[q]
      <4>1. ref[ip[q]] > 0
        BY <1>2, <1>6, Referenced, Zenon
      <4>2. allocated[inum[ip[q]]] /\ dnlink[inum[ip[q]]] = 0
        BY <1>6, Zenon DEF UseInv, UseOf, Leaving
      <4> QED
        BY <1>2, <1>6, <4>1, <4>2, Unlooked, Zenon
    <3>4. ip'[p] = ip[q] => pc'[p] \in Leaving
      BY <1>2, <1>6, <2>1, <2>3, <3>1, <3>3, Changes, Zenon
    <3> QED
      BY <2>3, <3>2, <3>4, Zenon
  <2> QED
    BY <2>2, <2>3
<1>7. /\ pc[q] \in {"unlink_put", "put_free"} => valid'[ip[q]]
      /\ pc[q] = "put_free" => nlink'[ip[q]] = 0 /\ ref'[ip[q]] = 1
      /\ pc[q] = "create" => dnlink'[inum[ip[q]]] = 0
  BY Undisturbed, Zenon
<1>8. pc[q] \in {"create", "create_link"} => dir'[name[q]] = NoInum
  BY <1>5, Zenon DEF UseInv, UseOf
<1>9. ASSUME pc[q] = "unlink" PROVE dir'[name[q]] = inum'[ip[q]]
  <2>1. dir[name[q]] = inum[ip[q]]
    BY <1>9, Zenon DEF UseInv, UseOf
  <2> QED
    BY <1>3, <1>5, <1>9, <2>1, Zenon
<1> QED
  BY <1>1, <1>3, <1>4, <1>6, <1>7, <1>8, <1>9, Zenon DEF UseOf

\* What a call relies on once it has its inode
LEMMA CallUse ==
  ASSUME TypeOK, CacheInv, RefInv, LinkInv, LocInv, UseInv, NoDangling, ~panicked, NEW p \in Procs,
         Lookup(p), ~panicked', NEW n \in Names,
         \/ OpenCall(p, n) \/ CreateCall(p, n) \/ UnlinkCall(p, n) \/ ChmodCall(p, n)
         \/ \E new \in Names : LinkCall(p, n, new)
  PROVE  UseOf(p)'
<1> USE DEF At, Goto
<1>1. /\ ip \in [Procs -> Slots \cup {NoSlot}] /\ ref \in [Slots -> Nat] /\ pc \in [Procs -> Locations]
      /\ dnlink \in [Inums -> 0 .. MaxLink] /\ inum \in [Slots -> Inums \cup {NoInum}]
      /\ name \in [Procs -> Names \cup {NoName}] /\ dir \in [Names -> Inums \cup {NoInum}]
      /\ allocated \in [Inums -> BOOLEAN] /\ fd \in [Procs -> Slots \cup {NoSlot}]
      /\ NoInum \notin Inums /\ NoSlot \notin Slots
  BY 0 \notin 1 .. NINODE, NoneAssumption, Zenon DEF TypeOK, NoSlot, Slots
<1>2. CASE CreateCall(p, n)
  <2>1. PICK i \in Inums : /\ ~allocated[i] /\ allocated' = [allocated EXCEPT ![i] = TRUE]
                           /\ dnlink' = [dnlink EXCEPT ![i] = 0] /\ iget(p, i)
    BY <1>2, Zenon DEF CreateCall, ialloc
  <2>2. PICK s \in Slots : Got(p, i, s)
    BY <2>1, Iget, Zenon DEF Full
  <2>3. ip'[p] = s /\ inum'[s] = i /\ allocated'[i] /\ dnlink'[i] = 0
    BY <1>1, <2>1, <2>2, Zenon DEF Got
  <2>4. /\ pc' = [pc EXCEPT ![p] = "create"] /\ name'[p] = n /\ dir[n] = NoInum /\ dir' = dir
        /\ fd' = fd
    BY <1>1, <1>2, Zenon DEF CreateCall
  <2>5. ASSUME NEW r \in Procs
        PROVE  fd'[r] # s /\ (ip'[r] = s => r = p \/ pc'[r] \in Leaving)
    <3>1. ref[s] > 0 => inum[s] = i
      <4>1. ref[s] > 0 => ref[s] # 0
        BY <1>1
      <4> QED
        BY <2>2, <4>1, Zenon DEF Got
    <3>2. s # NoSlot
      BY <1>1, Zenon
    <3>3. fd[r] = s => ref[s] > 0 /\ allocated[inum[s]]
      BY <3>2, Referenced, Zenon DEF NoDangling
    <3>4. fd[r] # s
      BY <2>1, <3>1, <3>3, Zenon
    <3>5. ip[r] = s /\ pc[r] \notin Leaving => ref[s] > 0 /\ allocated[inum[s]]
      <4>1. ip[r] = s => ref[s] > 0 /\ pc[r] # "idle"
        BY <3>2, Referenced, Zenon DEF LocInv, LocOf
      <4> QED
        BY <4>1, Zenon DEF UseInv, UseOf
    <3>6. ip[r] = s => pc[r] \in Leaving
      BY <2>1, <3>1, <3>5, Zenon
    <3>7. r # p => ip'[r] = ip[r] /\ pc'[r] = pc[r]
      BY <1>1, <2>2, <2>4, Zenon DEF Got
    <3> QED
      BY <2>4, <3>4, <3>6, <3>7, Zenon
  <2>6. pc'[p] = "create"
    BY <1>1, <2>4, Zenon
  <2> QED
    BY <2>3, <2>4, <2>5, <2>6, Zenon DEF UseOf
<1>3. CASE \/ OpenCall(p, n) \/ UnlinkCall(p, n) \/ ChmodCall(p, n)
           \/ \E new \in Names : LinkCall(p, n, new)
  <2>1. dir[n] # NoInum /\ iget(p, dir[n]) /\ allocated' = allocated /\ dir' = dir
    BY <1>3, Zenon DEF OpenCall, UnlinkCall, ChmodCall, LinkCall, Namei, disk
  <2>2. dir[n] \in Inums /\ allocated[dir[n]]
    BY <1>1, <2>1, Zenon DEF NoDangling
  <2>3. PICK s \in Slots : Got(p, dir[n], s)
    BY <2>1, <2>2, Iget, Zenon DEF Full
  <2>4. ip'[p] = s /\ inum'[s] = dir[n]
    BY <1>1, <2>3, Zenon DEF Got
  <2>5. pc'[p] \in {"open", "unlink", "chmod", "link"} /\ (pc'[p] = "unlink" => name'[p] = n)
    BY <1>1, <1>3, Zenon DEF OpenCall, UnlinkCall, ChmodCall, LinkCall, Namei
  <2> QED
    BY <2>1, <2>2, <2>4, <2>5, Zenon DEF UseOf
<1> QED
  BY <1>2, <1>3

\* ... and in the course of it
LEMMA StepUse ==
  ASSUME TypeOK, CacheInv, RefInv, LinkInv, LocInv, UseInv, NoDangling, ~panicked, NEW p \in Procs,
         Step(p) \/ Close(p) \/ \E n \in Names : CallFails(p, n)
  PROVE  UseOf(p)'
<1> USE DEF At, Goto
<1>1. /\ ip \in [Procs -> Slots \cup {NoSlot}] /\ fd \in [Procs -> Slots \cup {NoSlot}]
      /\ valid \in [Slots -> BOOLEAN] /\ pc \in [Procs -> Locations]
  BY Zenon DEF TypeOK
<1>2. Call(p) \/ Step(p)
  BY Zenon DEF Call
<1>3. ASSUME pc'[p] \in Leaving \cup {"idle"} PROVE UseOf(p)'
  BY <1>3, Zenon DEF UseOf, Leaving
<1>4. CASE PutFree(p) \/ PutUnlock(p) \/ PutRef(p) \/ Chmod(p)
  BY <1>1, <1>3, <1>4, Zenon DEF PutFree, PutUnlock, PutRef, Chmod, Leaving
<1>5. CASE \E n \in Names : CallFails(p, n)
  BY <1>3, <1>5, Zenon DEF CallFails, vars
<1>6. CASE Close(p)
  <2>1. fd[p] # NoSlot /\ ip'[p] = fd[p] /\ pc'[p] = "put"
    BY <1>1, <1>6, Zenon DEF Close
  <2>2. allocated'[inum'[fd[p]]]
    BY <1>2, <2>1, StaysAllocated, Zenon DEF NoDangling
  <2> QED
    BY <2>1, <2>2, Zenon DEF UseOf, Leaving
<1>7. ASSUME pc[p] \notin Leaving \cup {"idle", "put_free"} PROVE allocated'[inum'[ip[p]]]
  <2>1. ip[p] # NoSlot /\ allocated[inum[ip[p]]]
    BY <1>7, Zenon DEF UseInv, UseOf, LocInv, LocOf
  <2> QED
    BY <1>2, <1>7, <2>1, StaysAllocated, Zenon
<1>8. CASE Open(p) \/ CreatePut(p)
  <2>1. pc[p] \in {"open", "create_put"} /\ (pc'[p] = "idle" \/ (pc'[p] = "put" /\ ip'[p] = ip[p]))
    BY <1>1, <1>8, Zenon DEF Open, CreatePut, Opened
  <2>2. allocated'[inum'[ip[p]]]
    BY <1>7, <2>1, Zenon DEF Leaving
  <2> QED
    BY <1>3, <2>1, <2>2, Zenon DEF UseOf
<1>9. CASE Create(p)
  <2>1. pc[p] = "create" /\ pc'[p] = "create_link" /\ ip' = ip /\ dir' = dir /\ name' = name
    BY <1>1, <1>9, Zenon DEF Create
  <2>2. allocated'[inum'[ip[p]]] /\ dir[name[p]] = NoInum
    BY <1>7, <2>1, Zenon DEF Leaving, UseInv, UseOf
  <2> QED
    BY <2>1, <2>2, Zenon DEF UseOf
<1>10. CASE CreateLink(p) \/ Link(p) \/ LinkDir(p) \/ LinkFound(p) \/ LinkBad(p) \/ UnlinkDec(p)
  <2>1. /\ pc[p] \in {"create_link", "link", "link_dir", "link_found", "link_bad", "unlink_put"}
        /\ pc'[p] \in {"create_put", "link_dir", "link_found", "link_bad", "put"} /\ ip' = ip
    BY <1>1, <1>10, Zenon DEF CreateLink, Link, LinkDir, LinkFound, LinkBad, UnlinkDec
  <2>2. allocated'[inum'[ip[p]]]
    BY <1>7, <2>1, Zenon DEF Leaving
  <2> QED
    BY <2>1, <2>2, Zenon DEF UseOf
<1>11. CASE Unlink(p)
  <2>1. pc[p] = "unlink" /\ pc'[p] = "unlink_put" /\ ip' = ip /\ ip[p] \in Slots
    BY <1>1, <1>11, Zenon DEF Unlink, LocInv, LocOf
  <2>2. allocated'[inum'[ip[p]]] /\ valid'[ip[p]]
    BY <1>1, <1>7, <1>11, <2>1, Zenon DEF Leaving, Unlink
  <2> QED
    BY <2>1, <2>2, Zenon DEF UseOf
<1>12. CASE Put(p)
  <2>1. pc[p] = "put" /\ ip' = ip /\ valid' = valid /\ nlink' = nlink /\ ref' = ref
    BY <1>12, Zenon DEF Put
  <2>2. \/ pc'[p] = "put_unlock"
        \/ pc'[p] = "put_free" /\ valid[ip[p]] /\ nlink[ip[p]] = 0 /\ ref[ip[p]] = 1
    BY <1>1, <1>12, Zenon DEF Put
  <2>3. allocated'[inum'[ip[p]]]
    BY <1>7, <2>1, Zenon DEF Leaving
  <2> QED
    BY <1>3, <2>1, <2>2, <2>3, Zenon DEF UseOf, Leaving
<1> QED
  BY <1>4, <1>5, <1>6, <1>8, <1>9, <1>10, <1>11, <1>12, Zenon DEF Step

\* Every step keeps what the calls rely on.
LEMMA UseStep ==
  ASSUME TypeOK, CacheInv, RefInv, LinkInv, LocInv, UseInv, NoDangling, ~panicked, NEW p \in Procs,
         Call(p) \/ Step(p), ~panicked'
  PROVE  UseInv'
<1>1. ASSUME NEW n \in Names,
             \/ OpenCall(p, n) \/ CreateCall(p, n) \/ UnlinkCall(p, n) \/ ChmodCall(p, n)
             \/ \E new \in Names : LinkCall(p, n, new)
      PROVE  UseOf(p)'
  <2>1. Lookup(p)
    BY <1>1, LookupStep, Zenon
  <2> QED
    BY <1>1, <2>1, CallUse, Zenon
<1>2. UseOf(p)'
  BY <1>1, StepUse, Zenon DEF Call
<1>3. \A q \in Procs \ {p} : UseOf(q)'
  BY OthersUse, Zenon
<1>4. \A q \in Procs : UseOf(q)'
  BY <1>2, <1>3, Zenon
<1> QED
  BY <1>4, Zenon DEF UseInv, UseOf

----------------------------------------------------------------------------
\* The invariant

\* The empty file system with an empty cache
LEMMA InitInv ==
  Init => IInv
<1> SUFFICES ASSUME Init PROVE IInv
  OBVIOUS
<1> USE DEF Init
<1>1. TypeOK
  <2>1. 0 \in 0 .. MaxLink /\ 0 \in Nat
    BY SizeAssumption
  <2> QED
    BY <2>1, Zenon DEF TypeOK, Locations
<1>2. \A s \in Slots : ~(ref[s] > 0)
  OBVIOUS
<1>3. CacheInv
  BY <1>2, Zenon DEF CacheInv
<1>4. NoDangling /\ NoPanic
  BY Zenon DEF NoDangling, NoPanic
<1>5. LocInv
  BY Zenon DEF LocInv, LocOf
<1>6. UseInv
  BY Zenon DEF UseInv, UseOf
<1>7. RefInv
  <2>1. SUFFICES ASSUME NEW s \in Slots
        PROVE  ref[s] = Cardinality(Users(s)) + Cardinality(Openers(s)) + leaked[s]
    BY Zenon DEF RefInv
  <2>2. s # NoSlot
    BY DEF Slots, NoSlot
  <2>3. Users(s) = {} /\ Openers(s) = {}
    BY <2>2, Zenon DEF Users, Openers
  <2>4. Cardinality({}) = 0
    BY FS_EmptySet, Zenon
  <2>5. ref[s] = 0 /\ leaked[s] = 0
    BY Zenon
  <2> QED
    BY <2>3, <2>4, <2>5
<1>8. LinkInv
  <2>1. SUFFICES ASSUME NEW i \in Inums
        PROVE  dnlink[i] = Cardinality(Entries(i)) + Cardinality(Linkers(i))
    BY Zenon DEF LinkInv
  <2>2. Entries(i) = {} /\ Linkers(i) = {}
    BY NoneAssumption, Zenon DEF Entries, Linkers, Linking
  <2>3. Cardinality({}) = 0
    BY FS_EmptySet, Zenon
  <2>4. dnlink[i] = 0
    BY Zenon
  <2> QED
    BY <2>2, <2>3, <2>4
<1> QED
  BY <1>1, <1>3, <1>4, <1>5, <1>6, <1>7, <1>8, Zenon DEF IInv

\* Every step of every process keeps the invariant.
LEMMA NextInv ==
  IInv /\ [Next]_vars => IInv'
<1>1. SUFFICES ASSUME IInv, [Next]_vars PROVE IInv'
  OBVIOUS
<1>2. CASE UNCHANGED vars
  <2>1. TypeOK' /\ CacheInv' /\ NoDangling' /\ NoPanic'
    BY <1>1, <1>2, Zenon DEF vars, IInv, TypeOK, CacheInv, NoDangling, NoPanic
  <2>2. RefInv' /\ LinkInv'
    BY <1>1, <1>2, Zenon DEF vars, IInv, RefInv, LinkInv, Users, Openers, Entries, Linkers
  <2>3. ~panicked' => LocInv' /\ UseInv'
    BY <1>1, <1>2, Zenon DEF vars, IInv, LocInv, LocOf, UseInv, UseOf
  <2> QED
    BY <2>1, <2>2, <2>3, Zenon DEF IInv
<1>3. ASSUME NEW p \in Procs, Call(p) \/ Step(p) PROVE IInv'
  <2>1. ~panicked
    BY <1>3, ZenonT(30) DEF Call, Step, Close, CallFails, OpenCall, CreateCall, UnlinkCall, ChmodCall,
          LinkCall, Namei, Open, Create, CreateLink, CreatePut, Link, LinkDir, LinkFound, LinkBad,
          Unlink, UnlinkDec, Chmod, Put, PutFree, PutUnlock, PutRef, Goto, At
  <2>2. TypeOK /\ CacheInv /\ RefInv /\ LinkInv /\ NoPanic /\ LocInv /\ UseInv /\ NoDangling
    BY <1>1, <2>1, Zenon DEF IInv
  <2>3. TypeOK'
    BY <1>3, <2>1, <2>2, TypeStep, Zenon
  <2>4. CacheInv' /\ NoPanic'
    BY <1>3, <2>1, <2>2, CacheStep, Zenon
  <2>5. RefInv' /\ LinkInv'
    BY <1>3, <2>1, <2>2, <2>3, RefStep, LinkStep, Zenon
  <2>6. NoDangling'
    BY <1>3, <2>1, <2>2, DanglingStep, Zenon
  <2>7. ~panicked' => LocInv' /\ UseInv'
    BY <1>3, <2>1, <2>2, LocStep, UseStep, Zenon
  <2> QED
    BY <2>3, <2>4, <2>5, <2>6, <2>7, ZenonT(30) DEF IInv
<1> QED
  BY <1>1, <1>2, <1>3, Zenon DEF Next

\* The invariant IInv holds in every state of the inode cache.
THEOREM InodesInvariant ==
  Spec => []IInv
BY InitInv, NextInv, PTL DEF Spec

\* For every number of processes, names, inodes and cache entries: iget, iput, sys_close and
\* sys_open count the pointers to an entry exactly, an inode never has two entries, and a
\* cache with an entry for every inode never panics.
THEOREM RefsAlwaysExact ==
  Spec => []RefExact
<1>1. IInv => RefExact
  <2>1. SUFFICES ASSUME IInv PROVE RefExact
    OBVIOUS
  <2>2. TypeOK /\ CacheInv /\ RefInv /\ NoPanic
    BY <2>1, Zenon DEF IInv
  <2>3. OneEntryPerInode
    <3>1. SUFFICES ASSUME NEW i \in Inums PROVE Cardinality(Cached(i)) <= 1
      BY Zenon DEF OneEntryPerInode
    <3>2. CASE Cached(i) = {}
      <4>1. Cardinality(Cached(i)) = 0
        BY <3>2, FS_EmptySet, Zenon
      <4> QED
        BY <4>1
    <3>3. CASE Cached(i) # {}
      <4>1. PICK s \in Cached(i) : TRUE
        BY <3>3, Zenon
      <4>2. Cached(i) = {s}
        BY <2>2, <4>1, Zenon DEF CacheInv, Cached
      <4>3. Cardinality(Cached(i)) = 1
        BY <4>2, FS_Singleton, Zenon
      <4> QED
        BY <4>3
    <3> QED
      BY <3>2, <3>3
  <2> QED
    BY <2>2, <2>3, Zenon DEF RefExact, RefInv
<1> QED
  BY <1>1, InodesInvariant, PTL

\* For every number of processes, names, inodes and cache entries: the link counts on disk
\* are exact between any two steps of create, sys_link and sys_unlink, and no inode that a
\* name or an open file leads to is ever freed by iput.
THEOREM LinksAlwaysExact ==
  Spec => []LinksExact
<1>1. IInv => LinksExact
  BY Zenon DEF IInv, LinksExact, LinkInv, Entries, Linkers, Linking
<1> QED
  BY <1>1, InodesInvariant, PTL
====
