------------------------------- MODULE Blocks ------------------------------
(***************************************************************************)
(* Disk blocks and file contents: the free bitmap, bmap's direct and       *)
(* indirect blocks, readi, writei and itrunc of fs.c, filewrite's chunks   *)
(* (file.c), and the image mkfs.c starts from.                             *)
(*                                                                         *)
(* A call holds ip->lock of its file from start to end; calls on different *)
(* files interleave between the buffers they lock, so each balloc, bzero,  *)
(* bfree and copy into a block is a step.  A byte of a file is one number  *)
(* that tells its file and offset, a block number takes one byte, and the  *)
(* files stay open or are truncated as iput does; names are in Inode.      *)
(***************************************************************************)
EXTENDS Integers, Sequences, FiniteSets, FiniteSetsExt

CONSTANTS
  Procs,
  Root, Files,      \* inode numbers; Root is the directory mkfs makes first
  BSIZE,            \* bytes of a block
  NDIRECT,
  BPB,              \* bits of a block of the bitmap
  FSSIZE,           \* blocks of the disk
  nlog, ninodeblocks,
  MAXOPBLOCKS,      \* blocks begin_op reserves for an operation
  WriteSizes        \* bound: bytes of one write()

ASSUME RootAssumption == Root \in Files /\ Files \subseteq Nat
ASSUME SizeAssumption ==
  /\ {BSIZE, BPB} \subseteq Nat \ {0}
  /\ {NDIRECT, FSSIZE, nlog, ninodeblocks} \subseteq Nat /\ WriteSizes \subseteq Nat \ {0}
  /\ MAXOPBLOCKS \in Nat /\ MAXOPBLOCKS >= 6   \* or filewrite's chunk is empty

VARIABLES
  host,     \* mkfs is still building the image
  freeblock,\* its next unused block
  bitmap,   \* blocks marked in use
  data,     \* bytes of each block
  inode,    \* size and addrs of each file, as the kernel has it in memory
  dinode,   \* the same in the inode blocks
  want,     \* history: the bytes that were written to each file
  loc,      \* what each process does
  panicked

vars == <<host, freeblock, bitmap, data, inode, dinode, want, loc, panicked>>
image == <<host, freeblock>>

NINDIRECT == BSIZE
MAXFILE == NDIRECT + NINDIRECT
nbitmap == FSSIZE \div BPB + 1
inodestart == 2 + nlog
bmapstart == inodestart + ninodeblocks
nmeta == bmapstart + nbitmap
BBLOCK(b) == b \div BPB + bmapstart
DataBlocks == nmeta .. FSSIZE - 1

Zeroes == [i \in 0 .. BSIZE - 1 |-> 0]
NoAddrs == [i \in 0 .. NDIRECT |-> 0]
Byte(f, off) == 100 * f + off     \* what a process writes there; never a block number

Idle == [pc |-> "idle", f |-> Root, off |-> 0, start |-> 0, end |-> 0, n |-> 0,
         new |-> 0, j |-> 0, logged |-> {}]

TypeOK ==
  /\ bitmap \subseteq 0 .. FSSIZE - 1
  /\ data \in [DataBlocks -> [0 .. BSIZE - 1 -> Nat]]
  /\ \A f \in Files : /\ inode[f].size \in 0 .. MAXFILE * BSIZE
                      /\ inode[f].addrs \in [0 .. NDIRECT -> {0} \cup DataBlocks]
                      /\ dinode[f].addrs \in [0 .. NDIRECT -> {0} \cup DataBlocks]
  /\ \A p \in Procs : loc[p].pc \in {"idle", "filewrite", "writei", "bzero", "unlock", "itrunc"} /\ loc[p].f \in Files
  /\ panicked \in BOOLEAN

Become(p, l) == loc' = [loc EXCEPT ![p] = l]
At(p, l) == ~panicked /\ loc[p].pc = l
Open(f) == \E p \in Procs : loc[p].pc # "idle" /\ loc[p].f = f
Locked(f) == \E p \in Procs : loc[p].pc \notin {"idle", "filewrite"} /\ loc[p].f = f

----------------------------------------------------------------------------
\* mkfs

Init ==
  /\ host = TRUE
  /\ freeblock = nmeta
  /\ bitmap = {}
  /\ data = [b \in DataBlocks |-> Zeroes]
  /\ inode = [f \in Files |-> [size |-> 0, addrs |-> NoAddrs]]
  /\ dinode = inode
  /\ want = [f \in Files |-> << >>]
  /\ loc = [p \in Procs |-> Idle]
  /\ panicked = FALSE

\* The address of block bn of a file, 0 if it has none.
Addr(ip, bn) ==
  IF bn < NDIRECT THEN ip.addrs[bn]
  ELSE IF ip.addrs[NDIRECT] = 0 THEN 0 ELSE data[ip.addrs[NDIRECT]][bn - NDIRECT]

winode(f, ip) == inode' = [inode EXCEPT ![f] = ip] /\ dinode' = inode'

\* mkfs's balloc: the bitmap of the first blocks
balloc(used) == bitmap' = 0 .. used - 1

\* iappend of one byte; mkfs appends more byte by byte.
iappend(f) ==
  LET ip == inode[f]  off == ip.size  fbn == off \div BSIZE
      indirect == IF fbn < NDIRECT \/ ip.addrs[NDIRECT] # 0 THEN ip.addrs[NDIRECT] ELSE freeblock
      next == IF indirect = ip.addrs[NDIRECT] THEN freeblock ELSE freeblock + 1
      x == IF Addr(ip, fbn) # 0 THEN Addr(ip, fbn) ELSE next
      last == IF x = next THEN next + 1 ELSE next
  IN
  /\ host /\ fbn < MAXFILE /\ last < BPB         \* the asserts of iappend and balloc
  /\ freeblock' = last
  /\ data' = [b \in DataBlocks |->
                IF b = x THEN [data[b] EXCEPT ![off % BSIZE] = Byte(f, off)]
                ELSE IF b = indirect /\ fbn >= NDIRECT
                THEN [data[b] EXCEPT ![fbn - NDIRECT] = x]
                ELSE data[b]]
  /\ winode(f, [size |-> off + 1,
                addrs |-> [i \in 0 .. NDIRECT |-> IF i = NDIRECT THEN indirect
                                                 ELSE IF i = fbn THEN x ELSE ip.addrs[i]]])
  /\ want' = [want EXCEPT ![f] = Append(@, Byte(f, off))]
  /\ UNCHANGED <<host, bitmap, loc, panicked>>

\* The end of mkfs: the size of the root directory is rounded up to a block, and the
\* bitmap written. The entries do not end with a block, as with those of the Makefile.
MkfsDone ==
  LET off == inode[Root].size  size == (off \div BSIZE + 1) * BSIZE IN
  /\ host /\ off % BSIZE # 0
  /\ winode(Root, [inode[Root] EXCEPT !.size = size])
  /\ want' = [want EXCEPT ![Root] = [i \in 1 .. size |-> IF i <= off THEN @[i] ELSE 0]]
  /\ balloc(freeblock)
  /\ host' = FALSE
  /\ UNCHANGED <<freeblock, data, loc, panicked>>

----------------------------------------------------------------------------
\* filewrite and writei

\* Faulty variant: no slop for writes that are not aligned.
maxAligned == ((MAXOPBLOCKS - 1 - 1) \div 2) * BSIZE

max == ((MAXOPBLOCKS - 1 - 1 - 2) \div 2) * BSIZE

\* A turn of filewrite's loop, with n bytes left: it begins an operation and locks the
\* inode; writei refuses what goes over the largest file.
Chunk(p, f, off, n) ==
  LET end == off + Min({n, max}) IN
  /\ ~Locked(f)
  /\ Become(p, IF off > inode[f].size \/ end > MAXFILE * BSIZE THEN Idle
               ELSE [Idle EXCEPT !.pc = "writei", !.f = f, !.off = off, !.start = off,
                                 !.end = end, !.n = n - (end - off)])
  /\ UNCHANGED <<image, bitmap, data, inode, dinode, want, panicked>>

\* An offset of an open file is never beyond its end.
Write(p, f, off, n) ==
  At(p, "idle") /\ ~host /\ off <= inode[f].size /\ Chunk(p, f, off, n)

WriteMore(p) == At(p, "filewrite") /\ Chunk(p, loc[p].f, loc[p].off, loc[p].n)

bn(l) == l.off \div BSIZE

\* balloc's first half, called by bmap where an address is 0: the first clear bit is
\* set and its block of the bitmap logged.
Balloc(p) ==
  LET l == loc[p]  free == (0 .. FSSIZE - 1) \ bitmap IN
  /\ At(p, "writei") /\ l.off < l.end
  /\ Addr(inode[l.f], bn(l)) = 0
  /\ \/ free = {} /\ panicked' = TRUE /\ UNCHANGED <<bitmap, loc>>
     \/ /\ free # {}
        /\ bitmap' = bitmap \cup {Min(free)}
        /\ Become(p, [l EXCEPT !.pc = "bzero", !.new = Min(free),
                               !.logged = @ \cup {BBLOCK(Min(free))}])
        /\ UNCHANGED panicked
  /\ UNCHANGED <<image, data, inode, dinode, want>>

\* Faulty variant: the block keeps its old bytes.
BzeroSkipped(p) ==
  LET l == loc[p]  ip == inode[l.f]  direct == bn(l) < NDIRECT
      zeroed == data
      entry == ~direct /\ ip.addrs[NDIRECT] # 0 IN
  /\ At(p, "bzero")
  /\ data' = IF entry THEN [zeroed EXCEPT ![ip.addrs[NDIRECT]][bn(l) - NDIRECT] = l.new] ELSE zeroed
  /\ inode' = IF entry THEN inode
              ELSE [inode EXCEPT ![l.f].addrs[IF direct THEN bn(l) ELSE NDIRECT] = l.new]
  /\ Become(p, [l EXCEPT !.pc = "writei", !.new = 0,
                         !.logged = @ \cup {l.new} \cup (IF entry THEN {ip.addrs[NDIRECT]} ELSE {})])
  /\ UNCHANGED <<image, bitmap, dinode, want, panicked>>

\* Its second half, and bmap's use of the block: a direct address, the indirect block,
\* or an address in that.
Bzero(p) ==
  LET l == loc[p]  ip == inode[l.f]  direct == bn(l) < NDIRECT
      zeroed == [data EXCEPT ![l.new] = Zeroes]
      entry == ~direct /\ ip.addrs[NDIRECT] # 0 IN
  /\ At(p, "bzero")
  /\ data' = IF entry THEN [zeroed EXCEPT ![ip.addrs[NDIRECT]][bn(l) - NDIRECT] = l.new] ELSE zeroed
  /\ inode' = IF entry THEN inode
              ELSE [inode EXCEPT ![l.f].addrs[IF direct THEN bn(l) ELSE NDIRECT] = l.new]
  /\ Become(p, [l EXCEPT !.pc = "writei", !.new = 0,
                         !.logged = @ \cup {l.new} \cup (IF entry THEN {ip.addrs[NDIRECT]} ELSE {})])
  /\ UNCHANGED <<image, bitmap, dinode, want, panicked>>

\* One turn of writei's loop: the bytes up to the end of the block.
Copy(p) ==
  LET l == loc[p]  b == Addr(inode[l.f], bn(l))  o == l.off % BSIZE
      m == Min({l.end - l.off, BSIZE - o}) IN
  /\ At(p, "writei") /\ l.off < l.end /\ b # 0
  /\ data' = [data EXCEPT ![b] = [i \in 0 .. BSIZE - 1 |->
                 IF i \in o .. o + m - 1 THEN Byte(l.f, l.off - o + i) ELSE @[i]]]
  /\ Become(p, [l EXCEPT !.off = @ + m, !.logged = @ \cup {b}])
  /\ UNCHANGED <<image, bitmap, inode, dinode, want, panicked>>

\* iupdate; the inodes are in one block.
iupdate(f, ip) == inode' = [inode EXCEPT ![f] = ip] /\ dinode' = [dinode EXCEPT ![f] = ip]
IBLOCK == inodestart

\* Faulty variant: the inode is not saved.
WriteEndUnsaved(p) ==
  LET l == loc[p]  ip == inode[l.f]  grown == l.off > ip.size IN
  /\ At(p, "writei") /\ l.off = l.end
  /\ inode' = [inode EXCEPT ![l.f].size = Max({@, l.off})] /\ UNCHANGED dinode
  /\ want' = [want EXCEPT ![l.f] = [i \in 1 .. Max({Len(@), l.end}) |->
                 IF i \in l.start + 1 .. l.end THEN Byte(l.f, i - 1) ELSE @[i]]]
  /\ Become(p, [l EXCEPT !.pc = "unlock", !.logged = IF grown THEN @ \cup {IBLOCK} ELSE @])
  /\ UNCHANGED <<image, bitmap, data, panicked>>

\* writei saves the inode only if the file has grown.
WriteEnd(p) ==
  LET l == loc[p]  ip == inode[l.f]  grown == l.off > ip.size IN
  /\ At(p, "writei") /\ l.off = l.end
  /\ IF grown THEN iupdate(l.f, [ip EXCEPT !.size = l.off]) ELSE UNCHANGED <<inode, dinode>>
  /\ want' = [want EXCEPT ![l.f] = [i \in 1 .. Max({Len(@), l.end}) |->
                 IF i \in l.start + 1 .. l.end THEN Byte(l.f, i - 1) ELSE @[i]]]
  /\ Become(p, [l EXCEPT !.pc = "unlock", !.logged = IF grown THEN @ \cup {IBLOCK} ELSE @])
  /\ UNCHANGED <<image, bitmap, data, panicked>>

\* iunlock and end_op; filewrite goes on with the next chunk.
Unlock(p) ==
  LET l == loc[p] IN
  /\ At(p, "unlock")
  /\ Become(p, IF l.n = 0 THEN Idle
               ELSE [Idle EXCEPT !.pc = "filewrite", !.f = l.f, !.off = l.off, !.n = l.n])
  /\ UNCHANGED <<image, bitmap, data, inode, dinode, want, panicked>>

----------------------------------------------------------------------------
\* itrunc, called by iput for a file without links that nobody else has open

Trunc(p, f) ==
  /\ At(p, "idle") /\ ~host /\ f # Root /\ ~Open(f)
  /\ Become(p, [Idle EXCEPT !.pc = "itrunc", !.f = f])
  /\ UNCHANGED <<image, bitmap, data, inode, dinode, want, panicked>>

\* bfree
bfree(p, b) ==
  /\ panicked' = (b \notin bitmap)
  /\ bitmap' = bitmap \ {b}
  /\ UNCHANGED <<image, data, dinode, want>>

\* The direct blocks, then what the indirect block lists (j counts its entries, which
\* stay as they are), then the indirect block.
TruncDirect(p, i) ==
  LET l == loc[p]  b == inode[l.f].addrs[i] IN
  /\ At(p, "itrunc") /\ b # 0
  /\ i = Min({k \in 0 .. NDIRECT : inode[l.f].addrs[k] # 0})
  /\ i = NDIRECT => l.j = NINDIRECT
  /\ bfree(p, b)
  /\ inode' = [inode EXCEPT ![l.f].addrs[i] = 0]
  /\ Become(p, [l EXCEPT !.logged = @ \cup {BBLOCK(b)}])

TruncEntry(p) ==
  LET l == loc[p]  ip == inode[l.f]  b == data[ip.addrs[NDIRECT]][l.j] IN
  /\ At(p, "itrunc") /\ l.j < NINDIRECT
  /\ ip.addrs[NDIRECT] # 0 /\ \A k \in 0 .. NDIRECT - 1 : ip.addrs[k] = 0
  /\ IF b # 0 THEN bfree(p, b) ELSE UNCHANGED <<image, bitmap, data, dinode, want, panicked>>
  /\ Become(p, [l EXCEPT !.j = @ + 1, !.logged = IF b # 0 THEN @ \cup {BBLOCK(b)} ELSE @])
  /\ UNCHANGED inode

TruncDone(p) ==
  LET l == loc[p] IN
  /\ At(p, "itrunc") /\ inode[l.f].addrs = NoAddrs
  /\ iupdate(l.f, [size |-> 0, addrs |-> NoAddrs])
  /\ want' = [want EXCEPT ![l.f] = << >>]
  /\ Become(p, [l EXCEPT !.pc = "unlock", !.j = 0, !.logged = @ \cup {IBLOCK}])
  /\ UNCHANGED <<image, bitmap, data, panicked>>

Next ==
  \/ \E f \in Files : iappend(f)
  \/ MkfsDone
  \/ \E p \in Procs :
       \/ \E f \in Files, off \in 0 .. MAXFILE * BSIZE, n \in WriteSizes : Write(p, f, off, n)
       \/ WriteMore(p) \/ Balloc(p) \/ Bzero(p) \/ Copy(p) \/ WriteEnd(p) \/ Unlock(p)
       \/ \E f \in Files : Trunc(p, f)
       \/ \E i \in 0 .. NDIRECT : TruncDirect(p, i)
       \/ TruncEntry(p) \/ TruncDone(p)

Spec == Init /\ [][Next]_vars

----------------------------------------------------------------------------

\* Who uses block b: addresses in inodes, entries of indirect blocks that itrunc has
\* not freed yet, and a balloc whose block is not entered anywhere yet.
Users(b) ==
  Cardinality({<<f, i>> \in Files \X (0 .. NDIRECT) : inode[f].addrs[i] = b})
  + Cardinality({<<f, j>> \in Files \X (0 .. NINDIRECT - 1) :
                   /\ Addr(inode[f], NDIRECT + j) = b
                   /\ \A p \in Procs : loc[p].f = f => j >= loc[p].j})
  + Cardinality({p \in Procs : loc[p].new = b})

\* Every block has one user if its bit is set and none if it is clear, whatever calls
\* are half way: no block is in two files, lost, or freed twice, an indirect block
\* never lists what its last use left in it, and the blocks of the log, the inodes and
\* the bitmap are never given out (balloc, bmap, itrunc).
BlocksOwned ==
  ~host => /\ TypeOK
           /\ 0 .. nmeta - 1 \subseteq bitmap
           /\ \A b \in DataBlocks : Users(b) = IF b \in bitmap THEN 1 ELSE 0
           /\ \A f \in Files, k \in 0 .. MAXFILE - 1 :
                 Addr(inode[f], k) \in {0} \cup DataBlocks
           /\ panicked => bitmap = 0 .. FSSIZE - 1

\* The bytes of a file from its start, as readi gets them.
readi(ip) == [i \in 1 .. ip.size |-> data[Addr(ip, (i - 1) \div BSIZE)][(i - 1) % BSIZE]]

\* What was written is read: through chunks, direct and indirect blocks, recycled
\* blocks and the padding of mkfs, every file that is not locked holds exactly the
\* bytes written to it, without holes (where readi's bmap would allocate outside of an
\* operation), and its inode on disk is up to date although writei saves it only when
\* the size has changed.
ContentsExact ==
  \A f \in Files : ~Locked(f) =>
    /\ inode[f] = dinode[f]
    /\ \A k \in 0 .. MAXFILE - 1 : k * BSIZE < inode[f].size => Addr(inode[f], k) # 0
    /\ readi(inode[f]) = want[f]

\* A write or truncation logs no more blocks than begin_op reserved for it: filewrite's
\* chunk leaves room for the inode, the indirect block, an unaligned end, and the
\* bitmap blocks, of which there are at most two.
OpFitsReservation == \A p \in Procs : Cardinality(loc[p].logged) <= MAXOPBLOCKS
============================================================================
