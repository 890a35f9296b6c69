----------------------------- MODULE FileProofs ----------------------------
(***************************************************************************)
(* The file table counts references exactly, closes each end of a pipe     *)
(* once and does not panic but at the mode test of a pipe, for any number  *)
(* of processes, descriptors, slots, files and pipes.                      *)
(***************************************************************************)
EXTENDS FileSteps

----------------------------------------------------------------------------
\* Steps keep the types of the slots and what the other calls hold.

Tables == [Procs -> [FDs -> Slots \cup {NoSlot}]]

\* Every effect leaves types only to slots in use, and to all that have a descriptor
LEMMA KindStep ==
  ASSUME IInv, TypeOK', NEW p \in Procs, Effect(p)
  PROVE  KindInv'
<1> DEFINE Typed(s) == /\ file'[s].ref = 0 => file'[s].type = "NONE"
                       /\ file'[s].type = "INODE" => file'[s].ip \in Entries
           Used(r, k) == ofile'[r][k] # NoSlot => file'[ofile'[r][k]].type # "NONE"
<1>0. /\ TypeOK /\ SlotInv /\ KindInv
      /\ \A u \in Slots : file[u].ref \in Nat
      /\ ofile \in Tables
      /\ \A r \in Procs, k \in FDs : ofile[r][k] \in Slots \cup {NoSlot}
  BY DEF IInv, TypeOK, Files, Tables
<1>1. SUFFICES (\A u \in Slots : Typed(u)) /\ \A r \in Procs, k \in FDs : Used(r, k)
  BY Zenon DEF KindInv
<1>2. /\ \A u \in Slots : /\ file[u].ref = 0 => file[u].type = "NONE"
                          /\ file[u].type = "INODE" => file[u].ip \in Entries
      /\ \A r \in Procs, k \in FDs : ofile[r][k] # NoSlot => file[ofile[r][k]].type # "NONE"
  BY <1>0, Zenon DEF KindInv
<1>3. ASSUME file' = file, ofile' = ofile
      PROVE  (\A u \in Slots : Typed(u)) /\ \A r \in Procs, k \in FDs : Used(r, k)
  BY <1>2, <1>3, Zenon
<1>4. CASE Keeps(p)
  BY <1>3, <1>4, Zenon DEF Keeps
<1>5. ASSUME NEW s \in Slots, Takes(p, s)
      PROVE  (\A u \in Slots : Typed(u)) /\ \A r \in Procs, k \in FDs : Used(r, k)
  <2>1. /\ file'[s].ref = 1 /\ file'[s].type = file[s].type /\ file'[s].ip = file[s].ip
        /\ Lone(s) /\ ofile' = ofile
    BY <1>5, Zenon DEF Takes, SameFile
  <2>2. \A u \in Slots : Typed(u) /\ file'[u].type = file[u].type
    BY <1>2, <2>1, SMT DEF Lone
  <2> QED
    BY <1>0, <1>2, <2>1, <2>2, SMTT(30)
<1>6. ASSUME NEW s \in Slots, NEW fd \in FDs, Installs(p, s, fd)
      PROVE  (\A u \in Slots : Typed(u)) /\ \A r \in Procs, k \in FDs : Used(r, k)
  <2>1. /\ file'[s].ref = file[s].ref /\ file'[s].type = "INODE" /\ file'[s].ip \in Entries /\ Lone(s)
        /\ ofile' = [ofile EXCEPT ![p][fd] = s] /\ loc[p].f0 = s
    BY <1>6, Zenon DEF Installs
  <2>2. file[s].ref > 0
    BY <1>0, <2>1, Sole, ZenonT(30)
  <2>3. \A u \in Slots : Typed(u) /\ (file[u].type # "NONE" => file'[u].type # "NONE")
    BY <1>0, <1>2, <2>1, <2>2, SMTT(30) DEF Lone
  <2>4. \A r \in Procs, k \in FDs : ofile'[r][k] = ofile[r][k] \/ ofile'[r][k] = s
    BY <1>0, <2>1 DEF Tables
  <2>5. file'[s].type # "NONE"
    BY <2>1, SMTT(30)
  <2>6. \A r \in Procs, k \in FDs : Used(r, k)
    BY <1>0, <1>2, <2>3, <2>4, <2>5, SMTT(30)
  <2> QED
    BY <2>3, <2>6, Zenon
<1>7. ASSUME NEW s \in Slots, NEW t \in Slots, NEW q \in Pipes, Connects(p, s, t, q)
      PROVE  (\A u \in Slots : Typed(u)) /\ \A r \in Procs, k \in FDs : Used(r, k)
  <2>1. /\ file'[s].ref = file[s].ref /\ file'[s].type = "READEND"
        /\ file'[t].ref = file[t].ref /\ file'[t].type = "WRITEEND"
        /\ \A u \in Slots \ {s, t} : file'[u] = file[u]
        /\ ofile' = ofile /\ loc[p].f0 = s /\ loc[p].f1 = t
    BY <1>7, Zenon DEF Connects
  <2>2. file[s].ref > 0 /\ file[t].ref > 0
    BY <1>0, <2>1, Sole, ZenonT(30)
  <2>3. \A u \in Slots : Typed(u) /\ (file[u].type # "NONE" => file'[u].type # "NONE")
    BY <1>0, <1>2, <2>1, <2>2, SMTT(30)
  <2> QED
    BY <1>0, <1>2, <2>1, <2>3, Zenon
<1>8. ASSUME NEW s \in Slots, NEW t \in Slots, NEW m \in FDs, NEW n \in FDs, Pairs(p, s, t, m, n)
      PROVE  (\A u \in Slots : Typed(u)) /\ \A r \in Procs, k \in FDs : Used(r, k)
  <2>1. /\ file' = file /\ file[s].type # "NONE" /\ file[t].type # "NONE"
        /\ ofile' = [ofile EXCEPT ![p][m] = s, ![p][n] = t]
    BY <1>8, Zenon DEF Pairs
  <2>2. \A r \in Procs, k \in FDs : ofile'[r][k] = ofile[r][k] \/ ofile'[r][k] = s \/ ofile'[r][k] = t
    BY <1>0, <2>1 DEF Tables
  <2>3. \A r \in Procs, k \in FDs : Used(r, k)
    <3>1. TAKE r \in Procs, k \in FDs
    <3>2. file'[ofile'[r][k]] = file[ofile'[r][k]]
      BY <2>1, Zenon
    <3> DEFINE c == ofile'[r][k]
    <3>3. c = ofile[r][k] \/ c = s \/ c = t
      BY <2>2, Zenon
    <3> HIDE DEF c
    <3>4. c # NoSlot => file[c].type # "NONE"
      BY <1>2, <1>8, <3>3, Zenon DEF Pairs
    <3> QED
      BY <3>2, <3>4, Zenon DEF c
  <2> QED
    BY <1>2, <2>1, <2>3, Zenon
<1>9. ASSUME NEW s \in Slots, Frees(p, s)
      PROVE  (\A u \in Slots : Typed(u)) /\ \A r \in Procs, k \in FDs : Used(r, k)
  <2>1. /\ file[s].ref > 0 /\ file'[s].ref = file[s].ref - 1 /\ Lone(s)
        /\ \/ file[s].ref = 1 /\ file'[s].type = "NONE"
           \/ file[s].ref # 1 /\ file'[s].type = file[s].type /\ file'[s].ip = file[s].ip
    BY <1>9, Zenon DEF Frees, Freed, SameFile
  <2>2. \A u \in Slots : Typed(u)
    BY <1>0, <1>2, <2>1, SMTT(30) DEF Lone
  <2>3. \A r \in Procs, k \in FDs : ofile'[r][k] = ofile[r][k] \/ ofile'[r][k] = NoSlot
    BY <1>0, <1>9, SMT DEF Tables, Frees
  <2>4. ASSUME file[s].ref = 1, NEW r \in Procs, NEW k \in FDs PROVE ofile'[r][k] # s
    <3>1. CASE ofile' = ofile /\ (loc[p].f0 = s \/ loc[p].f1 = s)
      <4>1. ofile[r][k] # s
        BY <1>0, <2>4, <3>1, Sole, SMTT(30)
      <4> QED
        BY <3>1, <4>1, ZenonT(30)
    <3>2. ASSUME NEW m \in FDs, ofile[p][m] = s, ofile' = [ofile EXCEPT ![p][m] = NoSlot]
          PROVE  ofile'[r][k] # s
      <4>1. ofile[r][k] = s => r = p /\ k = m
        BY <1>0, <2>4, <3>2, Sole, SMTT(30)
      <4> QED
        BY <1>0, <3>2, <4>1, SlotAssumption, SMTT(30) DEF Tables
    <3> QED
      BY <1>9, <3>1, <3>2, Zenon DEF Frees
  <2>5. \A u \in Slots : u # s \/ file[s].ref # 1 => file'[u].type = file[u].type
    BY <2>1, SMTT(30) DEF Lone
  <2>6. \A r \in Procs, k \in FDs : Used(r, k)
    <3> HIDE <2>2
    <3> QED
      BY <1>0, <1>2, <2>3, <2>4, <2>5, SMTT(30)
  <2> QED
    BY <2>2, <2>6, Zenon
<1>10. CASE Finishes(p)
  BY <1>3, <1>10, Zenon DEF Finishes
<1>11. ASSUME NEW s \in Slots, NEW r \in Procs, NEW k \in FDs, Shares(p, s, r, k)
       PROVE  (\A u \in Slots : Typed(u)) /\ \A x \in Procs, m \in FDs : Used(x, m)
  <2>1. /\ file'[s].ref = file[s].ref + 1 /\ file'[s].type = file[s].type /\ file'[s].ip = file[s].ip
        /\ Lone(s) /\ ofile' = [ofile EXCEPT ![r][k] = s]
    BY <1>11, Zenon DEF Shares, SameFile
  <2>2. file[s].type # "NONE"
    BY <1>2, <1>11, SlotAssumption, Zenon DEF Shares
  <2>3. \A u \in Slots : Typed(u) /\ file'[u].type = file[u].type
    BY <1>0, <1>2, <2>1, <2>2, SMTT(30) DEF Lone
  <2>4. \A x \in Procs, m \in FDs : ofile'[x][m] = ofile[x][m] \/ ofile'[x][m] = s
    BY <1>0, <2>1, SMTT(30) DEF Tables
  <2>5. \A x \in Procs, m \in FDs : Used(x, m)
    BY <1>0, <1>2, <2>2, <2>3, <2>4, SMTT(30)
  <2> QED
    BY <2>3, <2>5, Zenon
<1> QED
  BY <1>4, <1>5, <1>6, <1>7, <1>8, <1>9, <1>10, <1>11, Zenon DEF Effect

\* What another call holds outside of a descriptor is left alone.
LEMMA HeldSafe ==
  ASSUME IInv, NEW p \in Procs, Effect(p), NEW r \in Procs, r # p, NEW x \in Slots,
         loc[r].f0 = x \/ loc[r].f1 = x
  PROVE  /\ file[x].ref = 1 /\ file[x].type = "NONE" => file'[x].ref = 1 /\ file'[x].type = "NONE"
         /\ file[x].type # "NONE" => file'[x].type # "NONE"
<1>0. TypeOK /\ SlotInv /\ file[x].ref \in Nat
  BY DEF IInv, TypeOK, Files
<1>1. file[x].ref > 0
  BY <1>0, Sole, Zenon
<1>2. /\ file[x].ref = 1 => loc[p].f0 # x /\ loc[p].f1 # x
      /\ file[x].ref = 1 => \A k \in FDs : ofile[p][k] # x
  BY <1>0, Sole, Zenon
<1>3. ASSUME file'[x] = file[x]
      PROVE  /\ file[x].ref = 1 /\ file[x].type = "NONE" => file'[x].ref = 1 /\ file'[x].type = "NONE"
             /\ file[x].type # "NONE" => file'[x].type # "NONE"
  BY <1>3, Zenon
<1>4. ASSUME file[x].ref # 1, SameFile(file'[x], file[x])
      PROVE  /\ file[x].ref = 1 /\ file[x].type = "NONE" => file'[x].ref = 1 /\ file'[x].type = "NONE"
             /\ file[x].type # "NONE" => file'[x].type # "NONE"
  BY <1>4, Zenon DEF SameFile
<1>5. ASSUME file[x].ref # 1, file[x].type = "NONE"
      PROVE  /\ file[x].ref = 1 /\ file[x].type = "NONE" => file'[x].ref = 1 /\ file'[x].type = "NONE"
             /\ file[x].type # "NONE" => file'[x].type # "NONE"
  BY <1>5, Zenon
<1>6. CASE Keeps(p)
  BY <1>3, <1>6, Zenon DEF Keeps
<1>7. CASE \E s \in Slots : Takes(p, s)
  <2>1. file'[x] = file[x]
    BY <1>1, <1>7, SMT DEF Takes, Lone
  <2> QED
    BY <1>3, <2>1, SMTT(30)
<1>8. ASSUME NEW s \in Slots, NEW fd \in FDs, Installs(p, s, fd)
      PROVE  file'[x] = file[x] \/ (file[x].ref # 1 /\ file[x].type = "NONE")
  BY <1>2, <1>8, Zenon DEF Installs, Lone
<1>9. ASSUME NEW s \in Slots, NEW t \in Slots, NEW q \in Pipes, Connects(p, s, t, q)
      PROVE  file'[x] = file[x] \/ (file[x].ref # 1 /\ file[x].type = "NONE")
  <2>1. CASE x = s \/ x = t
    BY <1>2, <1>9, <2>1, Zenon DEF Connects
  <2>2. CASE x # s /\ x # t
    BY <1>9, <2>2, Zenon DEF Connects
  <2> QED
    BY <2>1, <2>2, Zenon
<1>10. CASE \E s, t \in Slots, m, n \in FDs : Pairs(p, s, t, m, n)
  BY <1>3, <1>10, Zenon DEF Pairs
<1>11. ASSUME NEW s \in Slots, Frees(p, s)
       PROVE  file'[x] = file[x] \/ (file[x].ref # 1 /\ SameFile(file'[x], file[x]))
  <2>1. CASE x # s
    BY <1>11, <2>1, Zenon DEF Frees, Freed, Lone
  <2>2. CASE x = s
    <3>1. file[x].ref # 1
      BY <1>2, <1>11, <2>2, Zenon DEF Frees
    <3> QED
      BY <1>11, <2>2, <3>1, Zenon DEF Frees, Freed
  <2> QED
    BY <2>1, <2>2
<1>12. CASE Finishes(p)
  BY <1>3, <1>12, Zenon DEF Finishes
<1>13. ASSUME NEW s \in Slots, NEW q \in Procs, NEW k \in FDs, Shares(p, s, q, k)
       PROVE  file'[x] = file[x] \/ (file[x].ref # 1 /\ SameFile(file'[x], file[x]))
  <2>1. CASE x # s
    BY <1>13, <2>1, Zenon DEF Shares, Lone
  <2>2. CASE x = s
    <3>1. file[x].ref # 1
      BY <1>2, <1>13, <2>2, Zenon DEF Shares
    <3> QED
      BY <1>13, <2>2, <3>1, Zenon DEF Shares
  <2> QED
    BY <2>1, <2>2
<1> QED
  BY <1>3, <1>4, <1>5, <1>6, <1>7, <1>8, <1>9, <1>10, <1>11, <1>12, <1>13, Zenon DEF Effect

\* The step of p leaves every other call with what it holds
LEMMA OtherLocs ==
  ASSUME IInv, NEW p \in Procs, Effect(p), Only(p), NEW r \in Procs, r # p
  PROVE  LocOf(r)'
<1>0. LocOf(r) /\ loc[r] \in Locations /\ TypeOK
  BY DEF IInv, LocInv, TypeOK
<1>1. loc'[r] = loc[r]
  BY Zenon DEF Only
<1> DEFINE l == loc[r]
           Same(x) == /\ file[x].ref = 1 /\ file[x].type = "NONE" => file'[x].ref = 1 /\ file'[x].type = "NONE"
                      /\ file[x].type # "NONE" => file'[x].type # "NONE"
<1>2. (l.f0 # NoSlot => Same(l.f0)) /\ (l.f1 # NoSlot => Same(l.f1))
  <2>1. (l.f0 # NoSlot => l.f0 \in Slots) /\ (l.f1 # NoSlot => l.f1 \in Slots)
    BY <1>0, SMTT(30) DEF Locations
  <2> QED
    BY <2>1, HeldSafe, Zenon
<1> QED
  BY <1>0, <1>1, <1>2, Zenon DEF LocOf

----------------------------------------------------------------------------
\* Steps keep the counts of the entries and of the ends exact.

\* Two subsets of a finite set that agree but for x
Apart(F, S, T, x) ==
  IsFiniteSet(F) /\ S \in SUBSET F /\ T \in SUBSET F /\ x \in F /\ S \ {x} = T \ {x}

Counted(S, T, x) ==
  /\ Cardinality(S) \in Nat /\ Cardinality(T) \in Nat
  /\ Cardinality(T) = Cardinality(S) + (IF x \in T THEN 1 ELSE 0) - (IF x \in S THEN 1 ELSE 0)

\* The cardinalities of two sets that differ in one element
LEMMA OneApart ==
  ASSUME NEW F, NEW S, NEW T, NEW x, Apart(F, S, T, x)
  PROVE  Counted(S, T, x)
<1> USE DEF Apart, Counted
<1>1. IsFiniteSet(S) /\ IsFiniteSet(T)
  BY FS_Subset, Zenon
<1>2. Cardinality(S) \in Nat /\ Cardinality(T) \in Nat
  BY <1>1, FS_CardinalityType, Zenon
<1>3. /\ Cardinality(S \ {x}) = IF x \in S THEN Cardinality(S) - 1 ELSE Cardinality(S)
      /\ Cardinality(T \ {x}) = IF x \in T THEN Cardinality(T) - 1 ELSE Cardinality(T)
  BY <1>1, FS_RemoveElement, Zenon
<1>4. Cardinality(S \ {x}) = Cardinality(T \ {x})
  OBVIOUS
<1> QED
  BY <1>2, <1>3, <1>4, SMT

\* One reference from a to s, or none
Holds(a, s) == IF a = s THEN 1 ELSE 0

One(b) == IF b THEN 1 ELSE 0

\* The files of a kind, when only slot s may change
FilesBut(s, k, v) == \A t \in Slots \ {s} : IsOf(file'[t], k, v) <=> IsOf(file[t], k, v)
\* They go from m to n by d.
By(m, n, d) == m \in Nat /\ n \in Nat /\ n = m + d

\* The files of a kind when one slot changes
LEMMA FileCount ==
  ASSUME NEW s \in Slots, NEW k, NEW v, FilesBut(s, k, v)
  PROVE  By(Cardinality(FilesOf(k, v)), Cardinality(FilesOf(k, v)'),
            One(IsOf(file'[s], k, v)) - One(IsOf(file[s], k, v)))
<1>1. Apart(Slots, FilesOf(k, v), FilesOf(k, v)', s)
  BY SizeAssumption, Zenon DEF Apart, FilesOf, FilesBut
<1>2. Counted(FilesOf(k, v), FilesOf(k, v)', s)
  BY <1>1, OneApart, Zenon
<1>3. (s \in FilesOf(k, v) <=> IsOf(file[s], k, v)) /\ (s \in FilesOf(k, v)' <=> IsOf(file'[s], k, v))
  BY Zenon DEF FilesOf
<1> QED
  BY <1>2, <1>3, SMT DEF Counted, One, By

\* The files of a kind when no slot of that kind changes
LEMMA SameCount ==
  ASSUME NEW k, NEW v, \A t \in Slots : IsOf(file'[t], k, v) <=> IsOf(file[t], k, v)
  PROVE  By(Cardinality(FilesOf(k, v)), Cardinality(FilesOf(k, v)'), 0)
<1>1. FilesOf(k, v)' = FilesOf(k, v)
  BY Zenon DEF FilesOf
<1>2. Cardinality(FilesOf(k, v)) \in Nat
  BY KindCounts, Zenon
<1> QED
  BY <1>1, <1>2 DEF By

\* The copies in fileclose when one process moves
LEMMA CopyCount ==
  ASSUME NEW p \in Procs, Only(p), NEW k, NEW v
  PROVE  By(Cardinality(CopiesOf(k, v)), Cardinality(CopiesOf(k, v)'),
            One(IsOf(loc'[p].ff, k, v)) - One(IsOf(loc[p].ff, k, v)))
<1>1. Apart(Procs, CopiesOf(k, v), CopiesOf(k, v)', p)
  <2>1. \A r \in Procs \ {p} : IsOf(loc'[r].ff, k, v) <=> IsOf(loc[r].ff, k, v)
    BY SMT DEF Only, IsOf
  <2> QED
    BY <2>1, SizeAssumption, Zenon DEF Apart, CopiesOf
<1>2. Counted(CopiesOf(k, v), CopiesOf(k, v)', p)
  BY <1>1, OneApart, Zenon
<1>3. (p \in CopiesOf(k, v) <=> IsOf(loc[p].ff, k, v)) /\ (p \in CopiesOf(k, v)' <=> IsOf(loc'[p].ff, k, v))
  BY Zenon DEF CopiesOf
<1> QED
  BY <1>2, <1>3, SMT DEF Counted, One, By

\* The calls that hold an entry when one process moves
LEMMA OpeningCount ==
  ASSUME NEW p \in Procs, Only(p), NEW e
  PROVE  By(Cardinality(Opening(e)), Cardinality(Opening(e)'), Holds(loc'[p].e, e) - Holds(loc[p].e, e))
<1>1. Apart(Procs, Opening(e), Opening(e)', p)
  BY SizeAssumption, Zenon DEF Apart, Opening, Only
<1>2. Counted(Opening(e), Opening(e)', p)
  BY <1>1, OneApart, Zenon
<1>3. (p \in Opening(e) <=> loc[p].e = e) /\ (p \in Opening(e)' <=> loc'[p].e = e)
  BY Zenon DEF Opening
<1> QED
  BY <1>2, <1>3, SMT DEF Counted, Holds, By

\* What p's call adds to the references of an entry
Added(p, e) ==
  One(IsOf(loc'[p].ff, "INODE", e)) - One(IsOf(loc[p].ff, "INODE", e))
  + Holds(loc'[p].e, e) - Holds(loc[p].e, e)
\* The count follows what p adds and d more files.
Pays(p, e, d) == icache'[e].ref = icache[e].ref + leaked'[e] - leaked[e] + d + Added(p, e)
EntryOf(e) ==
  icache[e].ref = Cardinality(FilesOf("INODE", e)) + Cardinality(CopiesOf("INODE", e))
                  + Cardinality(Opening(e)) + leaked[e]

\* The count of an entry stays exact when it moves by what its holders move
LEMMA EntryMoves ==
  ASSUME TypeOK, TypeOK', EntryInv, NEW p \in Procs, Only(p), NEW e \in Entries, NEW d \in Int,
         By(Cardinality(FilesOf("INODE", e)), Cardinality(FilesOf("INODE", e)'), d),
         Pays(p, e, d)
  PROVE  EntryOf(e)'
<1> DEFINE F0 == Cardinality(FilesOf("INODE", e))   F1 == Cardinality(FilesOf("INODE", e)')
           C0 == Cardinality(CopiesOf("INODE", e))  C1 == Cardinality(CopiesOf("INODE", e)')
           O0 == Cardinality(Opening(e))            O1 == Cardinality(Opening(e)')
<1>1. By(C0, C1, One(IsOf(loc'[p].ff, "INODE", e)) - One(IsOf(loc[p].ff, "INODE", e)))
  BY CopyCount, Zenon
<1>2. By(O0, O1, Holds(loc'[p].e, e) - Holds(loc[p].e, e))
  BY OpeningCount, Zenon
<1>3. icache[e].ref = F0 + C0 + O0 + leaked[e] /\ leaked[e] \in Nat /\ leaked'[e] \in Nat
  BY Zenon DEF EntryInv, TypeOK
<1>4. By(F0, F1, d) /\ icache'[e].ref = icache[e].ref + leaked'[e] - leaked[e] + d + Added(p, e)
  BY Zenon DEF Pays
<1>5. /\ One(IsOf(loc'[p].ff, "INODE", e)) \in Int /\ One(IsOf(loc[p].ff, "INODE", e)) \in Int
      /\ Holds(loc'[p].e, e) \in Int /\ Holds(loc[p].e, e) \in Int
  BY SMTT(30) DEF One, Holds
<1> HIDE DEF F0, F1, C0, C1, O0, O1
<1>6. icache'[e].ref = F1 + C1 + O1 + leaked'[e]
  BY <1>1, <1>2, <1>3, <1>4, <1>5, SMTT(30) DEF By, Added
<1> QED
  BY <1>6, Zenon DEF F1, C1, O1, EntryOf

\* The end is opened or closed with p's copy and d more files.
Owes(p, q, end, d) ==
  One(IsOpen(q, end)') = One(IsOpen(q, end)) + d + One(IsOf(loc'[p].ff, end, q))
                         - One(IsOf(loc[p].ff, end, q))
EndOf(q, end) ==
  Cardinality(FilesOf(end, q)) + Cardinality(CopiesOf(end, q)) = One(IsOpen(q, end))

\* An end of a pipe stays held by one when it is opened or closed with its holder
LEMMA EndMoves ==
  ASSUME EndInv, NEW p \in Procs, Only(p), NEW q \in Pipes, NEW end \in Ends, NEW d \in Int,
         By(Cardinality(FilesOf(end, q)), Cardinality(FilesOf(end, q)'), d),
         Owes(p, q, end, d)
  PROVE  EndOf(q, end)'
<1> DEFINE F0 == Cardinality(FilesOf(end, q))   F1 == Cardinality(FilesOf(end, q)')
           C0 == Cardinality(CopiesOf(end, q))  C1 == Cardinality(CopiesOf(end, q)')
<1>1. By(C0, C1, One(IsOf(loc'[p].ff, end, q)) - One(IsOf(loc[p].ff, end, q)))
  BY CopyCount, Zenon
<1>2. F0 + C0 = One(IsOpen(q, end))
  BY Zenon DEF EndInv, One
<1>3. /\ By(F0, F1, d)
      /\ One(IsOpen(q, end)') = One(IsOpen(q, end)) + d + One(IsOf(loc'[p].ff, end, q))
                                - One(IsOf(loc[p].ff, end, q))
  BY Zenon DEF Owes
<1>4. /\ One(IsOf(loc'[p].ff, end, q)) \in Int /\ One(IsOf(loc[p].ff, end, q)) \in Int
      /\ One(IsOpen(q, end)) \in Int
  BY SMTT(30) DEF One
<1> HIDE DEF F0, F1, C0, C1
<1>5. F1 + C1 = One(IsOpen(q, end)')
  BY <1>1, <1>2, <1>3, <1>4, SMTT(30) DEF By
<1> QED
  BY <1>5, Zenon DEF F1, C1, EndOf

Kinds == Ends \cup {"INODE"}
\* The step changes no file and no copy of kind k.
Quiet(p, k, v) ==
  /\ \A t \in Slots : IsOf(file'[t], k, v) <=> IsOf(file[t], k, v)
  /\ ~IsOf(loc'[p].ff, k, v) /\ ~IsOf(loc[p].ff, k, v)

\* Effects that change no file of any kind
LEMMA QuietSteps ==
  ASSUME NEW p \in Procs, NEW k \in Kinds, NEW v,
         \/ Keeps(p)
         \/ \E s \in Slots : Takes(p, s)
         \/ \E s, t \in Slots, m, n \in FDs : Pairs(p, s, t, m, n)
         \/ \E s \in Slots, r \in Procs, m \in FDs : Shares(p, s, r, m)
  PROVE  Quiet(p, k, v)
<1>0. k # "NONE"
  BY DEF Kinds, Ends
<1>1. ASSUME NoCopy(p) PROVE ~IsOf(loc'[p].ff, k, v) /\ ~IsOf(loc[p].ff, k, v)
  BY <1>0, <1>1, Zenon DEF NoCopy, IsOf
<1>2. ASSUME NEW s \in Slots, SameFile(file'[s], file[s]), Lone(s)
      PROVE  \A t \in Slots : IsOf(file'[t], k, v) <=> IsOf(file[t], k, v)
  BY <1>2, SMT DEF SameFile, Lone, IsOf
<1>3. CASE Keeps(p)
  BY <1>1, <1>3, Zenon DEF Keeps, Quiet
<1>4. ASSUME NEW s \in Slots, Takes(p, s) PROVE Quiet(p, k, v)
  BY <1>1, <1>2, <1>4, Zenon DEF Takes, Quiet
<1>5. ASSUME NEW s \in Slots, NEW t \in Slots, NEW m \in FDs, NEW n \in FDs, Pairs(p, s, t, m, n)
      PROVE  Quiet(p, k, v)
  BY <1>1, <1>5, Zenon DEF Pairs, Quiet
<1>6. ASSUME NEW s \in Slots, NEW r \in Procs, NEW m \in FDs, Shares(p, s, r, m)
      PROVE  Quiet(p, k, v)
  BY <1>1, <1>2, <1>6, Zenon DEF Shares, Quiet
<1> QED
  BY <1>3, <1>4, <1>5, <1>6, Zenon

\* fileclose hands a file over to the copy, or leaves the kinds as they are.
LEMMA FreesKind ==
  ASSUME NEW p \in Procs, NEW s \in Slots, Frees(p, s), NEW k \in Kinds, NEW v
  PROVE  /\ FilesBut(s, k, v)
         /\ One(IsOf(file'[s], k, v)) - One(IsOf(file[s], k, v)) + One(IsOf(loc'[p].ff, k, v))
            - One(IsOf(loc[p].ff, k, v)) = 0
<1>0. k # "NONE"
  BY DEF Kinds, Ends
<1>1. FilesBut(s, k, v)
  BY SMT DEF Frees, Freed, Lone, FilesBut
<1>2. ~IsOf(loc[p].ff, k, v)
  BY <1>0, Zenon DEF Frees, Freed, IsOf
<1>3. \/ ~IsOf(file'[s], k, v) /\ (IsOf(loc'[p].ff, k, v) <=> IsOf(file[s], k, v))
      \/ (IsOf(file'[s], k, v) <=> IsOf(file[s], k, v)) /\ ~IsOf(loc'[p].ff, k, v)
  <2>1. CASE /\ file[s].ref = 1 /\ file'[s].type = "NONE"
             /\ SameFile(loc'[p].ff, file[s])
    BY <1>0, <2>1, SMT DEF SameFile, IsOf
  <2>2. CASE /\ file[s].ref = 1 /\ file'[s].type = "NONE"
             /\ file[s].type = "NONE" /\ loc'[p].ff.type = "NONE"
    BY <1>0, <2>2, Zenon DEF IsOf
  <2>3. CASE SameFile(file'[s], file[s]) /\ loc'[p].ff.type = "NONE"
    BY <1>0, <2>3, SMT DEF SameFile, IsOf
  <2> QED
    BY <2>1, <2>2, <2>3, Zenon DEF Frees, Freed
<1> QED
  BY <1>1, <1>2, <1>3, SMT DEF One

\* Every effect keeps the counts of the inode cache exact
LEMMA EntryStep ==
  ASSUME IInv, TypeOK', NEW p \in Procs, Effect(p)
  PROVE  EntryInv'
<1>1. SUFFICES ASSUME NEW e \in Entries PROVE EntryOf(e)'
  BY Zenon DEF EntryInv, EntryOf
<1>0. /\ TypeOK /\ EntryInv /\ "INODE" \in Kinds /\ e # 0 /\ 0 \in Int
      /\ icache[e].ref \in Nat /\ leaked[e] \in Nat /\ leaked \in [Entries -> Nat]
  <2>1. TypeOK /\ EntryInv
    BY Zenon DEF IInv
  <2>2. "INODE" \in Kinds /\ e # 0
    BY SizeAssumption DEF Kinds, Entries
  <2> QED
    BY <2>1, <2>2 DEF TypeOK
<1>2. ASSUME Quiet(p, "INODE", e), Only(p),
             icache'[e].ref = icache[e].ref + leaked'[e] - leaked[e] + Holds(loc'[p].e, e) - Holds(loc[p].e, e),
             leaked'[e] \in Nat
      PROVE  EntryOf(e)'
  <2>1. By(Cardinality(FilesOf("INODE", e)), Cardinality(FilesOf("INODE", e)'), 0)
    BY <1>2, SameCount, ZenonT(30) DEF Quiet
  <2>2. Added(p, e) = Holds(loc'[p].e, e) - Holds(loc[p].e, e)
    BY <1>2, SMTT(30) DEF Added, Quiet, One, Holds
  <2>3. Pays(p, e, 0)
    BY <1>0, <1>2, <2>2, SMTT(30) DEF Holds, Pays
  <2> QED
    BY <1>0, <1>2, <2>1, <2>3, EntryMoves, Zenon
<1>3. ASSUME Quiet(p, "INODE", e), Only(p), Still(p) PROVE EntryOf(e)'
  <2>1. icache'[e].ref = icache[e].ref + leaked'[e] - leaked[e] + Holds(loc'[p].e, e) - Holds(loc[p].e, e)
    BY <1>0, <1>3, SMT DEF Still, Holds
  <2> QED
    BY <1>0, <1>2, <1>3, <2>1, ZenonT(30) DEF Still
<1>4. CASE Keeps(p)
  <2>1. Quiet(p, "INODE", e) /\ Only(p)
    BY <1>0, <1>4, QuietSteps, Zenon DEF Keeps
  <2>2. CASE Still(p)
    BY <1>3, <2>1, <2>2, Zenon
  <2>3. CASE Gets(p)
    <3>1. /\ icache'[e].ref = icache[e].ref + leaked'[e] - leaked[e] + Holds(loc'[p].e, e) - Holds(loc[p].e, e)
          /\ leaked'[e] \in Nat
      BY <1>0, <2>3, SMTT(30) DEF Gets, OneEntry, Holds
    <3> QED
      BY <1>2, <2>1, <3>1, Zenon
  <2>4. CASE Leaks(p)
    <3>1. /\ icache'[e].ref = icache[e].ref + leaked'[e] - leaked[e] + Holds(loc'[p].e, e) - Holds(loc[p].e, e)
          /\ leaked'[e] \in Nat
      BY <1>0, <2>4, SMTT(30) DEF Leaks, OneEntry, Holds
    <3> QED
      BY <1>2, <2>1, <3>1, Zenon
  <2>5. CASE Puts(p)
    <3>1. /\ icache'[e].ref = icache[e].ref + leaked'[e] - leaked[e] + Holds(loc'[p].e, e) - Holds(loc[p].e, e)
          /\ leaked'[e] \in Nat
      BY <1>0, <2>5, SMTT(30) DEF Puts, OneEntry, Holds
    <3> QED
      BY <1>2, <2>1, <3>1, Zenon
  <2> QED
    BY <1>4, <2>2, <2>3, <2>4, <2>5, Zenon DEF Keeps
<1>5. ASSUME NEW s \in Slots, Takes(p, s) PROVE EntryOf(e)'
  <2>1. Quiet(p, "INODE", e) /\ Only(p) /\ Still(p)
    BY <1>0, <1>5, QuietSteps, Zenon DEF Takes
  <2> QED
    BY <1>3, <2>1, Zenon
<1>6. ASSUME NEW s \in Slots, NEW fd \in FDs, Installs(p, s, fd) PROVE EntryOf(e)'
  <2>1. Only(p) /\ FilesBut(s, "INODE", e)
    BY <1>6, SMTT(30) DEF Installs, Lone, FilesBut
  <2>2. By(Cardinality(FilesOf("INODE", e)), Cardinality(FilesOf("INODE", e)'),
           One(IsOf(file'[s], "INODE", e)) - One(IsOf(file[s], "INODE", e)))
    BY <2>1, FileCount, Zenon
  <2>3. One(IsOf(file'[s], "INODE", e)) - One(IsOf(file[s], "INODE", e)) = Holds(loc[p].e, e)
    BY <1>6, SMTT(30) DEF Installs, One, IsOf, Holds
  <2>4. Added(p, e) = 0 - Holds(loc[p].e, e)
    BY <1>0, <1>6, SMT DEF Installs, NoCopy, Added, One, IsOf, Holds
  <2>5. icache' = icache /\ leaked' = leaked
    BY <1>6, Zenon DEF Installs
  <2>6. /\ Holds(loc[p].e, e) \in Int
        /\ Pays(p, e, Holds(loc[p].e, e))
    BY <1>0, <2>4, <2>5, SMTT(30) DEF Holds, Pays
  <2>7. By(Cardinality(FilesOf("INODE", e)), Cardinality(FilesOf("INODE", e)'), Holds(loc[p].e, e))
    BY <2>2, <2>3, Zenon
  <2> QED
    BY <1>0, <2>1, <2>6, <2>7, EntryMoves, Zenon
<1>7. ASSUME NEW s \in Slots, NEW t \in Slots, NEW q \in Pipes, Connects(p, s, t, q) PROVE EntryOf(e)'
  <2>1. \A u \in Slots : IsOf(file'[u], "INODE", e) <=> IsOf(file[u], "INODE", e)
    BY <1>7, SMT DEF Connects, IsOf
  <2>2. ~IsOf(loc'[p].ff, "INODE", e) /\ ~IsOf(loc[p].ff, "INODE", e)
    BY <1>7, Zenon DEF Connects, NoCopy, IsOf
  <2>3. Quiet(p, "INODE", e) /\ Only(p) /\ Still(p)
    BY <1>7, <2>1, <2>2, Zenon DEF Quiet, Connects
  <2> QED
    BY <1>3, <2>3, ZenonT(30)
<1>8. ASSUME NEW s \in Slots, NEW t \in Slots, NEW m \in FDs, NEW n \in FDs, Pairs(p, s, t, m, n)
      PROVE  EntryOf(e)'
  <2>1. Quiet(p, "INODE", e) /\ Only(p) /\ Still(p)
    BY <1>0, <1>8, QuietSteps, Zenon DEF Pairs
  <2> QED
    BY <1>3, <2>1, Zenon
<1>9. ASSUME NEW s \in Slots, Frees(p, s) PROVE EntryOf(e)'
  <2>1. /\ FilesBut(s, "INODE", e)
        /\ One(IsOf(file'[s], "INODE", e)) - One(IsOf(file[s], "INODE", e))
           + One(IsOf(loc'[p].ff, "INODE", e)) - One(IsOf(loc[p].ff, "INODE", e)) = 0
    BY <1>0, <1>9, FreesKind, Zenon
  <2> DEFINE d == One(IsOf(file'[s], "INODE", e)) - One(IsOf(file[s], "INODE", e))
  <2>2. By(Cardinality(FilesOf("INODE", e)), Cardinality(FilesOf("INODE", e)'), d)
    BY <2>1, FileCount, Zenon
  <2>3. loc'[p].e = loc[p].e /\ icache' = icache /\ leaked' = leaked /\ Only(p)
    BY <1>9, Zenon DEF Frees, Freed, Still
  <2>4. d \in Int /\ d + Added(p, e) = 0 /\ Added(p, e) \in Int
    BY <2>1, <2>3, SMTT(30) DEF One, Added, Holds
  <2> HIDE DEF d
  <2>5. Pays(p, e, d)
    BY <1>0, <2>3, <2>4, SMTT(30) DEF Pays
  <2> QED
    BY <1>0, <2>2, <2>3, <2>4, <2>5, EntryMoves, Zenon
<1>10. CASE Finishes(p)
  <2>1. \A t \in Slots : IsOf(file'[t], "INODE", e) <=> IsOf(file[t], "INODE", e)
    BY <1>10, Zenon DEF Finishes
  <2>2. By(Cardinality(FilesOf("INODE", e)), Cardinality(FilesOf("INODE", e)'), 0)
    BY <2>1, SameCount, Zenon
  <2>3. Only(p) /\ leaked' = leaked
    BY <1>10, ZenonT(30) DEF Finishes
  <2>4. Added(p, e) = 0 - One(IsOf(loc[p].ff, "INODE", e))
    BY <1>10, SMTT(30) DEF Finishes, Added, One, IsOf, Holds
  <2>5. icache'[e].ref = icache[e].ref - One(IsOf(loc[p].ff, "INODE", e))
    BY <1>0, <1>10, SMTT(30) DEF Finishes, One, IsOf, OneEntry
  <2>6. Pays(p, e, 0)
    BY <1>0, <2>3, <2>4, <2>5, SMTT(30) DEF One, Pays
  <2> QED
    BY <1>0, <2>2, <2>3, <2>6, EntryMoves, Zenon
<1>11. ASSUME NEW s \in Slots, NEW r \in Procs, NEW m \in FDs, Shares(p, s, r, m) PROVE EntryOf(e)'
  <2>1. Quiet(p, "INODE", e) /\ Only(p) /\ Still(p)
    BY <1>0, <1>11, QuietSteps, Zenon DEF Shares
  <2> QED
    BY <1>3, <2>1, Zenon
<1> QED
  BY <1>4, <1>5, <1>6, <1>7, <1>8, <1>9, <1>10, <1>11, Zenon DEF Effect

\* Every effect keeps one holder for each open end of a pipe
LEMMA EndStep ==
  ASSUME IInv, TypeOK', NEW p \in Procs, Effect(p)
  PROVE  EndInv'
<1>1. SUFFICES ASSUME NEW q \in Pipes, NEW end \in Ends PROVE EndOf(q, end)'
  BY Zenon DEF EndInv, EndOf, One
<1>0. TypeOK /\ EndInv /\ end \in Kinds /\ end # "INODE" /\ end # "NONE" /\ 0 \in Int /\ 1 \in Int
  BY DEF IInv, Kinds, Ends
<1>2. ASSUME Quiet(p, end, q), Only(p), IsOpen(q, end)' = IsOpen(q, end) PROVE EndOf(q, end)'
  <2>1. By(Cardinality(FilesOf(end, q)), Cardinality(FilesOf(end, q)'), 0)
    BY <1>2, SameCount, Zenon DEF Quiet
  <2>2. Owes(p, q, end, 0)
    BY <1>2, SMT DEF Owes, Quiet, One
  <2> QED
    BY <1>0, <1>2, <2>1, <2>2, EndMoves, Zenon
<1>3. ASSUME pipe' = pipe PROVE IsOpen(q, end)' = IsOpen(q, end)
  BY <1>3, Zenon DEF IsOpen
<1>4. CASE Keeps(p)
  <2>1. Quiet(p, end, q) /\ Only(p) /\ pipe' = pipe
    BY <1>0, <1>4, QuietSteps, Zenon DEF Keeps
  <2> QED
    BY <1>2, <1>3, <2>1, Zenon
<1>5. ASSUME NEW s \in Slots, Takes(p, s) PROVE EndOf(q, end)'
  <2>1. Quiet(p, end, q) /\ Only(p) /\ pipe' = pipe
    BY <1>0, <1>5, QuietSteps, Zenon DEF Takes
  <2> QED
    BY <1>2, <1>3, <2>1, Zenon
<1>6. ASSUME NEW s \in Slots, NEW fd \in FDs, Installs(p, s, fd) PROVE EndOf(q, end)'
  <2>1. \A u \in Slots : IsOf(file'[u], end, q) <=> IsOf(file[u], end, q)
    BY <1>0, <1>6, SMT DEF Installs, Lone, IsOf
  <2>2. ~IsOf(loc'[p].ff, end, q) /\ ~IsOf(loc[p].ff, end, q)
    BY <1>0, <1>6, Zenon DEF Installs, NoCopy, IsOf
  <2>3. Quiet(p, end, q) /\ Only(p) /\ pipe' = pipe
    BY <1>6, <2>1, <2>2, Zenon DEF Quiet, Installs
  <2> QED
    BY <1>2, <1>3, <2>3, ZenonT(30)
<1>7. ASSUME NEW s \in Slots, NEW t \in Slots, NEW c \in Pipes, Connects(p, s, t, c) PROVE EndOf(q, end)'
  <2>1. ~IsOf(loc'[p].ff, end, q) /\ ~IsOf(loc[p].ff, end, q) /\ Only(p)
    BY <1>0, <1>7, Zenon DEF Connects, NoCopy, IsOf
  <2>2. pipe' = [pipe EXCEPT ![c] = [readopen |-> TRUE, writeopen |-> TRUE]]
    BY <1>7, Zenon DEF Connects
  <2>3. /\ s # t
        /\ file[s].type = "NONE" /\ file'[s].type = "READEND" /\ file'[s].pipe = c
        /\ file[t].type = "NONE" /\ file'[t].type = "WRITEEND" /\ file'[t].pipe = c
        /\ \A u \in Slots \ {s, t} : file'[u] = file[u]
    BY <1>7, Zenon DEF Connects
  <2>4. CASE q # c
    <3>1. \A u \in Slots : IsOf(file'[u], end, q) <=> IsOf(file[u], end, q)
      BY <1>0, <2>3, <2>4, SMTT(30) DEF IsOf
    <3>2. pipe'[q] = pipe[q]
      BY <1>0, <2>2, <2>4, Zenon DEF TypeOK
    <3>3. IsOpen(q, end)' = IsOpen(q, end)
      BY <3>2, Zenon DEF IsOpen
    <3> QED
      BY <1>2, <2>1, <3>1, <3>3, ZenonT(30) DEF Quiet
  <2>5. CASE q = c
    <3>1. IsOpen(q, end)' /\ ~IsOpen(q, end)
      <4>1. pipe'[q] = [readopen |-> TRUE, writeopen |-> TRUE]
        BY <1>0, <2>2, <2>5, Zenon DEF TypeOK
      <4>2. ~pipe[q].readopen /\ ~pipe[q].writeopen
        BY <1>7, <2>5, Zenon DEF Connects
      <4>3. pipe'[q].readopen /\ pipe'[q].writeopen
        BY <4>1, SMTT(30)
      <4> QED
        BY <4>2, <4>3, Zenon DEF IsOpen
    <3>2. Owes(p, q, end, 1)
      BY <2>1, <3>1, SMTT(30) DEF Owes, One
    <3>3. ASSUME NEW x \in Slots, FilesBut(x, end, q), IsOf(file'[x], end, q), ~IsOf(file[x], end, q)
          PROVE  EndOf(q, end)'
      <4>1. By(Cardinality(FilesOf(end, q)), Cardinality(FilesOf(end, q)'),
               One(IsOf(file'[x], end, q)) - One(IsOf(file[x], end, q)))
        BY <3>3, FileCount, Zenon
      <4>2. One(IsOf(file'[x], end, q)) - One(IsOf(file[x], end, q)) = 1
        BY <3>3, SMT DEF One
      <4>3. By(Cardinality(FilesOf(end, q)), Cardinality(FilesOf(end, q)'), 1)
        BY <4>1, <4>2, Zenon
      <4> QED
        BY <1>0, <2>1, <3>2, <4>3, EndMoves, Zenon
    <3>4. CASE end = "READEND"
      <4>1. FilesBut(s, end, q) /\ IsOf(file'[s], end, q) /\ ~IsOf(file[s], end, q)
        BY <2>3, <2>5, <3>4, SMTT(30) DEF FilesBut, IsOf
      <4> QED
        BY <3>3, <4>1, Zenon
    <3>5. CASE end = "WRITEEND"
      <4>1. FilesBut(t, end, q) /\ IsOf(file'[t], end, q) /\ ~IsOf(file[t], end, q)
        BY <2>3, <2>5, <3>5, SMTT(30) DEF FilesBut, IsOf
      <4> QED
        BY <3>3, <4>1, Zenon
    <3> QED
      BY <3>4, <3>5, Zenon DEF Ends
  <2> QED
    BY <2>4, <2>5, Zenon
<1>8. ASSUME NEW s \in Slots, NEW t \in Slots, NEW m \in FDs, NEW n \in FDs, Pairs(p, s, t, m, n)
      PROVE  EndOf(q, end)'
  <2>1. Quiet(p, end, q) /\ Only(p) /\ pipe' = pipe
    BY <1>0, <1>8, QuietSteps, Zenon DEF Pairs
  <2> QED
    BY <1>2, <1>3, <2>1, Zenon
<1>9. ASSUME NEW s \in Slots, Frees(p, s) PROVE EndOf(q, end)'
  <2>1. /\ FilesBut(s, end, q)
        /\ One(IsOf(file'[s], end, q)) - One(IsOf(file[s], end, q))
           + One(IsOf(loc'[p].ff, end, q)) - One(IsOf(loc[p].ff, end, q)) = 0
    BY <1>0, <1>9, FreesKind, Zenon
  <2> DEFINE d == One(IsOf(file'[s], end, q)) - One(IsOf(file[s], end, q))
  <2>2. By(Cardinality(FilesOf(end, q)), Cardinality(FilesOf(end, q)'), d)
    BY <2>1, FileCount, Zenon
  <2>3. pipe' = pipe /\ Only(p)
    BY <1>9, Zenon DEF Frees, Freed
  <2>4. d \in Int
    BY DEF One
  <2>5. One(IsOpen(q, end)') = One(IsOpen(q, end)) /\ One(IsOpen(q, end)) \in Int
    BY <1>3, <2>3, SMTT(30) DEF One
  <2>6. Owes(p, q, end, d)
    <3>1. /\ One(IsOf(file'[s], end, q)) \in Int /\ One(IsOf(file[s], end, q)) \in Int
          /\ One(IsOf(loc'[p].ff, end, q)) \in Int /\ One(IsOf(loc[p].ff, end, q)) \in Int
      BY DEF One
    <3> QED
      BY <2>1, <2>5, <3>1, SMTT(30) DEF Owes
  <2> HIDE DEF d
  <2> QED
    BY <1>0, <2>2, <2>3, <2>4, <2>6, EndMoves, Zenon
<1>10. CASE Finishes(p)
  <2> DEFINE ff == loc[p].ff
  <2>1. \A t \in Slots : IsOf(file'[t], end, q) <=> IsOf(file[t], end, q)
    BY <1>10, Zenon DEF Finishes
  <2>2. By(Cardinality(FilesOf(end, q)), Cardinality(FilesOf(end, q)'), 0)
    BY <2>1, SameCount, Zenon
  <2>3. Only(p) /\ ~IsOf(loc'[p].ff, end, q)
    BY <1>0, <1>10, Zenon DEF Finishes, IsOf
  <2>4. pipe \in [Pipes -> [readopen : BOOLEAN, writeopen : BOOLEAN]] /\ ff.pipe \in Pipes
    BY <1>0 DEF TypeOK, Locations, Files
  <2>5. CASE IsOf(ff, end, q)
    <3>1. ff.type = end /\ ff.pipe = q
      BY <1>0, <2>5, Zenon DEF IsOf
    <3>2. IsOpen(q, end)
      <4> DEFINE F == Cardinality(FilesOf(end, q))
                 C == Cardinality(CopiesOf(end, q))
      <4>1. F \in Nat /\ C \in Nat /\ C > 0
        BY <2>5, KindCounts, Zenon
      <4>2. F + C = IF IsOpen(q, end) THEN 1 ELSE 0
        BY <1>0, Zenon DEF EndInv
      <4> HIDE DEF F, C
      <4> QED
        BY <4>1, <4>2, SMT
    <3>3. ~IsOpen(q, end)'
      <4>1. CASE end = "WRITEEND"
        <5>1. pipe' = [pipe EXCEPT ![q].writeopen = FALSE]
          BY <1>10, <3>1, <4>1 DEF Finishes
        <5>2. ~pipe'[q].writeopen
          BY <2>4, <5>1
        <5> QED
          BY <4>1, <5>2, Zenon DEF IsOpen
      <4>2. CASE end = "READEND"
        <5>1. pipe' = [pipe EXCEPT ![q].readopen = FALSE]
          BY <1>10, <3>1, <4>2, SMTT(30) DEF Finishes
        <5>2. ~pipe'[q].readopen
          BY <2>4, <5>1
        <5>3. end # "WRITEEND"
          BY <4>2
        <5> QED
          BY <5>2, <5>3, Zenon DEF IsOpen
      <4> QED
        BY <4>1, <4>2, Zenon DEF Ends
    <3>4. Owes(p, q, end, 0)
      BY <2>3, <2>5, <3>2, <3>3, SMTT(30) DEF Owes, One
    <3> QED
      BY <1>0, <2>2, <2>3, <3>4, EndMoves, Zenon
  <2>6. CASE ~IsOf(ff, end, q)
    <3>0. ff.type # end \/ ff.pipe # q
      BY <1>0, <2>6, Zenon DEF IsOf
    <3>1. IsOpen(q, end)' = IsOpen(q, end)
      <4>1. CASE pipe' = pipe
        BY <1>3, <4>1, SMTT(30)
      <4>2. CASE ff.type = "WRITEEND" /\ pipe' = [pipe EXCEPT ![ff.pipe].writeopen = FALSE]
        <5>1. pipe'[q].readopen = pipe[q].readopen /\ (q # ff.pipe => pipe'[q] = pipe[q])
          BY <2>4, <4>2
        <5>2. CASE q # ff.pipe
          BY <5>1, <5>2, Zenon DEF IsOpen
        <5>3. CASE end # "WRITEEND"
          BY <5>1, <5>3, Zenon DEF IsOpen
        <5> QED
          BY <3>0, <4>2, <5>2, <5>3, ZenonT(30)
      <4>3. CASE ff.type = "READEND" /\ pipe' = [pipe EXCEPT ![ff.pipe].readopen = FALSE]
        <5>1. pipe'[q].writeopen = pipe[q].writeopen /\ (q # ff.pipe => pipe'[q] = pipe[q])
          BY <2>4, <4>3
        <5>2. CASE q # ff.pipe
          BY <5>1, <5>2, Zenon DEF IsOpen
        <5>3. CASE end # "READEND"
          <6>1. end = "WRITEEND"
            BY <5>3, Zenon DEF Ends
          <6> QED
            BY <5>1, <6>1, Zenon DEF IsOpen
        <5> QED
          BY <3>0, <4>3, <5>2, <5>3, ZenonT(30)
      <4> QED
        BY <1>10, <4>1, <4>2, <4>3, Zenon DEF Finishes
    <3>2. Quiet(p, end, q)
      BY <2>1, <2>3, <2>6, Zenon DEF Quiet
    <3> QED
      BY <1>2, <2>3, <3>1, <3>2, Zenon
  <2> QED
    BY <2>5, <2>6, Zenon
<1>11. ASSUME NEW s \in Slots, NEW r \in Procs, NEW m \in FDs, Shares(p, s, r, m) PROVE EndOf(q, end)'
  <2>1. Quiet(p, end, q) /\ Only(p) /\ pipe' = pipe
    BY <1>0, <1>11, QuietSteps, Zenon DEF Shares
  <2> QED
    BY <1>2, <1>3, <2>1, Zenon
<1> QED
  BY <1>4, <1>5, <1>6, <1>7, <1>8, <1>9, <1>10, <1>11, Zenon DEF Effect

----------------------------------------------------------------------------
\* Steps keep the counts of the slots exact.

\* A process that takes up or drops slot s as its first
LEMMA FirstCount ==
  ASSUME NEW p \in Procs, Only(p), NEW s \in Slots
  PROVE  /\ Cardinality(Firsts(s)) \in Nat /\ Cardinality(Firsts(s)') \in Nat
         /\ Cardinality(Firsts(s)') = Cardinality(Firsts(s)) + Holds(loc'[p].f0, s) - Holds(loc[p].f0, s)
<1>1. Apart(Procs, Firsts(s), Firsts(s)', p)
  BY SizeAssumption, Zenon DEF Apart, Firsts, Only
<1>2. Counted(Firsts(s), Firsts(s)', p)
  BY <1>1, OneApart, Zenon
<1>3. (p \in Firsts(s) <=> loc[p].f0 = s) /\ (p \in Firsts(s)' <=> loc'[p].f0 = s)
  BY Zenon DEF Firsts
<1> QED
  BY <1>2, <1>3, Zenon DEF Counted, Holds

\* The same for its second
LEMMA SecondCount ==
  ASSUME NEW p \in Procs, Only(p), NEW s \in Slots
  PROVE  /\ Cardinality(Seconds(s)) \in Nat /\ Cardinality(Seconds(s)') \in Nat
         /\ Cardinality(Seconds(s)') = Cardinality(Seconds(s)) + Holds(loc'[p].f1, s) - Holds(loc[p].f1, s)
<1>1. Apart(Procs, Seconds(s), Seconds(s)', p)
  BY SizeAssumption, Zenon DEF Apart, Seconds, Only
<1>2. Counted(Seconds(s), Seconds(s)', p)
  BY <1>1, OneApart, Zenon
<1>3. (p \in Seconds(s) <=> loc[p].f1 = s) /\ (p \in Seconds(s)' <=> loc'[p].f1 = s)
  BY Zenon DEF Seconds
<1> QED
  BY <1>2, <1>3, Zenon DEF Counted, Holds

\* The descriptors of s in the table f, and when one of them is changed
DescriptorsIn(f, s) == {x \in Procs \X FDs : f[x[1]][x[2]] = s}

\* A count of s goes from m to n when x takes the place of y.
Changed(m, n, x, y, s) == m \in Nat /\ n \in Nat /\ n = m + Holds(x, s) - Holds(y, s)
Rewired(f, g, r, fd, x) == g = [f EXCEPT ![r][fd] = x]

\* The descriptors of a slot when one descriptor changes
LEMMA DescriptorCount ==
  ASSUME NEW f \in Tables, NEW g, NEW r \in Procs, NEW fd \in FDs, NEW x, Rewired(f, g, r, fd, x),
         NEW s \in Slots
  PROVE  Changed(Cardinality(DescriptorsIn(f, s)), Cardinality(DescriptorsIn(g, s)), x, f[r][fd], s)
<1> DEFINE S == DescriptorsIn(f, s)
           T == DescriptorsIn(g, s)
<1>1. /\ g[r][fd] = x
      /\ \A q \in Procs, k \in FDs : <<q, k>> # <<r, fd>> => g[q][k] = f[q][k]
  BY DEF Tables, Rewired
<1>2. Apart(Procs \X FDs, S, T, <<r, fd>>)
  <2>1. \A y \in Procs \X FDs : y \in S <=> f[y[1]][y[2]] = s
    BY Zenon DEF DescriptorsIn
  <2>2. \A y \in Procs \X FDs : y \in T <=> g[y[1]][y[2]] = s
    BY Zenon DEF DescriptorsIn
  <2>3. \A y \in Procs \X FDs : y # <<r, fd>> => g[y[1]][y[2]] = f[y[1]][y[2]]
    BY <1>1
  <2>4. S \in SUBSET (Procs \X FDs) /\ T \in SUBSET (Procs \X FDs)
    BY Zenon DEF DescriptorsIn
  <2>5. S \ {<<r, fd>>} = T \ {<<r, fd>>}
    <3> HIDE DEF S, T
    <3> QED
      BY <2>1, <2>2, <2>3, <2>4, Zenon
  <2> QED
    BY <2>4, <2>5, CellsFinite, Zenon DEF Apart
<1>3. Counted(S, T, <<r, fd>>)
  BY <1>2, OneApart, Zenon
<1>4. (<<r, fd>> \in S <=> f[r][fd] = s) /\ (<<r, fd>> \in T <=> x = s)
  BY <1>1 DEF DescriptorsIn
<1>5. /\ Cardinality(S) \in Nat /\ Cardinality(T) \in Nat
      /\ Cardinality(T) = Cardinality(S) + Holds(x, s) - Holds(f[r][fd], s)
  BY <1>3, <1>4, Zenon DEF Counted, Holds
<1> QED
  BY <1>5 DEF Changed

\* A reference moves between descriptors, calls and nobody.
Given(p, s) == Holds(loc'[p].f0, s) - Holds(loc[p].f0, s) + Holds(loc'[p].f1, s) - Holds(loc[p].f1, s)

\* The count of a slot stays exact when it moves by what its holders move
LEMMA SlotMoves ==
  ASSUME TypeOK, TypeOK', SlotInv, NEW p \in Procs, Only(p),
         \A s \in Slots : /\ Cardinality(Descriptors(s)) \in Nat /\ Cardinality(Descriptors(s)') \in Nat
                          /\ file'[s].ref = file[s].ref + Cardinality(Descriptors(s)')
                                            - Cardinality(Descriptors(s)) + Given(p, s)
  PROVE  SlotInv'
<1>1. SUFFICES ASSUME NEW s \in Slots
      PROVE  file'[s].ref = Cardinality(Descriptors(s)') + Cardinality(Firsts(s)')
                            + Cardinality(Seconds(s)')
  BY Zenon DEF SlotInv
<1> DEFINE D0 == Cardinality(Descriptors(s))  D1 == Cardinality(Descriptors(s)')
           U0 == Cardinality(Firsts(s))  U1 == Cardinality(Firsts(s)')
           V0 == Cardinality(Seconds(s))  V1 == Cardinality(Seconds(s)')
<1>2. U0 \in Nat /\ U1 \in Nat /\ U1 = U0 + Holds(loc'[p].f0, s) - Holds(loc[p].f0, s)
  BY FirstCount, Zenon
<1>3. V0 \in Nat /\ V1 \in Nat /\ V1 = V0 + Holds(loc'[p].f1, s) - Holds(loc[p].f1, s)
  BY SecondCount, Zenon
<1>4. file[s].ref = D0 + U0 + V0
  BY Zenon DEF SlotInv
<1>5. D0 \in Nat /\ D1 \in Nat /\ file'[s].ref = file[s].ref + D1 - D0 + Given(p, s)
  BY Zenon
<1> HIDE DEF D0, D1, U0, U1, V0, V1
<1>6. file'[s].ref = D1 + U1 + V1
  BY <1>2, <1>3, <1>4, <1>5, SMTT(30) DEF Holds, Given
<1> QED
  BY <1>6 DEF D1, U1, V1

\* Descriptors that do not change, change in one place, or in two
LEMMA SameDescriptors ==
  ASSUME ofile' = ofile, NEW u \in Slots
  PROVE  /\ Cardinality(Descriptors(u)) \in Nat /\ Cardinality(Descriptors(u)') \in Nat
         /\ Cardinality(Descriptors(u)') = Cardinality(Descriptors(u))
<1>1. Descriptors(u)' = Descriptors(u)
  BY Zenon DEF Descriptors
<1> QED
  BY <1>1, SlotCounts, Zenon

\* One descriptor changes
LEMMA OneDescriptor ==
  ASSUME TypeOK, NEW r \in Procs, NEW k \in FDs, NEW x, ofile' = [ofile EXCEPT ![r][k] = x], NEW u \in Slots
  PROVE  /\ Cardinality(Descriptors(u)) \in Nat /\ Cardinality(Descriptors(u)') \in Nat
         /\ Cardinality(Descriptors(u)') = Cardinality(Descriptors(u)) + Holds(x, u) - Holds(ofile[r][k], u)
<1>1. Descriptors(u) = DescriptorsIn(ofile, u) /\ Descriptors(u)' = DescriptorsIn(ofile', u)
  BY Zenon DEF Descriptors, DescriptorsIn
<1>2. ofile \in Tables
  BY Zenon DEF TypeOK, Tables
<1>3. Changed(Cardinality(DescriptorsIn(ofile, u)), Cardinality(DescriptorsIn(ofile', u)), x, ofile[r][k], u)
  <2>1. Rewired(ofile, ofile', r, k, x)
    BY DEF Rewired
  <2> QED
    BY <1>2, <2>1, DescriptorCount, Zenon
<1> QED
  BY <1>1, <1>3, Zenon DEF Changed

RewiredTwice(r, k, m, x, y) == ofile' = [ofile EXCEPT ![r][k] = x, ![r][m] = y]
ChangedTwice(m, n, x, a, y, b, u) ==
  m \in Nat /\ n \in Nat /\ n = m + Holds(x, u) - Holds(a, u) + Holds(y, u) - Holds(b, u)

\* Two descriptors of a process change
LEMMA TwoDescriptors ==
  ASSUME TypeOK, NEW r \in Procs, NEW k \in FDs, NEW m \in FDs, k # m,
         NEW x \in Slots \cup {NoSlot}, NEW y,
         RewiredTwice(r, k, m, x, y), NEW u \in Slots
  PROVE  ChangedTwice(Cardinality(Descriptors(u)), Cardinality(Descriptors(u)'),
                      x, ofile[r][k], y, ofile[r][m], u)
<1> DEFINE g == [ofile EXCEPT ![r][k] = x]
<1>1. Descriptors(u) = DescriptorsIn(ofile, u) /\ Descriptors(u)' = DescriptorsIn(ofile', u)
  BY Zenon DEF Descriptors, DescriptorsIn
<1>2. ofile \in Tables
  BY Zenon DEF TypeOK, Tables
<1>3. g \in Tables /\ g[r][m] = ofile[r][m]
  BY <1>2 DEF Tables
<1>4. Changed(Cardinality(DescriptorsIn(ofile, u)), Cardinality(DescriptorsIn(g, u)), x, ofile[r][k], u)
  <2>1. Rewired(ofile, g, r, k, x)
    BY DEF Rewired
  <2> HIDE DEF g
  <2> QED
    BY <1>2, <2>1, DescriptorCount, Zenon
<1>5. Rewired(g, ofile', r, m, y)
  BY DEF Rewired, RewiredTwice
<1> HIDE DEF g
<1>6. Changed(Cardinality(DescriptorsIn(g, u)), Cardinality(DescriptorsIn(ofile', u)), y, g[r][m], u)
  BY <1>3, <1>5, DescriptorCount, Zenon
<1>7. /\ Holds(x, u) \in Int /\ Holds(ofile[r][k], u) \in Int
      /\ Holds(y, u) \in Int /\ Holds(ofile[r][m], u) \in Int
  BY DEF Holds
<1>8. Cardinality(DescriptorsIn(ofile', u)) = Cardinality(DescriptorsIn(ofile, u)) + Holds(x, u)
        - Holds(ofile[r][k], u) + Holds(y, u) - Holds(ofile[r][m], u)
  BY <1>3, <1>4, <1>6, <1>7, SMTT(30) DEF Changed
<1> QED
  BY <1>1, <1>4, <1>6, <1>8, Zenon DEF Changed, ChangedTwice

\* Every effect keeps the counts of the slots exact
LEMMA SlotStep ==
  ASSUME IInv, TypeOK', NEW p \in Procs, Effect(p)
  PROVE  SlotInv'
<1>0. /\ TypeOK /\ SlotInv
      /\ \A u \in Slots : u # NoSlot /\ file[u].ref \in Nat
  BY SlotAssumption DEF IInv, TypeOK, Files
<1>1. CASE Keeps(p)
  <2>1. \A u \in Slots : file'[u].ref = file[u].ref /\ Given(p, u) = 0
    BY <1>0, <1>1, SMT DEF Keeps, SameSlots, Given, Holds
  <2>2. ofile' = ofile /\ Only(p)
    BY <1>1, Zenon DEF Keeps
  <2>3. \A u \in Slots : /\ Cardinality(Descriptors(u)) \in Nat /\ Cardinality(Descriptors(u)') \in Nat
                         /\ file'[u].ref = file[u].ref + Cardinality(Descriptors(u)')
                                           - Cardinality(Descriptors(u)) + Given(p, u)
    <3>1. TAKE u \in Slots
    <3>2. /\ Cardinality(Descriptors(u)) \in Nat /\ Cardinality(Descriptors(u)') \in Nat
          /\ Cardinality(Descriptors(u)') = Cardinality(Descriptors(u))
      BY <2>2, SameDescriptors, Zenon
    <3> QED
      BY <1>0, <2>1, <3>2, SMTT(30)
  <2> QED
    BY <1>0, <2>2, <2>3, SlotMoves, ZenonT(30)
<1>2. ASSUME NEW s \in Slots, Takes(p, s) PROVE SlotInv'
  <2>1. \A u \in Slots : file'[u].ref = file[u].ref + Given(p, u)
    BY <1>0, <1>2, SMT DEF Takes, Lone, Given, Holds
  <2>2. ofile' = ofile /\ Only(p)
    BY <1>2, Zenon DEF Takes
  <2>3. \A u \in Slots : /\ Cardinality(Descriptors(u)) \in Nat /\ Cardinality(Descriptors(u)') \in Nat
                         /\ file'[u].ref = file[u].ref + Cardinality(Descriptors(u)')
                                           - Cardinality(Descriptors(u)) + Given(p, u)
    <3>1. TAKE u \in Slots
    <3>2. /\ Cardinality(Descriptors(u)) \in Nat /\ Cardinality(Descriptors(u)') \in Nat
          /\ Cardinality(Descriptors(u)') = Cardinality(Descriptors(u))
      BY <2>2, SameDescriptors, Zenon
    <3>3. Given(p, u) \in Int
      BY DEF Given, Holds
    <3> QED
      BY <1>0, <2>1, <3>2, <3>3, SMTT(30)
  <2> QED
    BY <1>0, <2>2, <2>3, SlotMoves, ZenonT(30)
<1>3. ASSUME NEW s \in Slots, NEW k \in FDs, Installs(p, s, k) PROVE SlotInv'
  <2>1. \A u \in Slots : file'[u].ref = file[u].ref /\ Given(p, u) = 0 - Holds(s, u)
    BY <1>0, <1>3, SMTT(30) DEF Installs, Lone, Given, Holds
  <2>2. Only(p) /\ ofile[p][k] = NoSlot /\ ofile' = [ofile EXCEPT ![p][k] = s]
    BY <1>3, Zenon DEF Installs
  <2>3. \A u \in Slots : /\ Cardinality(Descriptors(u)) \in Nat /\ Cardinality(Descriptors(u)') \in Nat
                         /\ file'[u].ref = file[u].ref + Cardinality(Descriptors(u)')
                                           - Cardinality(Descriptors(u)) + Given(p, u)
    <3>1. TAKE u \in Slots
    <3>2. /\ Cardinality(Descriptors(u)) \in Nat /\ Cardinality(Descriptors(u)') \in Nat
          /\ Cardinality(Descriptors(u)') = Cardinality(Descriptors(u)) + Holds(s, u) - Holds(ofile[p][k], u)
      BY <1>0, <2>2, OneDescriptor, Zenon
    <3>3. Holds(s, u) \in Int /\ Holds(ofile[p][k], u) = 0
      BY <1>0, <2>2 DEF Holds
    <3> QED
      BY <1>0, <2>1, <3>2, <3>3, SMTT(30)
  <2> QED
    BY <1>0, <2>2, <2>3, SlotMoves, Zenon
<1>4. ASSUME NEW s \in Slots, NEW t \in Slots, NEW q \in Pipes, Connects(p, s, t, q) PROVE SlotInv'
  <2>1. \A u \in Slots : file'[u].ref = file[u].ref /\ Given(p, u) = 0
    BY <1>0, <1>4, SMTT(30) DEF Connects, SameSlots, Given, Holds
  <2>2. ofile' = ofile /\ Only(p)
    BY <1>4, Zenon DEF Connects
  <2>3. \A u \in Slots : /\ Cardinality(Descriptors(u)) \in Nat /\ Cardinality(Descriptors(u)') \in Nat
                         /\ file'[u].ref = file[u].ref + Cardinality(Descriptors(u)')
                                           - Cardinality(Descriptors(u)) + Given(p, u)
    <3>1. TAKE u \in Slots
    <3>2. /\ Cardinality(Descriptors(u)) \in Nat /\ Cardinality(Descriptors(u)') \in Nat
          /\ Cardinality(Descriptors(u)') = Cardinality(Descriptors(u))
      BY <2>2, SameDescriptors, Zenon
    <3> QED
      BY <1>0, <2>1, <3>2, SMTT(30)
  <2> QED
    BY <1>0, <2>2, <2>3, SlotMoves, ZenonT(30)
<1>5. ASSUME NEW s \in Slots, NEW t \in Slots, NEW k \in FDs, NEW m \in FDs, Pairs(p, s, t, k, m)
      PROVE  SlotInv'
  <2>1. \A u \in Slots : file'[u].ref = file[u].ref /\ Given(p, u) = 0 - Holds(s, u) - Holds(t, u)
    BY <1>0, <1>5, SMTT(30) DEF Pairs, Given, Holds
  <2>2. /\ Only(p) /\ k # m /\ ofile[p][k] = NoSlot /\ ofile[p][m] = NoSlot
        /\ ofile' = [ofile EXCEPT ![p][k] = s, ![p][m] = t]
    BY <1>5, Zenon DEF Pairs
  <2>3. \A u \in Slots : /\ Cardinality(Descriptors(u)) \in Nat /\ Cardinality(Descriptors(u)') \in Nat
                         /\ file'[u].ref = file[u].ref + Cardinality(Descriptors(u)')
                                           - Cardinality(Descriptors(u)) + Given(p, u)
    <3>1. TAKE u \in Slots
    <3>2. /\ Cardinality(Descriptors(u)) \in Nat /\ Cardinality(Descriptors(u)') \in Nat
          /\ Cardinality(Descriptors(u)') = Cardinality(Descriptors(u)) + Holds(s, u) - Holds(ofile[p][k], u)
                                            + Holds(t, u) - Holds(ofile[p][m], u)
      <4>1. s \in Slots \cup {NoSlot}
        OBVIOUS
      <4>2. RewiredTwice(p, k, m, s, t)
        BY <2>2, Zenon DEF RewiredTwice
      <4>3. ChangedTwice(Cardinality(Descriptors(u)), Cardinality(Descriptors(u)'),
                         s, ofile[p][k], t, ofile[p][m], u)
        BY <1>0, <2>2, <4>1, <4>2, TwoDescriptors, Zenon
      <4> QED
        BY <4>3, Zenon DEF ChangedTwice
    <3>3. Holds(s, u) \in Int /\ Holds(t, u) \in Int /\ Holds(ofile[p][k], u) = 0 /\ Holds(ofile[p][m], u) = 0
      BY <1>0, <2>2 DEF Holds
    <3> QED
      BY <1>0, <2>1, <3>2, <3>3, SMTT(30)
  <2> QED
    BY <1>0, <2>2, <2>3, SlotMoves, ZenonT(30)
<1>6. ASSUME NEW s \in Slots, Frees(p, s) PROVE SlotInv'
  <2>1. \A u \in Slots : file'[u].ref = file[u].ref - Holds(s, u)
    BY <1>0, <1>6, SMT DEF Frees, Freed, Lone, Holds
  <2>2. Only(p)
    BY <1>6, Zenon DEF Frees, Freed
  <2>3. CASE ofile' = ofile /\ ~SameSlots(p)
    <3>1. \A u \in Slots : Given(p, u) = 0 - Holds(s, u)
      BY <1>0, <1>6, <2>3, SMTT(30) DEF Frees, Given, Holds
    <3>2. \A u \in Slots : /\ Cardinality(Descriptors(u)) \in Nat /\ Cardinality(Descriptors(u)') \in Nat
                           /\ file'[u].ref = file[u].ref + Cardinality(Descriptors(u)')
                                             - Cardinality(Descriptors(u)) + Given(p, u)
      <4>1. TAKE u \in Slots
      <4>2. /\ Cardinality(Descriptors(u)) \in Nat /\ Cardinality(Descriptors(u)') \in Nat
            /\ Cardinality(Descriptors(u)') = Cardinality(Descriptors(u))
        BY <2>3, SameDescriptors, Zenon
      <4>3. Holds(s, u) \in Int
        BY DEF Holds
      <4> QED
        BY <1>0, <2>1, <3>1, <4>2, <4>3, SMTT(30)
    <3> QED
      BY <1>0, <2>2, <3>2, SlotMoves, Zenon
  <2>4. ASSUME NEW k \in FDs, ofile[p][k] = s, ofile' = [ofile EXCEPT ![p][k] = NoSlot], SameSlots(p)
        PROVE  SlotInv'
    <3>1. \A u \in Slots : Given(p, u) = 0
      BY <2>4, SMTT(30) DEF SameSlots, Given, Holds
    <3>2. \A u \in Slots : /\ Cardinality(Descriptors(u)) \in Nat /\ Cardinality(Descriptors(u)') \in Nat
                           /\ file'[u].ref = file[u].ref + Cardinality(Descriptors(u)')
                                             - Cardinality(Descriptors(u)) + Given(p, u)
      <4>1. TAKE u \in Slots
      <4>2. /\ Cardinality(Descriptors(u)) \in Nat /\ Cardinality(Descriptors(u)') \in Nat
            /\ Cardinality(Descriptors(u)') = Cardinality(Descriptors(u)) + Holds(NoSlot, u)
                                              - Holds(ofile[p][k], u)
        BY <1>0, <2>4, OneDescriptor, ZenonT(30)
      <4>3. Holds(s, u) \in Int /\ Holds(NoSlot, u) = 0
        BY <1>0 DEF Holds
      <4> QED
        BY <1>0, <2>1, <2>4, <3>1, <4>2, <4>3, SMTT(30)
    <3> QED
      BY <1>0, <2>2, <3>2, SlotMoves, ZenonT(30)
  <2>5. \/ ofile' = ofile /\ ~SameSlots(p)
        \/ \E k \in FDs : /\ ofile[p][k] = s /\ ofile' = [ofile EXCEPT ![p][k] = NoSlot]
                          /\ SameSlots(p)
    BY <1>0, <1>6, ZenonT(30) DEF Frees, SameSlots
  <2> QED
    BY <2>3, <2>4, <2>5, Zenon
<1>7. CASE Finishes(p)
  <2>1. \A u \in Slots : file'[u].ref = file[u].ref /\ Given(p, u) = 0
    <3>1. file' = file /\ SameSlots(p)
      BY <1>7, Zenon DEF Finishes
    <3> QED
      BY <1>0, <3>1, SMT DEF SameSlots, Given, Holds
  <2>2. ofile' = ofile /\ Only(p)
    BY <1>7, Zenon DEF Finishes
  <2>3. \A u \in Slots : /\ Cardinality(Descriptors(u)) \in Nat /\ Cardinality(Descriptors(u)') \in Nat
                         /\ file'[u].ref = file[u].ref + Cardinality(Descriptors(u)')
                                           - Cardinality(Descriptors(u)) + Given(p, u)
    <3>1. TAKE u \in Slots
    <3>2. /\ Cardinality(Descriptors(u)) \in Nat /\ Cardinality(Descriptors(u)') \in Nat
          /\ Cardinality(Descriptors(u)') = Cardinality(Descriptors(u))
      BY <2>2, SameDescriptors, Zenon
    <3> QED
      BY <1>0, <2>1, <3>2, SMT
  <2> QED
    BY <1>0, <2>2, <2>3, SlotMoves, Zenon
<1>8. ASSUME NEW s \in Slots, NEW r \in Procs, NEW k \in FDs, Shares(p, s, r, k) PROVE SlotInv'
  <2>1. \A u \in Slots : file'[u].ref = file[u].ref + Holds(s, u) /\ Given(p, u) = 0
    <3>1. file'[s].ref = file[s].ref + 1 /\ Lone(s) /\ SameSlots(p)
      BY <1>8, Zenon DEF Shares
    <3> QED
      BY <1>0, <3>1, SMT DEF Lone, SameSlots, Given, Holds
  <2>2. Only(p) /\ ofile[r][k] = NoSlot /\ ofile' = [ofile EXCEPT ![r][k] = s]
    BY <1>8, Zenon DEF Shares
  <2>3. \A u \in Slots : /\ Cardinality(Descriptors(u)) \in Nat /\ Cardinality(Descriptors(u)') \in Nat
                         /\ file'[u].ref = file[u].ref + Cardinality(Descriptors(u)')
                                           - Cardinality(Descriptors(u)) + Given(p, u)
    <3>1. TAKE u \in Slots
    <3>2. /\ Cardinality(Descriptors(u)) \in Nat /\ Cardinality(Descriptors(u)') \in Nat
          /\ Cardinality(Descriptors(u)') = Cardinality(Descriptors(u)) + Holds(s, u) - Holds(ofile[r][k], u)
      BY <1>0, <2>2, OneDescriptor, Zenon
    <3>3. Holds(s, u) \in Int /\ Holds(ofile[r][k], u) = 0
      BY <1>0, <2>2, SMTT(30) DEF Holds
    <3> QED
      BY <1>0, <2>1, <3>2, <3>3, SMTT(30)
  <2> QED
    BY <1>0, <2>2, <2>3, SlotMoves, ZenonT(30)
<1> QED
  BY <1>1, <1>2, <1>3, <1>4, <1>5, <1>6, <1>7, <1>8, Zenon DEF Effect

----------------------------------------------------------------------------
\* The invariant

\* Every action keeps the invariant
LEMMA NextInv == IInv /\ [Next]_vars => IInv'
<1> SUFFICES ASSUME IInv, [Next]_vars PROVE IInv'
  OBVIOUS
<1>1. ASSUME NEW p \in Procs, Step(p) \/ Calls(p) PROVE IInv'
  <2>1. TypeOK'
    BY <1>1, TypeStep, Zenon
  <2>2. Effect(p)
    BY <1>1, Effects, Zenon
  <2>3. Acts(p)
    BY <1>1, Lives, Zenon
  <2>4. SlotInv' /\ EntryInv' /\ EndInv' /\ KindInv'
    BY <2>1, <2>2, SlotStep, EntryStep, EndStep, KindStep, Zenon
  <2>5. LocInv'
    <3>1. Only(p)
      BY <2>3, Zenon DEF Acts
    <3>2. LocOf(p)'
      BY <1>1, LocStep, Zenon
    <3>3. \A r \in Procs : r # p => LocOf(r)'
      BY <2>2, <3>1, OtherLocs, Zenon
    <3>4. \A r \in Procs : LocOf(r)'
      BY <3>2, <3>3, Zenon
    <3> QED
      BY <3>4, Zenon DEF LocInv
  <2>6. LiveInv'
    BY <2>3, LiveStep, Zenon
  <2>7. PanicsOnlyAtPipeMode'
    BY <1>1, PanicStep, Zenon
  <2> QED
    BY <2>1, <2>4, <2>5, <2>6, <2>7, Zenon DEF IInv
<1>2. CASE UNCHANGED vars
  <2>1. /\ file' = file /\ ofile' = ofile /\ icache' = icache /\ mode' = mode /\ pipe' = pipe
        /\ blocked' = blocked /\ alive' = alive /\ leaked' = leaked /\ loc' = loc /\ panicked' = panicked
    BY <1>2 DEF vars
  <2>a. TypeOK'
    BY <2>1, Zenon DEF IInv, TypeOK
  <2>b. KindInv'
    BY <2>1, Zenon DEF IInv, KindInv
  <2>c. LiveInv'
    BY <2>1, SMT DEF IInv, LiveInv, Forking
  <2>d. PanicsOnlyAtPipeMode'
    BY <2>1, Zenon DEF IInv, PanicsOnlyAtPipeMode
  <2>3. LocInv'
    BY <2>1, ZenonT(30) DEF IInv, LocInv, LocOf
  <2>4. SlotInv'
    BY <2>1, Zenon DEF IInv, SlotInv, Descriptors, Firsts, Seconds
  <2>5. EntryInv'
    BY <2>1, Zenon DEF IInv, EntryInv, FilesOf, CopiesOf, Opening, IsOf
  <2>6. EndInv'
    <3>1. \A q \in Pipes, end \in Ends :
            /\ FilesOf(end, q)' = FilesOf(end, q) /\ CopiesOf(end, q)' = CopiesOf(end, q)
            /\ IsOpen(q, end)' = IsOpen(q, end)
      BY <2>1, ZenonT(30) DEF FilesOf, CopiesOf, IsOf, IsOpen
    <3>2. \A q \in Pipes, end \in Ends :
            Cardinality(FilesOf(end, q)') + Cardinality(CopiesOf(end, q)')
              = IF IsOpen(q, end)' THEN 1 ELSE 0
      BY <3>1, SMT DEF IInv, EndInv
    <3> QED
      BY <3>2, Zenon DEF EndInv
  <2> QED
    BY <2>a, <2>b, <2>c, <2>d, <2>3, <2>4, <2>5, <2>6, Zenon DEF IInv
<1> QED
  BY <1>1, <1>2, Zenon DEF Next

\* In every behaviour of open, pipe, dup, close, fork, exit, read, write, chmod and exec, by any
\* number of processes: the counts of the slots and of the inodes are what is held of them, an
\* open end of a pipe has one file, a slot has a type while it has a descriptor, and each call
\* holds at each point what its code still has to give back.
THEOREM FilesInvariant == Spec => []IInv
<1> QED
  BY InitInv, NextInv, PTL DEF Spec

\* The counts of ftable and of the inode cache are exact through every failing open and
\* pipe, fork, dup and exit, for every number of processes, slots, descriptors and entries.
THEOREM FileRefsAlwaysExact == Spec => []RefsExact
<1>1. ASSUME IInv PROVE RefsExact
  <2>0. TypeOK /\ SlotInv /\ EntryInv /\ KindInv
    BY <1>1 DEF IInv
  <2>1. ASSUME NEW s \in Slots PROVE file[s].ref = SlotRefs(s)
    BY <2>0, Zenon DEF SlotInv, SlotRefs, Descriptors, Firsts, Seconds
  <2>2. ASSUME NEW e \in Entries PROVE icache[e].ref = EntryRefs(e)
    <3>1. FilesOf("INODE", e) = {s \in Slots : file[s].ref > 0 /\ file[s].type = "INODE" /\ file[s].ip = e}
      <4>1. \A s \in Slots : file[s].type = "INODE" => file[s].ref > 0
        BY <2>0 DEF TypeOK, Files, KindInv
      <4> QED
        BY <4>1, Zenon DEF FilesOf, IsOf
    <3>2. CopiesOf("INODE", e) = {p \in Procs : loc[p].ff.type = "INODE" /\ loc[p].ff.ip = e}
      BY Zenon DEF CopiesOf, IsOf
    <3>3. Opening(e) = {p \in Procs : loc[p].e = e}
      BY Zenon DEF Opening
    <3>4. icache[e].ref = Cardinality(FilesOf("INODE", e)) + Cardinality(CopiesOf("INODE", e))
                          + Cardinality(Opening(e)) + leaked[e]
      BY <2>0, Zenon DEF EntryInv
    <3> QED
      BY <3>1, <3>2, <3>3, <3>4, Zenon DEF EntryRefs
  <2> QED
    BY <2>0, <2>1, <2>2, Zenon DEF RefsExact
<1> QED
  BY <1>1, FilesInvariant, PTL

\* Each end of a pipe is closed exactly once, after its last descriptor, although fileclose
\* frees the slot before it calls pipeclose.
THEOREM EndsAlwaysClosedOnce == Spec => []EndsClosedOnce
<1>1. ASSUME IInv PROVE EndsClosedOnce
  <2>0. TypeOK /\ EndInv /\ KindInv
    BY <1>1 DEF IInv
  <2>1. ASSUME NEW q \in Pipes, NEW end \in Ends
        PROVE  EndHolders(q, end) = IF IsOpen(q, end) THEN 1 ELSE 0
    <3>0. end # "INODE" /\ end # "NONE"
      BY DEF Ends
    <3>1. FilesOf(end, q) = {s \in Slots : file[s].ref > 0 /\ file[s].type = end /\ file[s].pipe = q}
      <4>1. \A s \in Slots : file[s].type = end => file[s].ref > 0
        BY <2>0, <3>0, SMTT(30) DEF TypeOK, Files, KindInv
      <4> QED
        BY <3>0, <4>1, ZenonT(30) DEF FilesOf, IsOf
    <3>2. CopiesOf(end, q) = {p \in Procs : loc[p].ff.type = end /\ loc[p].ff.pipe = q}
      BY <3>0, Zenon DEF CopiesOf, IsOf
    <3>3. Cardinality(FilesOf(end, q)) + Cardinality(CopiesOf(end, q)) = IF IsOpen(q, end) THEN 1 ELSE 0
      BY <2>0, Zenon DEF EndInv
    <3> QED
      BY <3>1, <3>2, <3>3, ZenonT(30) DEF EndHolders
  <2>2. "WRITEEND" \in Ends /\ "READEND" \in Ends
    BY DEF Ends
  <2>3. \A q \in Pipes : /\ IsOpen(q, "WRITEEND") <=> pipe[q].writeopen
                         /\ IsOpen(q, "READEND") <=> pipe[q].readopen
    BY DEF IsOpen
  <2> QED
    BY <2>1, <2>2, <2>3, Zenon DEF EndsClosedOnce
<1> QED
  BY <1>1, FilesInvariant, PTL

\* The only panics are those of read and write on a pipe, whose struct file has no inode.
THEOREM PanicsAlwaysAtPipeMode == Spec => []PanicsOnlyAtPipeMode
<1>1. IInv => PanicsOnlyAtPipeMode
  BY DEF IInv
<1> QED
  BY <1>1, FilesInvariant, PTL
============================================================================
