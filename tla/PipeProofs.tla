----------------------------- MODULE PipeProofs ----------------------------
(***************************************************************************)
(* Proofs about the pipe, for any number of processes and any size of the  *)
(* ring.                                                                   *)
(*                                                                         *)
(* The inductive invariant IInv says who holds p->lock (LockInv), what     *)
(* readopen, writeopen and freed count (EndInv), and why a process may     *)
(* sleep while another one holds p->lock (SleepInv).                       *)
(***************************************************************************)
EXTENDS Pipe, SequenceTheorems, TLAPS

\* Locations at which a process is in pipewrite or piperead, and holds p->lock.
Writing == {"write_lock", "write", "write_doze", "write_sleep"}
Reading == {"read_lock", "read", "read_doze", "read_sleep", "read_copy"}
Locked == {"write", "write_doze", "read", "read_doze", "read_copy"}

LockInv == \A p \in Procs : lock = p <=> pc[p] \in Locked

Closing(p, e) == pc[p] = "close_lock" /\ closing[p] = e

\* An end is open as long as a process has it or is about to close it for good.
EndInv ==
  /\ \A p \in Procs : /\ pc[p] \in Writing => "write" \in holds[p]
                      /\ pc[p] \in Reading => "read" \in holds[p]
  /\ \A p \in Procs, e \in Ends : Closing(p, e) =>
       \A q \in Procs : e \notin holds[q] /\ (Closing(q, e) => q = p)
  /\ \A p \in Procs : /\ "write" \in holds[p] \/ Closing(p, "write") => writeopen
                      /\ "read" \in holds[p] \/ Closing(p, "read") => readopen
  /\ freed <=> ~readopen /\ ~writeopen

\* A sleeper's reason holds, or the holder of p->lock will wake it.
SleepInv ==
  \A p \in Procs :
    /\ pc[p] = "write_doze" => Full /\ readopen
    /\ pc[p] = "read_doze" => Empty /\ writeopen
    /\ pc[p] = "write_sleep" =>
         readopen /\ (Full \/ \E q \in Procs : pc[q] = "read_copy")
    /\ pc[p] = "read_sleep" =>
         /\ writeopen
         /\ Empty \/ \E q \in Procs : killed[q] \/ pc[q] = "write"

IInv == TypeOK /\ LockInv /\ EndInv /\ SleepInv

----------------------------------------------------------------------------

\* pipealloc establishes the invariant.
LEMMA InitInv == Init => IInv
<1> SUFFICES ASSUME Init PROVE IInv
  OBVIOUS
<1>1. TypeOK
  <2>1. 0 \in 0 .. Wrap - 1 /\ 0 \in 0 .. MaxN
    BY SizeAssumption
  <2> QED
    BY <2>1, Zenon DEF Init, TypeOK, Ends, Locations
<1>2. LockInv
  BY NoneAssumption DEF Init, LockInv, Locked
<1>3. EndInv
  BY DEF Init, EndInv, Closing, Writing, Reading
<1>4. SleepInv
  BY DEF Init, SleepInv
<1> QED
  BY <1>1, <1>2, <1>3, <1>4 DEF IInv

\* Division with remainder.
LEMMA Remainder ==
  ASSUME NEW M \in Nat \ {0}, NEW x \in Nat
  PROVE  x % M \in 0 .. M - 1 /\ \E q \in Nat : x = M * q + (x % M)
<1>1. x % M = x - M * (x \div M)
  OBVIOUS
<1>2. x % M \in 0 .. M - 1
  OBVIOUS
<1>3. x \div M \in Nat
  OBVIOUS
<1>4. x = M * (x \div M) + (x % M)
  BY <1>1, <1>2, <1>3
<1> QED
  BY <1>2, <1>3, <1>4, Zenon

\* The remainder is unique.
LEMMA Unique ==
  ASSUME NEW M \in Nat \ {0}, NEW q \in Nat, NEW r \in 0 .. M - 1
  PROVE  (M * q + r) % M = r
  OBVIOUS

\* The counters wrap around at a multiple of the size of the ring, so that an index is
\* the same before and after.
LEMMA Multiple ==
  ASSUME NEW M \in Nat \ {0}, NEW W \in Nat, W % M = 0, NEW x \in Nat
  PROVE  (x + W) % M = x % M
<1> DEFINE r == x % M
<1>1. PICK k \in Nat : W = M * k + (W % M)
  BY Remainder, Zenon
<1>2. PICK q \in Nat : x = M * q + r
  BY Remainder, Zenon
<1>3. r \in 0 .. M - 1
  BY Remainder, Zenon
<1> HIDE DEF r
<1>4. W = M * k
  BY <1>1
<1>5. q + k \in Nat /\ x + W = M * (q + k) + r
  BY <1>2, <1>3, <1>4
<1>6. (M * (q + k) + r) % M = r
  BY <1>3, <1>5, Unique, Zenon
<1> QED
  BY <1>5, <1>6, Zenon DEF r

\* Fewer than M successive counter values have different indexes.
LEMMA Distinct ==
  ASSUME NEW M \in Nat \ {0}, NEW x \in Nat, NEW d \in 1 .. M - 1
  PROVE  (x + d) % M # x % M
<1> DEFINE r == x % M
<1>1. PICK q \in Nat : x = M * q + r
  BY Remainder, Zenon
<1>2. r \in 0 .. M - 1
  BY Remainder, Zenon
<1> HIDE DEF r
<1>3. CASE r + d < M
  <2>1. r + d \in 0 .. M - 1 /\ x + d = M * q + (r + d)
    BY <1>1, <1>2, <1>3
  <2>2. (x + d) % M = r + d
    BY <2>1, Unique, Zenon
  <2> QED
    BY <1>2, <2>2 DEF r
<1>4. CASE r + d >= M
  <2>1. q + 1 \in Nat /\ r + d - M \in 0 .. M - 1 /\ x + d = M * (q + 1) + (r + d - M)
    BY <1>1, <1>2, <1>4
  <2>2. (x + d) % M = r + d - M
    BY <2>1, Unique, Zenon
  <2>3. r + d - M # r
    BY <1>2
  <2> QED
    BY <2>2, <2>3 DEF r
<1> QED
  BY <1>2, <1>3, <1>4

\* A counter that has wrapped around once.
LEMMA Once ==
  ASSUME NEW M \in Nat \ {0}, NEW x \in Nat, x < 2 * M
  PROVE  /\ x < M => x % M = x
         /\ ~(x < M) => x % M = x - M
  OBVIOUS

\* A function on 1 .. n as a sequence: Append, Head and Tail.
LEMMA AppendFcn ==
  ASSUME NEW S, NEW n \in Nat, NEW f \in [1 .. n + 1 -> S]
  PROVE  [i \in 1 .. n + 1 |-> f[i]] = Append([i \in 1 .. n |-> f[i]], f[n + 1])
  OBVIOUS

\* ... and what is left behind its head.
LEMMA TailFcn ==
  ASSUME NEW S, NEW n \in Nat \ {0}, NEW f \in [1 .. n -> S]
  PROVE  /\ f # << >>
         /\ Head(f) = f[1]
         /\ Tail(f) = [i \in 1 .. n - 1 |-> f[i + 1]]
<1>1. f \in Seq(S) /\ Len(f) = n
  OBVIOUS
<1>2. f # << >> /\ Head(f) = f[1]
  BY <1>1
<1>3. Tail(f) = [i \in 1 .. n - 1 |-> f[i + 1]]
  <2>1. /\ Tail(f) \in Seq(S) /\ Len(Tail(f)) = Len(f) - 1
        /\ \A i \in 1 .. Len(Tail(f)) : Tail(f)[i] = f[i + 1]
    BY <1>1, <1>2, HeadTailProperties, Zenon
  <2> DEFINE t == Tail(f)
  <2> HIDE DEF t
  <2>2. t \in Seq(S) /\ Len(t) = n - 1 /\ \A i \in 1 .. n - 1 : t[i] = f[i + 1]
    BY <1>1, <2>1 DEF t
  <2>3. t = [i \in 1 .. n - 1 |-> f[i + 1]]
    BY <2>2
  <2> QED
    BY <2>3 DEF t
<1> QED
  BY <1>2, <1>3

\* Every step keeps the types: the counters stay below Wrap, and the ring is read and
\* written inside its bounds.
LEMMA TypeStep ==
  ASSUME TypeOK, [Next]_vars
  PROVE  TypeOK'
<1>1. CASE UNCHANGED vars
  BY <1>1 DEF vars, TypeOK
<1> USE SizeAssumption DEF TypeOK, Locations, Ends
<1>2. ASSUME NEW p \in Procs, NEW n \in 0 .. MaxN, WriteCall(p, n)
      PROVE  TypeOK'
  BY <1>2 DEF WriteCall, Goto, pipe
<1>3. ASSUME NEW p \in Procs, WriteLock(p)
      PROVE  TypeOK'
  BY <1>3 DEF WriteLock, Goto, pipe
<1>4. ASSUME NEW p \in Procs, NEW b \in Bytes, WriteByte(p, b)
      PROVE  TypeOK'
  BY <1>4 DEF WriteByte
<1>5. ASSUME NEW p \in Procs, WriteFail(p)
      PROVE  TypeOK'
  BY <1>5 DEF WriteFail, Goto, pipe
<1>6. ASSUME NEW p \in Procs, WriteBlock(p)
      PROVE  TypeOK'
  BY <1>6 DEF WriteBlock, WakeReaders, Woken, pipe
<1>7. ASSUME NEW p \in Procs, WriteSleep(p)
      PROVE  TypeOK'
  BY <1>7 DEF WriteSleep, Goto, pipe
<1>8. ASSUME NEW p \in Procs, WriteReturn(p)
      PROVE  TypeOK'
  BY <1>8 DEF WriteReturn, WakeReaders, Woken, pipe
<1>9. ASSUME NEW p \in Procs, NEW n \in 0 .. MaxN, ReadCall(p, n)
      PROVE  TypeOK'
  BY <1>9 DEF ReadCall, Goto, pipe
<1>10. ASSUME NEW p \in Procs, ReadLock(p)
      PROVE  TypeOK'
  BY <1>10 DEF ReadLock, Goto, pipe
<1>11. ASSUME NEW p \in Procs, ReadFail(p)
      PROVE  TypeOK'
  BY <1>11 DEF ReadFail, Goto, pipe
<1>12. ASSUME NEW p \in Procs, ReadBlock(p)
      PROVE  TypeOK'
  BY <1>12 DEF ReadBlock, Goto, pipe
<1>13. ASSUME NEW p \in Procs, ReadSleep(p)
      PROVE  TypeOK'
  BY <1>13 DEF ReadSleep, Goto, pipe
<1>14. ASSUME NEW p \in Procs, ReadReady(p)
      PROVE  TypeOK'
  BY <1>14 DEF ReadReady, Goto, pipe
<1>15. ASSUME NEW p \in Procs, ReadByte(p)
      PROVE  TypeOK'
  BY <1>15 DEF ReadByte
<1>16. ASSUME NEW p \in Procs, ReadReturn(p)
      PROVE  TypeOK'
  BY <1>16 DEF ReadReturn, WakeWriters, Woken, pipe
<1>17. ASSUME NEW p \in Procs, NEW e \in Ends, Close(p, e)
      PROVE  TypeOK'
  BY <1>17, Zenon DEF Close, pipe
<1>18. ASSUME NEW p \in Procs, PipeClose(p)
      PROVE  TypeOK'
  BY <1>18, Zenon DEF PipeClose, WakeReaders, WakeWriters, Woken, ring
<1>19. ASSUME NEW p \in Procs, Kill(p)
      PROVE  TypeOK'
  BY <1>19 DEF Kill, pipe
<1> HIDE DEF TypeOK, Locations, Ends
<1> QED
  BY <1>1, <1>2, <1>3, <1>4, <1>5, <1>6, <1>7, <1>8, <1>9, <1>10, <1>11, <1>12, <1>13,
     <1>14, <1>15, <1>16, <1>17, <1>18, <1>19, Zenon
  DEF Next, Call, Step

\* p->lock has one holder, in all of the code between acquire and release.
LEMMA LockStep ==
  ASSUME TypeOK, LockInv, [Next]_vars
  PROVE  LockInv'
<1>1. CASE UNCHANGED vars
  BY <1>1 DEF vars, LockInv
<1>2. /\ pc \in [Procs -> Locations]
  BY DEF TypeOK
<1> USE <1>2, NoneAssumption DEF LockInv, Locked
<1>3. ASSUME NEW p \in Procs, NEW n \in 0 .. MaxN, WriteCall(p, n)
      PROVE  LockInv'
  BY <1>3 DEF WriteCall, Goto, pipe
<1>4. ASSUME NEW p \in Procs, WriteLock(p)
      PROVE  LockInv'
  BY <1>4 DEF WriteLock, Goto, pipe
<1>5. ASSUME NEW p \in Procs, NEW b \in Bytes, WriteByte(p, b)
      PROVE  LockInv'
  BY <1>5 DEF WriteByte
<1>6. ASSUME NEW p \in Procs, WriteFail(p)
      PROVE  LockInv'
  BY <1>6 DEF WriteFail, Goto, pipe
<1>7. ASSUME NEW p \in Procs, WriteBlock(p)
      PROVE  LockInv'
  BY <1>7 DEF WriteBlock, WakeReaders, Woken, pipe
<1>8. ASSUME NEW p \in Procs, WriteSleep(p)
      PROVE  LockInv'
  BY <1>8 DEF WriteSleep, Goto, pipe
<1>9. ASSUME NEW p \in Procs, WriteReturn(p)
      PROVE  LockInv'
  BY <1>9 DEF WriteReturn, WakeReaders, Woken, pipe
<1>10. ASSUME NEW p \in Procs, NEW n \in 0 .. MaxN, ReadCall(p, n)
      PROVE  LockInv'
  BY <1>10 DEF ReadCall, Goto, pipe
<1>11. ASSUME NEW p \in Procs, ReadLock(p)
      PROVE  LockInv'
  BY <1>11 DEF ReadLock, Goto, pipe
<1>12. ASSUME NEW p \in Procs, ReadFail(p)
      PROVE  LockInv'
  BY <1>12 DEF ReadFail, Goto, pipe
<1>13. ASSUME NEW p \in Procs, ReadBlock(p)
      PROVE  LockInv'
  BY <1>13 DEF ReadBlock, Goto, pipe
<1>14. ASSUME NEW p \in Procs, ReadSleep(p)
      PROVE  LockInv'
  BY <1>14 DEF ReadSleep, Goto, pipe
<1>15. ASSUME NEW p \in Procs, ReadReady(p)
      PROVE  LockInv'
  BY <1>15 DEF ReadReady, Goto, pipe
<1>16. ASSUME NEW p \in Procs, ReadByte(p)
      PROVE  LockInv'
  BY <1>16 DEF ReadByte
<1>17. ASSUME NEW p \in Procs, ReadReturn(p)
      PROVE  LockInv'
  BY <1>17 DEF ReadReturn, WakeWriters, Woken, pipe
<1>18. ASSUME NEW p \in Procs, NEW e \in Ends, Close(p, e)
      PROVE  LockInv'
  BY <1>18 DEF Close, pipe
<1>19. ASSUME NEW p \in Procs, PipeClose(p)
      PROVE  LockInv'
  BY <1>19, Zenon DEF PipeClose, WakeReaders, WakeWriters, Woken, ring
<1>20. ASSUME NEW p \in Procs, Kill(p)
      PROVE  LockInv'
  BY <1>20, SMTT(30) DEF Kill, pipe
<1> HIDE DEF LockInv, Locked
<1> QED
  BY <1>1, <1>2, <1>3, <1>4, <1>5, <1>6, <1>7, <1>8, <1>9, <1>10, <1>11, <1>12, <1>13,
     <1>14, <1>15, <1>16, <1>17, <1>18, <1>19, <1>20, Zenon
  DEF Next, Call, Step

\* fileclose drops an end for good once, and pipeclose frees the pipe with the second one.
LEMMA EndStep ==
  ASSUME TypeOK, LockInv, EndInv, [Next]_vars
  PROVE  EndInv'
<1>1. CASE UNCHANGED vars
  BY <1>1 DEF vars, EndInv, Closing
<1>2. /\ pc \in [Procs -> Locations]
      /\ holds \in [Procs -> SUBSET Ends]
      /\ closing \in [Procs -> Ends]
      /\ readopen \in BOOLEAN /\ writeopen \in BOOLEAN /\ freed \in BOOLEAN
  BY DEF TypeOK
<1> USE <1>2 DEF EndInv, Closing, Writing, Reading, Ends
<1>3. ASSUME NEW p \in Procs, NEW n \in 0 .. MaxN, WriteCall(p, n)
      PROVE  EndInv'
  BY <1>3 DEF WriteCall, Goto, pipe
<1>4. ASSUME NEW p \in Procs, WriteLock(p)
      PROVE  EndInv'
  BY <1>4 DEF WriteLock, Goto, pipe
<1>5. ASSUME NEW p \in Procs, NEW b \in Bytes, WriteByte(p, b)
      PROVE  EndInv'
  BY <1>5 DEF WriteByte
<1>6. ASSUME NEW p \in Procs, WriteFail(p)
      PROVE  EndInv'
  BY <1>6 DEF WriteFail, Goto, pipe
<1>7. ASSUME NEW p \in Procs, WriteBlock(p)
      PROVE  EndInv'
  BY <1>7, SMTT(30) DEF WriteBlock, WakeReaders, Woken, pipe
<1>8. ASSUME NEW p \in Procs, WriteSleep(p)
      PROVE  EndInv'
  BY <1>8 DEF WriteSleep, Goto, pipe
<1>9. ASSUME NEW p \in Procs, WriteReturn(p)
      PROVE  EndInv'
  BY <1>9 DEF WriteReturn, WakeReaders, Woken, pipe
<1>10. ASSUME NEW p \in Procs, NEW n \in 0 .. MaxN, ReadCall(p, n)
      PROVE  EndInv'
  BY <1>10 DEF ReadCall, Goto, pipe
<1>11. ASSUME NEW p \in Procs, ReadLock(p)
      PROVE  EndInv'
  BY <1>11 DEF ReadLock, Goto, pipe
<1>12. ASSUME NEW p \in Procs, ReadFail(p)
      PROVE  EndInv'
  BY <1>12 DEF ReadFail, Goto, pipe
<1>13. ASSUME NEW p \in Procs, ReadBlock(p)
      PROVE  EndInv'
  BY <1>13, SMTT(30) DEF ReadBlock, Goto, pipe
<1>14. ASSUME NEW p \in Procs, ReadSleep(p)
      PROVE  EndInv'
  BY <1>14 DEF ReadSleep, Goto, pipe
<1>15. ASSUME NEW p \in Procs, ReadReady(p)
      PROVE  EndInv'
  BY <1>15 DEF ReadReady, Goto, pipe
<1>16. ASSUME NEW p \in Procs, ReadByte(p)
      PROVE  EndInv'
  BY <1>16, SMTT(30) DEF ReadByte
<1>17. ASSUME NEW p \in Procs, ReadReturn(p)
      PROVE  EndInv'
  BY <1>17 DEF ReadReturn, WakeWriters, Woken, pipe
<1>18. ASSUME NEW p \in Procs, NEW e \in Ends, Close(p, e)
      PROVE  EndInv'
  BY <1>18 DEF Close, pipe
<1>19. ASSUME NEW p \in Procs, PipeClose(p)
      PROVE  EndInv'
  <2>1. /\ pc[p] = "close_lock" /\ lock = None
        /\ holds' = holds /\ closing' = [closing EXCEPT ![p] = "read"]
        /\ nread' = nread /\ nwrite' = nwrite /\ killed' = killed
    BY <1>19, Zenon DEF PipeClose, ring
  <2>2. freed' <=> ~readopen' /\ ~writeopen'
    BY <1>19, Zenon DEF PipeClose
  <2>3. CASE closing[p] = "write"
    <3>1. ~writeopen' /\ readopen' = readopen
      BY <1>19, <2>3, Zenon DEF PipeClose
    <3>2. pc' = [WakeReaders(pc) EXCEPT ![p] = "idle"]
      BY <1>19, <2>3, Zenon DEF PipeClose
    <3> QED
      BY <2>1, <2>2, <2>3, <3>1, <3>2 DEF WakeReaders, Woken
  <2>4. CASE closing[p] # "write"
    <3>1. ~readopen' /\ writeopen' = writeopen
      BY <1>19, <2>4, Zenon DEF PipeClose
    <3>2. pc' = [WakeWriters(pc) EXCEPT ![p] = "idle"]
      BY <1>19, <2>4, Zenon DEF PipeClose
    <3> QED
      BY <2>1, <2>2, <2>4, <3>1, <3>2, SMTT(30) DEF WakeWriters, Woken
  <2> QED
    BY <2>3, <2>4
<1>20. ASSUME NEW p \in Procs, Kill(p)
      PROVE  EndInv'
  BY <1>20, SMTT(30) DEF Kill, pipe
<1> HIDE DEF EndInv, Closing, Writing, Reading, Ends
<1> QED
  BY <1>1, <1>2, <1>3, <1>4, <1>5, <1>6, <1>7, <1>8, <1>9, <1>10, <1>11, <1>12, <1>13,
     <1>14, <1>15, <1>16, <1>17, <1>18, <1>19, <1>20, Zenon
  DEF Next, Call, Step

\* Whoever fills, empties or closes the pipe wakes the other side before it lets go of
\* p->lock.
LEMMA SleepStep ==
  ASSUME TypeOK, LockInv, EndInv, SleepInv, [Next]_vars
  PROVE  SleepInv'
<1>1. CASE UNCHANGED vars
  BY <1>1 DEF vars, SleepInv, Full, Empty
<1>2. /\ pc \in [Procs -> Locations]
      /\ killed \in [Procs -> BOOLEAN]
      /\ closing \in [Procs -> Ends]
      /\ readopen \in BOOLEAN /\ writeopen \in BOOLEAN /\ freed \in BOOLEAN
  BY DEF TypeOK
<1> USE <1>2, NoneAssumption
        DEF SleepInv, LockInv, Locked, EndInv, Writing, Reading, Full, Empty
<1>3. ASSUME NEW p \in Procs, NEW n \in 0 .. MaxN, WriteCall(p, n)
      PROVE  SleepInv'
  BY <1>3 DEF WriteCall, Goto, pipe
<1>4. ASSUME NEW p \in Procs, WriteLock(p)
      PROVE  SleepInv'
  BY <1>4, SMTT(30) DEF WriteLock, Goto, pipe
<1>5. ASSUME NEW p \in Procs, NEW b \in Bytes, WriteByte(p, b)
      PROVE  SleepInv'
  BY <1>5 DEF WriteByte
<1>6. ASSUME NEW p \in Procs, WriteFail(p)
      PROVE  SleepInv'
  BY <1>6 DEF WriteFail, Goto, pipe
<1>7. ASSUME NEW p \in Procs, WriteBlock(p)
      PROVE  SleepInv'
  BY <1>7, SMTT(30) DEF WriteBlock, WakeReaders, Woken, pipe
<1>8. ASSUME NEW p \in Procs, WriteSleep(p)
      PROVE  SleepInv'
  BY <1>8 DEF WriteSleep, Goto, pipe
<1>9. ASSUME NEW p \in Procs, WriteReturn(p)
      PROVE  SleepInv'
  BY <1>9 DEF WriteReturn, WakeReaders, Woken, pipe
<1>10. ASSUME NEW p \in Procs, NEW n \in 0 .. MaxN, ReadCall(p, n)
      PROVE  SleepInv'
  BY <1>10, SMTT(30) DEF ReadCall, Goto, pipe
<1>11. ASSUME NEW p \in Procs, ReadLock(p)
      PROVE  SleepInv'
  BY <1>11 DEF ReadLock, Goto, pipe
<1>12. ASSUME NEW p \in Procs, ReadFail(p)
      PROVE  SleepInv'
  BY <1>12 DEF ReadFail, Goto, pipe
<1>13. ASSUME NEW p \in Procs, ReadBlock(p)
      PROVE  SleepInv'
  BY <1>13, SMTT(30) DEF ReadBlock, Goto, pipe
<1>14. ASSUME NEW p \in Procs, ReadSleep(p)
      PROVE  SleepInv'
  BY <1>14 DEF ReadSleep, Goto, pipe
<1>15. ASSUME NEW p \in Procs, ReadReady(p)
      PROVE  SleepInv'
  BY <1>15 DEF ReadReady, Goto, pipe
<1>16. ASSUME NEW p \in Procs, ReadByte(p)
      PROVE  SleepInv'
  BY <1>16, SMTT(30) DEF ReadByte
<1>17. ASSUME NEW p \in Procs, ReadReturn(p)
      PROVE  SleepInv'
  BY <1>17, SMTT(30) DEF ReadReturn, WakeWriters, Woken, pipe
<1>18. ASSUME NEW p \in Procs, NEW e \in Ends, Close(p, e)
      PROVE  SleepInv'
  BY <1>18 DEF Close, pipe
<1>19. ASSUME NEW p \in Procs, PipeClose(p)
      PROVE  SleepInv'
  <2>1. /\ pc[p] = "close_lock" /\ lock = None
        /\ holds' = holds /\ closing' = [closing EXCEPT ![p] = "read"]
        /\ nread' = nread /\ nwrite' = nwrite /\ killed' = killed
    BY <1>19, Zenon DEF PipeClose, ring
  <2>2. freed' <=> ~readopen' /\ ~writeopen'
    BY <1>19, Zenon DEF PipeClose
  <2>3. CASE closing[p] = "write"
    <3>1. ~writeopen' /\ readopen' = readopen
      BY <1>19, <2>3, Zenon DEF PipeClose
    <3>2. pc' = [WakeReaders(pc) EXCEPT ![p] = "idle"]
      BY <1>19, <2>3, Zenon DEF PipeClose
    <3> QED
      BY <2>1, <2>2, <2>3, <3>1, <3>2 DEF WakeReaders, Woken
  <2>4. CASE closing[p] # "write"
    <3>1. ~readopen' /\ writeopen' = writeopen
      BY <1>19, <2>4, Zenon DEF PipeClose
    <3>2. pc' = [WakeWriters(pc) EXCEPT ![p] = "idle"]
      BY <1>19, <2>4, Zenon DEF PipeClose
    <3> QED
      BY <2>1, <2>2, <2>4, <3>1, <3>2, SMTT(30) DEF WakeWriters, Woken
  <2> QED
    BY <2>3, <2>4, SMTT(30)
<1>20. ASSUME NEW p \in Procs, Kill(p)
      PROVE  SleepInv'
  BY <1>20 DEF Kill, pipe
<1> HIDE DEF SleepInv, LockInv, Locked, EndInv, Writing, Reading, Full, Empty
<1> QED
  BY <1>1, <1>2, <1>3, <1>4, <1>5, <1>6, <1>7, <1>8, <1>9, <1>10, <1>11, <1>12, <1>13,
     <1>14, <1>15, <1>16, <1>17, <1>18, <1>19, <1>20, Zenon
  DEF Next, Call, Step

----------------------------------------------------------------------------
\* The ring as a queue

Count == (nwrite + Wrap - nread) % Wrap

\* pipewrite stops when the ring is full.
QueueInv == Count <= PIPESIZE

\* How many bytes are in the ring, and where the i-th of them is: the wrap-around of
\* the counters cannot be seen in the indexes.
LEMMA RingShape ==
  ASSUME TypeOK
  PROVE  /\ Count = IF nwrite >= nread THEN nwrite - nread ELSE nwrite + Wrap - nread
         /\ Count \in 0 .. Wrap - 1
         /\ nwrite % PIPESIZE = (nread + Count) % PIPESIZE
         /\ \A i \in 1 .. Wrap :
              ((nread + i - 1) % Wrap) % PIPESIZE = (nread + i - 1) % PIPESIZE
<1>1. /\ nread \in 0 .. Wrap - 1 /\ nwrite \in 0 .. Wrap - 1
      /\ PIPESIZE \in Nat \ {0} /\ Wrap \in Nat \ {0} /\ Wrap % PIPESIZE = 0
  BY SizeAssumption DEF TypeOK
<1>2. /\ Count = IF nwrite >= nread THEN nwrite - nread ELSE nwrite + Wrap - nread
      /\ Count \in 0 .. Wrap - 1
  <2>1. nwrite + Wrap - nread \in Nat /\ nwrite + Wrap - nread < 2 * Wrap
    BY <1>1
  <2> DEFINE x == nwrite + Wrap - nread
  <2>2. Count = x % Wrap
    BY DEF Count
  <2>3. (x < Wrap => x % Wrap = x) /\ (~(x < Wrap) => x % Wrap = x - Wrap)
    BY <1>1, <2>1, Once, Zenon
  <2>4. (x < Wrap => Count = x) /\ (~(x < Wrap) => Count = x - Wrap)
    BY <2>2, <2>3, Zenon
  <2> QED
    BY <1>1, <2>4
<1>3. nwrite % PIPESIZE = (nread + Count) % PIPESIZE
  <2>1. nwrite \in Nat /\ (nwrite = nread + Count \/ nwrite + Wrap = nread + Count)
    BY <1>1, <1>2
  <2>2. (nwrite + Wrap) % PIPESIZE = nwrite % PIPESIZE
    BY <1>1, <2>1, Multiple, Zenon
  <2> QED
    BY <2>1, <2>2, Zenon
<1>4. ASSUME NEW i \in 1 .. Wrap
      PROVE  ((nread + i - 1) % Wrap) % PIPESIZE = (nread + i - 1) % PIPESIZE
  <2> DEFINE x == nread + i - 1
  <2>1. x \in Nat /\ x < 2 * Wrap
    BY <1>1
  <2>2. x % Wrap = IF x < Wrap THEN x ELSE x - Wrap
    BY <1>1, <2>1, Once, Zenon
  <2> HIDE DEF x
  <2>3. CASE x < Wrap
    BY <2>2, <2>3, Zenon DEF x
  <2>4. CASE ~(x < Wrap)
    <3>1. x - Wrap \in Nat /\ (x - Wrap) + Wrap = x
      BY <1>1, <2>1, <2>4
    <3>2. ((x - Wrap) + Wrap) % PIPESIZE = (x - Wrap) % PIPESIZE
      BY <1>1, <3>1, Multiple, Zenon
    <3> QED
      BY <2>2, <2>4, <3>1, <3>2, Zenon DEF x
  <2> QED
    BY <2>3, <2>4
<1> QED
  BY <1>2, <1>3, <1>4

\* The bytes in transit, without the wrap-around.
LEMMA TransitShape ==
  ASSUME TypeOK
  PROVE  /\ InTransit = [i \in 1 .. Count |-> data[(nread + i - 1) % PIPESIZE]]
         /\ \A i \in 1 .. Wrap : data[(nread + i - 1) % PIPESIZE] \in Bytes
<1>1. /\ nread \in Nat /\ PIPESIZE \in Nat \ {0} /\ Wrap \in Nat
      /\ data \in [0 .. PIPESIZE - 1 -> Bytes]
  BY SizeAssumption DEF TypeOK
<1>2. \A i \in 1 .. Count : i \in 1 .. Wrap
  BY <1>1, RingShape
<1>3. InTransit = [i \in 1 .. Count |-> data[((nread + i - 1) % Wrap) % PIPESIZE]]
  BY Zenon DEF InTransit, Count
<1>4. ASSUME NEW i \in 1 .. Wrap
      PROVE  data[(nread + i - 1) % PIPESIZE] \in Bytes
  <2>1. nread + i - 1 \in Nat
    BY <1>1, SMTT(30)
  <2>2. (nread + i - 1) % PIPESIZE \in 0 .. PIPESIZE - 1
    BY <1>1, <2>1, Remainder, Zenon
  <2> QED
    BY <1>1, <2>2, Zenon
<1> QED
  BY <1>2, <1>3, <1>4, RingShape, Zenon

\* pipewrite's byte goes to the end of the queue, and overwrites none of it.
LEMMA WriteIsPut ==
  ASSUME TypeOK, TypeOK', QueueInv, NEW p \in Procs, NEW b \in Bytes, WriteByte(p, b)
  PROVE  QueueInv' /\ Queue!Put(b)
<1> DEFINE n == Count
           f == [i \in 1 .. n + 1 |-> data'[(nread + i - 1) % PIPESIZE]]
<1>1. /\ nread \in 0 .. Wrap - 1 /\ nwrite \in 0 .. Wrap - 1
      /\ PIPESIZE \in Nat \ {0} /\ Wrap \in Nat \ {0} /\ Wrap > PIPESIZE
      /\ data \in [0 .. PIPESIZE - 1 -> Bytes]
  BY SizeAssumption DEF TypeOK
<1>2. /\ nread' = nread /\ got' = got
      /\ nwrite' = (nwrite + 1) % Wrap
      /\ data' = [data EXCEPT ![nwrite % PIPESIZE] = b]
      /\ ~Full
  BY DEF WriteByte
<1>3. /\ n \in 0 .. Wrap - 1
      /\ n = IF nwrite >= nread THEN nwrite - nread ELSE nwrite + Wrap - nread
  BY RingShape, Zenon
<1>4. n < PIPESIZE
  <2>1. nread + PIPESIZE \in Nat /\ nread + PIPESIZE < 2 * Wrap
    BY <1>1
  <2> DEFINE x == nread + PIPESIZE
  <2>2. (x < Wrap => nwrite # x) /\ (~(x < Wrap) => nwrite # x - Wrap)
    <3>1. (x < Wrap => x % Wrap = x) /\ (~(x < Wrap) => x % Wrap = x - Wrap)
      BY <1>1, <2>1, Once, Zenon
    <3>2. nwrite # x % Wrap
      BY <1>2, Zenon DEF Full
    <3> QED
      BY <3>1, <3>2, Zenon
  <2>3. n <= PIPESIZE
    BY Zenon DEF QueueInv
  <2> HIDE DEF n
  <2> QED
    BY <1>1, <1>3, <2>2, <2>3
<1>5. Count' = n + 1
  <2>1. nwrite + 1 \in Nat /\ nwrite + 1 < 2 * Wrap
    BY <1>1
  <2> DEFINE x == nwrite + 1
  <2>2. (x < Wrap => nwrite' = x) /\ (~(x < Wrap) => nwrite' = x - Wrap)
    <3>1. (x < Wrap => x % Wrap = x) /\ (~(x < Wrap) => x % Wrap = x - Wrap)
      BY <1>1, <2>1, Once, Zenon
    <3> QED
      BY <1>2, <3>1, Zenon
  <2>3. (Count = IF nwrite >= nread THEN nwrite - nread ELSE nwrite + Wrap - nread)'
    BY RingShape, PTL
  <2> HIDE DEF Count
  <2> QED
    BY <1>1, <1>2, <1>3, <1>4, <2>2, <2>3, SMTT(30)
<1>6. nwrite % PIPESIZE = (nread + n) % PIPESIZE
  BY RingShape, Zenon
<1>7. \A i \in 1 .. n + 1 : f[i] = data'[(nread + i - 1) % PIPESIZE] /\ f[i] \in Bytes
  <2>1. (\A i \in 1 .. Wrap : data[(nread + i - 1) % PIPESIZE] \in Bytes)'
    BY TransitShape, PTL
  <2>2. \A i \in 1 .. n + 1 : i \in 1 .. Wrap
    BY <1>1, <1>3, <1>4
  <2> QED
    BY <1>2, <2>1, <2>2
<1>8. InTransit' = f
  <2>1. (InTransit = [i \in 1 .. Count |-> data[(nread + i - 1) % PIPESIZE]])'
    BY TransitShape, PTL
  <2> HIDE DEF Count
  <2> QED
    BY <1>2, <1>5, <2>1
<1>9. InTransit = [i \in 1 .. n |-> f[i]]
  <2>1. ASSUME NEW i \in 1 .. n
        PROVE  data[(nread + i - 1) % PIPESIZE] = f[i]
    <3>1. /\ nread + i - 1 \in Nat /\ n - i + 1 \in 1 .. PIPESIZE - 1
          /\ (nread + i - 1) + (n - i + 1) = nread + n
          /\ i \in 1 .. n + 1
      BY <1>1, <1>3, <1>4
    <3>2. (nread + i - 1) % PIPESIZE # nwrite % PIPESIZE
      BY <1>1, <1>6, <3>1, Distinct, Zenon
    <3>3. (nread + i - 1) % PIPESIZE \in 0 .. PIPESIZE - 1
      BY <1>1, <3>1, Remainder, Zenon
    <3>4. data'[(nread + i - 1) % PIPESIZE] = data[(nread + i - 1) % PIPESIZE]
      BY <1>1, <1>2, <3>2, <3>3, Zenon
    <3> QED
      BY <1>7, <3>1, <3>4, Zenon
  <2>2. InTransit = [i \in 1 .. n |-> data[(nread + i - 1) % PIPESIZE]]
    BY TransitShape, Zenon
  <2> QED
    BY <2>1, <2>2, Zenon
<1>10. f[n + 1] = b
  <2>1. n + 1 \in 1 .. n + 1 /\ nread + (n + 1) - 1 = nread + n
    BY <1>1, <1>3
  <2>2. nwrite % PIPESIZE \in 0 .. PIPESIZE - 1
    BY <1>1, Remainder
  <2> QED
    BY <1>1, <1>2, <1>6, <1>7, <2>1, <2>2, Zenon
<1>11. InTransit' = Append(InTransit, b) /\ Len(InTransit) = n
  <2>1. n \in Nat
    BY <1>3
  <2>2. f \in [1 .. n + 1 -> Bytes] /\ f = [i \in 1 .. n + 1 |-> f[i]]
    BY <1>7, Zenon
  <2> HIDE DEF f
  <2>3. f = Append([i \in 1 .. n |-> f[i]], f[n + 1])
    BY <2>1, <2>2, AppendFcn, Zenon
  <2>4. Len(InTransit) = n
    BY <1>9, <2>1
  <2> QED
    BY <1>8, <1>9, <1>10, <2>3, <2>4, Zenon
<1>12. QueueInv'
  BY <1>1, <1>3, <1>4, <1>5 DEF QueueInv
<1> QED
  BY <1>2, <1>4, <1>11, <1>12, Zenon DEF Queue!Put

\* piperead's byte is the oldest one, and the others stay.
LEMMA ReadIsGet ==
  ASSUME TypeOK, TypeOK', QueueInv, NEW p \in Procs, ReadByte(p)
  PROVE  QueueInv' /\ Queue!Get
<1> DEFINE n == Count
           f == [i \in 1 .. n |-> data[(nread + i - 1) % PIPESIZE]]
<1>1. /\ nread \in 0 .. Wrap - 1 /\ nwrite \in 0 .. Wrap - 1
      /\ PIPESIZE \in Nat \ {0} /\ Wrap \in Nat \ {0} /\ Wrap > PIPESIZE
  BY SizeAssumption DEF TypeOK
<1>2. /\ nwrite' = nwrite /\ data' = data
      /\ got' = data[nread % PIPESIZE]
      /\ nread' = (nread + 1) % Wrap
      /\ nread # nwrite
  BY DEF ReadByte, Empty
<1>3. /\ n \in 0 .. Wrap - 1
      /\ n = IF nwrite >= nread THEN nwrite - nread ELSE nwrite + Wrap - nread
  BY RingShape, Zenon
<1>4. \/ nread' = nread + 1 /\ nread + 1 < Wrap
      \/ nread' = 0 /\ nread + 1 = Wrap
  <2> DEFINE x == nread + 1
  <2>1. x \in Nat /\ x < 2 * Wrap
    BY <1>1
  <2>2. (x < Wrap => nread' = x) /\ (~(x < Wrap) => nread' = x - Wrap)
    <3>1. (x < Wrap => x % Wrap = x) /\ (~(x < Wrap) => x % Wrap = x - Wrap)
      BY <1>1, <2>1, Once, Zenon
    <3> QED
      BY <1>2, <3>1, Zenon
  <2> QED
    BY <1>1, <2>2
<1>5. n \in Nat \ {0} /\ Count' = n - 1
  <2>1. (Count = IF nwrite >= nread THEN nwrite - nread ELSE nwrite + Wrap - nread)'
    BY RingShape, PTL
  <2>2. nwrite # nread /\ nwrite' = nwrite
    BY <1>2
  <2> HIDE DEF Count, n
  <2> QED
    BY <1>1, <1>3, <1>4, <2>1, <2>2, SMTT(30)
<1>6. InTransit = f
  BY TransitShape, Zenon
<1>7. f \in [1 .. n -> Bytes]
  <2>1. \A i \in 1 .. n : i \in 1 .. Wrap
    BY <1>1, <1>3
  <2> QED
    BY <2>1, TransitShape, Zenon
<1>8. f # << >> /\ Head(f) = f[1] /\ Tail(f) = [i \in 1 .. n - 1 |-> f[i + 1]]
  <2> HIDE DEF n, f
  <2>1. n \in Nat \ {0}
    BY <1>5
  <2> QED
    BY <2>1, <1>7, TailFcn, ZenonT(40)
<1>9. got' = Head(InTransit)
  <2>1. 1 \in 1 .. n /\ nread + 1 - 1 = nread
    BY <1>1, <1>5
  <2>2. f[1] = data[(nread + 1 - 1) % PIPESIZE]
    BY <2>1, Zenon
  <2> QED
    BY <1>2, <1>6, <1>8, <2>1, <2>2, Zenon
<1>10. InTransit' = Tail(InTransit)
  <2>1. (InTransit = [i \in 1 .. Count |-> data[(nread + i - 1) % PIPESIZE]])'
    BY TransitShape, PTL
  <2>2. ASSUME NEW i \in 1 .. n - 1
        PROVE  data[(nread' + i - 1) % PIPESIZE] = f[i + 1]
    <3> DEFINE y == nread' + i - 1
    <3>1. /\ y \in Nat /\ i + 1 \in 1 .. n
          /\ nread + (i + 1) - 1 = y \/ nread + (i + 1) - 1 = y + Wrap
      <4> HIDE DEF n
      <4> QED
        BY <1>1, <1>4, <1>5
    <3>2. (y + Wrap) % PIPESIZE = y % PIPESIZE
      BY <1>1, <3>1, SizeAssumption, Multiple, Zenon
    <3>3. f[i + 1] = data[(nread + (i + 1) - 1) % PIPESIZE]
      BY <3>1, Zenon
    <3> QED
      BY <3>1, <3>2, <3>3, Zenon
  <2>3. InTransit' = [i \in 1 .. n - 1 |-> data[(nread' + i - 1) % PIPESIZE]]
    BY <1>2, <1>5, <2>1, Zenon
  <2>4. [i \in 1 .. n - 1 |-> data[(nread' + i - 1) % PIPESIZE]]
          = [i \in 1 .. n - 1 |-> f[i + 1]]
    <3> HIDE DEF n, f
    <3> QED
      BY <2>2, Zenon
  <2> HIDE DEF n, f
  <2> QED
    BY <1>6, <1>8, <2>3, <2>4, Zenon
<1>11. QueueInv'
  <2>1. n <= PIPESIZE
    BY Zenon DEF QueueInv
  <2> QED
    BY <1>1, <1>5, <2>1 DEF QueueInv
<1> QED
  BY <1>6, <1>8, <1>9, <1>10, <1>11, Zenon DEF Queue!Get

----------------------------------------------------------------------------

\* Who holds p->lock, what the ends count and why processes sleep, in every behaviour.
THEOREM Invariance == Spec => []IInv
<1>1. IInv /\ [Next]_vars => IInv'
  BY TypeStep, LockStep, EndStep, SleepStep DEF IInv
<1> QED
  BY <1>1, InitInv, PTL DEF Spec

\* pipeclose frees the pipe once, and not under a process that uses it.
THEOREM NeverUsedAfterFree == Spec => []NoUseAfterFree
<1>1. IInv => NoUseAfterFree
  <2> SUFFICES ASSUME IInv PROVE NoUseAfterFree
    OBVIOUS
  <2>1. /\ TypeOK /\ EndInv
        /\ pc \in [Procs -> Locations]
        /\ holds \in [Procs -> SUBSET Ends]
        /\ closing \in [Procs -> Ends]
    BY DEF IInv, TypeOK
  <2>2. ASSUME NEW p \in Procs, pc[p] = "close_lock"
        PROVE  ~freed
    BY <2>1, <2>2 DEF EndInv, Closing, Ends
  <2>3. ASSUME freed, NEW p \in Procs
        PROVE  pc[p] = "idle" /\ holds[p] = {}
    BY <2>1, <2>2, <2>3 DEF EndInv, Ends, Locations, Writing, Reading
  <2> QED
    BY <2>1, <2>2, <2>3 DEF NoUseAfterFree
<1> QED
  BY <1>1, Invariance, PTL

\* Nobody sleeps in pipewrite or piperead without a reason: no wakeup is lost.
THEOREM SleepersAlwaysHaveReason == Spec => []SleepersHaveReason
<1>1. IInv => SleepersHaveReason
  BY NoneAssumption DEF IInv, LockInv, Locked, SleepInv, SleepersHaveReason
<1> QED
  BY <1>1, Invariance, PTL

\* For every size of the ring and every multiple of it at which the counters wrap
\* around, pipewrite and piperead implement a bounded first-in first-out queue.
THEOREM PipeIsQueue == Spec => Fifo
<1>1. Init => QueueInv /\ Queue!Init
  <2> SUFFICES ASSUME Init PROVE QueueInv /\ Queue!Init
    OBVIOUS
  <2>1. nread = 0 /\ nwrite = 0 /\ got = NoByte /\ TypeOK
    BY InitInv DEF Init, IInv
  <2>2. Count = 0
    BY <2>1, RingShape
  <2>3. InTransit = [i \in 1 .. 0 |-> data[(nread + i - 1) % PIPESIZE]]
    BY <2>1, <2>2, TransitShape, Zenon
  <2>4. InTransit = << >>
    BY <2>3
  <2> QED
    BY <2>1, <2>2, <2>4, SizeAssumption DEF QueueInv, Queue!Init
<1>2. ASSUME TypeOK, TypeOK', QueueInv, [Next]_vars
      PROVE  QueueInv' /\ [Queue!Next]_(Queue!vars)
  <2>1. CASE \E p \in Procs, b \in Bytes : WriteByte(p, b)
    BY <1>2, <2>1, WriteIsPut, Zenon DEF Queue!Next
  <2>2. CASE \E p \in Procs : ReadByte(p)
    BY <1>2, <2>2, ReadIsGet, Zenon DEF Queue!Next
  <2>3. CASE UNCHANGED <<nread, nwrite, data, got>>
    <3>1. InTransit' = InTransit /\ Count' = Count /\ got' = got
      BY <2>3, Zenon DEF InTransit, Count
    <3> QED
      BY <1>2, <3>1, Zenon DEF QueueInv, Queue!vars
  <2>4. \/ \E p \in Procs, b \in Bytes : WriteByte(p, b)
        \/ \E p \in Procs : ReadByte(p)
        \/ UNCHANGED <<nread, nwrite, data, got>>
    <3>1. ASSUME NEW p \in Procs, Call(p)
          PROVE  UNCHANGED <<nread, nwrite, data, got>>
      BY <3>1, Zenon DEF Call, WriteCall, ReadCall, Close, Kill, pipe
    <3>2. ASSUME NEW p \in Procs, Step(p)
          PROVE  \/ \E b \in Bytes : WriteByte(p, b)
                 \/ ReadByte(p)
                 \/ UNCHANGED <<nread, nwrite, data, got>>
      BY <3>2, Zenon
      DEF Step, WriteLock, WriteFail, WriteBlock, WriteSleep, WriteReturn, ReadLock, ReadFail,
          ReadBlock, ReadSleep, ReadReady, ReadReturn, PipeClose, pipe, ring
    <3>3. CASE UNCHANGED vars
      BY <3>3, Zenon DEF vars
    <3> QED
      BY <1>2, <3>1, <3>2, <3>3, Zenon DEF Next
  <2> QED
    BY <2>1, <2>2, <2>3, <2>4, Zenon
<1>3. IInv => TypeOK
  BY DEF IInv
<1> QED
  BY <1>1, <1>2, <1>3, Invariance, PTL DEF Spec, Fifo, Queue!Spec
============================================================================
