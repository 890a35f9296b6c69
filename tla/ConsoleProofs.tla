---------------------------- MODULE ConsoleProofs ---------------------------
(***************************************************************************)
(* Console input for any ring, any number of readers on the two CPUs and   *)
(* any sizes of their reads: the invariant IInv, and from it that          *)
(* interrupts and cons.lock are used soundly, that nobody sleeps on input, *)
(* that init reads its answers as lines, and that the ring implements      *)
(* Terminal.                                                               *)
(*                                                                         *)
(* The parts of IInv rest on one another.  RingInv measures the three      *)
(* indices by their distances, which is what stays simple when they wrap;  *)
(* SleepInv and LoginInv need it for what a read finds.  CpuInv says which *)
(* of two states each CPU is in, by who is between acquire and release on  *)
(* it, and LockInv who has the lock; from both, no test in spinlock.c      *)
(* panics.                                                                 *)
(***************************************************************************)
EXTENDS Console, TLAPS

Idx == 0 .. U - 1
Bytes == Chars \cup {None}
Pcs == {"idle", "read", "cli", "spin", "held", "sleep", "done"}

Frame == [pc : Pcs, n : Int, got : Seq(Bytes), eflags : BOOLEAN]

Login == [at : {"username", "password", "shell", "disabled"}, attempts : Nat,
          flush : BOOLEAN, buffer : Seq(Bytes)]

\* A CPU inside acquire, between its pushcli and the popcli of release, and one outside.
Off(x) == [IF |-> FALSE, ncli |-> 1, intena |-> x]
On(x) == [IF |-> TRUE, ncli |-> 0, intena |-> x]
Cpu == {On(x) : x \in BOOLEAN} \cup {Off(x) : x \in BOOLEAN}

TypeInv ==
  /\ r \in Idx /\ w \in Idx /\ e \in Idx
  /\ buf \in [0 .. INPUT_BUF - 1 -> Bytes]
  /\ rd \in [Readers -> Frame]
  /\ cpu \in [{0, 1} -> Cpu]
  /\ login \in Login
  /\ intr \in {"none", "spin", "held"}
  /\ killed \subseteq Users

Taken(c) == [locked |-> TRUE, cpu |-> c]

\* p has interrupts off, because of cons.lock.
Inside(p) == rd[p].pc \in {"spin", "held"}
Outside(c) == (c = 0 => intr = "none") /\ \A p \in Readers : CpuOf(p) = c => ~Inside(p)

\* On each CPU one process or the handler at most is between acquire and release, and
\* what the CPU and the lock record is true of it.
CpuInv ==
  /\ \A p, q \in Readers : Inside(p) /\ Inside(q) /\ CpuOf(p) = CpuOf(q) => p = q
  /\ \A p \in Readers : Inside(p) => (CpuOf(p) = 0 => intr = "none") /\ cpu[CpuOf(p)] = Off(TRUE)
  /\ intr # "none" => cpu[0] = Off(FALSE)
  /\ \A c \in {0, 1} : Outside(c) => \E x \in BOOLEAN : cpu[c] = On(x)
  /\ \A p \in Readers : rd[p].pc = "cli" => rd[p].eflags = TRUE

LockInv ==
  /\ \A p \in Readers : rd[p].pc = "held" => lk = Taken(CpuOf(p))
  /\ intr = "held" => lk = Taken(0)
  /\ lk = initlock \/ intr = "held" \/ \E p \in Readers : rd[p].pc = "held"

\* What can be read and what can be edited fill the ring at most, and then all of it can
\* be read; and no newline can be edited.
RingInv ==
  /\ Minus(w, r) + Minus(e, w) <= INPUT_BUF
  /\ Minus(w, r) + Minus(e, w) = INPUT_BUF => Minus(e, w) = 0
  /\ \A k \in 0 .. Minus(e, w) - 1 : buf[Plus(w, k) % INPUT_BUF] # NL

SleepInv == \A p \in Readers : rd[p].pc = "sleep" => r = w /\ p \notin killed

\* The login has read to the end of a line.
EndOfLine == last \in {None, NL, EOT} \/ (r # w /\ buf[r % INPUT_BUF] = EOT)

Asking == login.at \in {"username", "password"}
Requested == IF login.flush THEN 1 ELSE SIZE - 1

\* Only init reads before the login, and a read of it that comes to its end without a
\* full buffer has reached the end of the line.
LoginInv ==
  /\ \A p \in Users : login.at # "shell" => rd[p].pc = "idle"
  /\ ~Asking => rd[Init1].pc = "idle"
  /\ Asking =>
       /\ rd[Init1].pc = "idle" => EndOfLine
       /\ rd[Init1].pc \notin {"idle", "done"} =>
            rd[Init1].n > 0 /\ rd[Init1].n + Len(rd[Init1].got) = Requested
       /\ rd[Init1].pc = "done" =>
            \/ EndOfLine
            \/ Len(rd[Init1].got) = Requested /\ (login.flush => rd[Init1].got = <<last>>)

IInv == TypeInv /\ CpuInv /\ LockInv /\ ~panicked /\ RingInv /\ SleepInv /\ LoginInv

\* Division leaves a remainder that the divisor bounds.
LEMMA ModDiv ==
  ASSUME NEW M \in Nat \ {0}, NEW x \in Nat
  PROVE  x % M \in 0 .. M - 1 /\ \E q \in Nat : x = M * q + (x % M)
<1>1. x % M = x - M * (x \div M) /\ x % M \in 0 .. M - 1
  OBVIOUS
<1>2. x \div M \in Nat
  OBVIOUS
<1>3. x = M * (x \div M) + (x % M)
  BY <1>1, <1>2
<1> QED
  BY <1>1, <1>2, <1>3, Zenon

\* Only one number below the divisor can be the remainder.
LEMMA ModOf ==
  ASSUME NEW M \in Nat \ {0}, NEW q \in Nat, NEW y \in 0 .. M - 1
  PROVE  (M * q + y) % M = y
  OBVIOUS

\* Adding the wrap-around does not change the slot of the ring.
LEMMA SlotWraps ==
  ASSUME NEW M \in Nat \ {0}, NEW W \in Nat, W % M = 0, NEW x \in Nat
  PROVE  (x + W) % M = x % M
<1> DEFINE y == x % M
<1>1. PICK k \in Nat : W = M * k + (W % M)
  BY ModDiv, Zenon
<1>2. /\ y \in 0 .. M - 1
      /\ \E q \in Nat : x = M * q + y
  BY ModDiv, Zenon
<1> HIDE DEF y
<1>3. PICK q \in Nat : x = M * q + y
  BY <1>2
<1>4. q + k \in Nat /\ x + W = M * (q + k) + y
  BY <1>1, <1>2, <1>3
<1>5. (M * (q + k) + y) % M = y
  BY <1>2, <1>4, ModOf, Zenon
<1> QED
  BY <1>4, <1>5, Zenon DEF y

\* Two counters less than the size of the ring apart have different slots.
LEMMA SlotsDiffer ==
  ASSUME NEW M \in Nat \ {0}, NEW x \in Nat, NEW d \in 1 .. M - 1
  PROVE  (x + d) % M # x % M
<1> DEFINE y == x % M
<1>1. /\ y \in 0 .. M - 1
      /\ \E q \in Nat : x = M * q + y
  BY ModDiv, Zenon
<1> HIDE DEF y
<1>2. PICK q \in Nat : x = M * q + y
  BY <1>1
<1>3. CASE y + d < M
  <2>1. y + d \in 0 .. M - 1 /\ x + d = M * q + (y + d)
    BY <1>1, <1>2, <1>3
  <2>2. (x + d) % M = y + d
    BY <2>1, ModOf, Zenon
  <2> QED
    BY <1>1, <2>2 DEF y
<1>4. CASE ~(y + d < M)
  <2>1. q + 1 \in Nat /\ y + d - M \in 0 .. M - 1 /\ x + d = M * (q + 1) + (y + d - M)
    BY <1>1, <1>2, <1>4
  <2>2. (x + d) % M = y + d - M
    BY <2>1, ModOf, Zenon
  <2> QED
    BY <1>1, <2>2 DEF y
<1> QED
  BY <1>3, <1>4, Zenon

\* Index arithmetic wraps around at most once.
LEMMA WrapsOnce ==
  ASSUME NEW M \in Nat \ {0}, NEW x \in Nat, x < 2 * M
  PROVE  (x < M => x % M = x) /\ (~(x < M) => x % M = x - M)
  OBVIOUS

\* The wrap-around has room for the ring twice.
LEMMA Sized ==
  /\ U \in Nat \ {0} /\ INPUT_BUF \in Nat \ {0} /\ INPUT_BUF < U /\ U % INPUT_BUF = 0
<1>1. /\ INPUT_BUF \in Nat \ {0} /\ U \in Nat /\ U % INPUT_BUF = 0 /\ U >= 2 * INPUT_BUF
  BY ConsoleAssumption
<1> QED
  BY <1>1

\* An index wraps around once at most, forward
LEMMA PlusIs ==
  ASSUME NEW i \in Idx, NEW k \in 0 .. U
  PROVE  Plus(i, k) = IF i + k < U THEN i + k ELSE i + k - U
<1> DEFINE x == i + k
<1>1. U \in Nat \ {0} /\ x \in Nat /\ x < 2 * U
  BY Sized DEF Idx
<1> HIDE DEF x
<1>2. (x < U => x % U = x) /\ (~(x < U) => x % U = x - U)
  BY <1>1, WrapsOnce, Zenon
<1>3. Plus(i, k) = x % U
  BY DEF Plus, x
<1>4. Plus(i, k) = IF x < U THEN x ELSE x - U
  BY <1>2, <1>3, Zenon
<1> QED
  BY <1>1, <1>4, Sized DEF x, Idx

\* and backward.
LEMMA MinusIs ==
  ASSUME NEW i \in Idx, NEW k \in 0 .. U
  PROVE  Minus(i, k) = IF i < k THEN i + U - k ELSE i - k
<1> DEFINE x == i + U - k
<1>1. U \in Nat \ {0} /\ x \in Nat /\ x < 2 * U
  BY Sized DEF Idx
<1> HIDE DEF x
<1>2. (x < U => x % U = x) /\ (~(x < U) => x % U = x - U)
  BY <1>1, WrapsOnce, Zenon
<1>3. Minus(i, k) = x % U
  BY DEF Minus, x
<1> QED
  BY <1>1, <1>2, <1>3 DEF Idx, x

\* Going forward twice, and the way back.
LEMMA PlusPlus ==
  ASSUME NEW i \in Idx, NEW k \in Nat, NEW m \in Nat, k + m < U
  PROVE  /\ Plus(i, k) \in Idx /\ Plus(i, 0) = i
         /\ Plus(Plus(i, k), m) = Plus(i, k + m)
<1>1. U \in Nat /\ k \in 0 .. U /\ m \in 0 .. U /\ k + m \in 0 .. U /\ 0 \in 0 .. U
  BY Sized
<1>2. Plus(i, k) = IF i + k < U THEN i + k ELSE i + k - U
  BY <1>1, PlusIs, Zenon
<1>3. Plus(i, k) \in Idx
  BY <1>1, <1>2 DEF Idx
<1>4. Plus(Plus(i, k), m) = IF Plus(i, k) + m < U THEN Plus(i, k) + m ELSE Plus(i, k) + m - U
  BY <1>1, <1>3, PlusIs, Zenon
<1>5. Plus(i, k + m) = IF i + (k + m) < U THEN i + (k + m) ELSE i + (k + m) - U
  BY <1>1, PlusIs, Zenon
<1>6. Plus(i, 0) = IF i + 0 < U THEN i + 0 ELSE i + 0 - U
  BY <1>1, PlusIs, Zenon
<1> QED
  BY <1>1, <1>2, <1>3, <1>4, <1>5, <1>6 DEF Idx

\* Going forward and then back, and the distance between two indices ahead of i.
LEMMA Back ==
  ASSUME NEW i \in Idx, NEW k \in Nat, NEW m \in Nat, NEW j \in Nat, k = m + j, k < U
  PROVE  /\ Minus(Plus(i, k), m) = Plus(i, j)
         /\ Minus(Plus(i, k), Plus(i, m)) = j
         /\ Plus(i, k) = Plus(i, m) => j = 0
<1>1. U \in Nat /\ k \in 0 .. U /\ m \in 0 .. U /\ j \in 0 .. U
  BY Sized
<1>2. Plus(i, k) = IF i + k < U THEN i + k ELSE i + k - U
  BY <1>1, PlusIs, Zenon
<1>3. Plus(i, m) = IF i + m < U THEN i + m ELSE i + m - U
  BY <1>1, PlusIs, Zenon
<1>4. Plus(i, j) = IF i + j < U THEN i + j ELSE i + j - U
  BY <1>1, PlusIs, Zenon
<1>5. Plus(i, k) \in Idx /\ Plus(i, m) \in 0 .. U
  BY <1>1, <1>2, <1>3 DEF Idx
<1>6. Minus(Plus(i, k), m) = IF Plus(i, k) < m THEN Plus(i, k) + U - m ELSE Plus(i, k) - m
  BY <1>1, <1>5, MinusIs, Zenon
<1>7. Minus(Plus(i, k), Plus(i, m)) = IF Plus(i, k) < Plus(i, m) THEN Plus(i, k) + U - Plus(i, m)
                                      ELSE Plus(i, k) - Plus(i, m)
  BY <1>5, MinusIs, Zenon
<1> QED
  BY <1>1, <1>2, <1>3, <1>4, <1>5, <1>6, <1>7 DEF Idx

\* The distance of two indices leads from one to the other.
LEMMA Distance ==
  ASSUME NEW i \in Idx, NEW j \in Idx
  PROVE  Minus(j, i) \in 0 .. U - 1 /\ Plus(i, Minus(j, i)) = j
<1>1. U \in Nat /\ i \in 0 .. U
  BY Sized DEF Idx
<1>2. Minus(j, i) = IF j < i THEN j + U - i ELSE j - i
  BY <1>1, MinusIs, Zenon
<1>3. Minus(j, i) \in 0 .. U - 1 /\ Minus(j, i) \in 0 .. U
  BY <1>1, <1>2 DEF Idx
<1>4. Plus(i, Minus(j, i)) = IF i + Minus(j, i) < U THEN i + Minus(j, i) ELSE i + Minus(j, i) - U
  BY <1>3, PlusIs, Zenon
<1> QED
  BY <1>1, <1>2, <1>3, <1>4 DEF Idx

\* Indices at distances a and d, as the ring invariant measures them.
LEMMA Measure ==
  ASSUME NEW i \in Idx, NEW a \in Nat, NEW d \in Nat, a + d <= INPUT_BUF
  PROVE  /\ Plus(i, a) \in Idx /\ Plus(i, a + d) \in Idx /\ Plus(i, 0) = i
         /\ Minus(Plus(i, a), i) = a
         /\ Minus(Plus(i, a + d), Plus(i, a)) = d
         /\ Plus(Plus(i, a), d) = Plus(i, a + d)
<1>1. /\ a + d \in Nat /\ a + d < U /\ a < U /\ 0 \in Nat /\ a + 0 < U /\ (a + d) + 0 < U
      /\ a = 0 + a
  BY Sized
<1>2. Plus(i, a) \in Idx /\ Plus(i, 0) = i /\ Plus(Plus(i, a), d) = Plus(i, a + d)
  BY <1>1, PlusPlus, Zenon
<1>3. Plus(i, a + d) \in Idx
  BY <1>1, PlusPlus, Zenon
<1>4. Minus(Plus(i, a), Plus(i, 0)) = a
  BY <1>1, Back, SMT
<1>5. Minus(Plus(i, a + d), Plus(i, a)) = d
  BY <1>1, Back, SMT
<1> QED
  BY <1>1, <1>2, <1>3, <1>4, <1>5, Zenon

\* Successive indices, as many as the ring has slots, use each slot once.
LEMMA SlotOnce ==
  ASSUME NEW i \in Idx, NEW k \in Nat, NEW m \in Nat, k < m, m - k < INPUT_BUF, m < U
  PROVE  Plus(i, k) % INPUT_BUF # Plus(i, m) % INPUT_BUF
<1>1. ASSUME NEW n \in Nat, n < U
      PROVE  Plus(i, n) % INPUT_BUF = (i + n) % INPUT_BUF
  <2>1. Plus(i, n) = IF i + n < U THEN i + n ELSE i + n - U
    BY <1>1, PlusIs, Sized
  <2>2. Plus(i, n) \in Nat
    BY <1>1, <2>1, Sized DEF Idx
  <2>3. (Plus(i, n) + U) % INPUT_BUF = Plus(i, n) % INPUT_BUF
    BY <2>2, Sized, SlotWraps, Zenon
  <2>4. i + n = Plus(i, n) \/ i + n = Plus(i, n) + U
    BY <1>1, <2>1, Sized DEF Idx
  <2> QED
    BY <2>3, <2>4, Zenon
<1>2. i + k \in Nat /\ m - k \in 1 .. INPUT_BUF - 1 /\ (i + k) + (m - k) = i + m /\ k < U
  BY Sized DEF Idx
<1>3. ((i + k) + (m - k)) % INPUT_BUF # (i + k) % INPUT_BUF
  BY <1>2, Sized, SlotsDiffer, Zenon
<1>4. (i + m) % INPUT_BUF # (i + k) % INPUT_BUF
  BY <1>2, <1>3, Zenon
<1> QED
  BY <1>1, <1>2, <1>4, Zenon

\* A slot of the ring.
LEMMA Slot ==
  ASSUME NEW i \in Idx
  PROVE  i % INPUT_BUF \in 0 .. INPUT_BUF - 1
<1>1. i \in Nat
  BY Sized DEF Idx
<1> QED
  BY <1>1, Sized, ModDiv, Zenon

\* The least of a set is its minimum.
LEMMA MinIs ==
  ASSUME NEW S \in SUBSET Nat, NEW x \in S, \A y \in S : x <= y
  PROVE  Min(S) = x
<1>1. ASSUME NEW z \in S, \A y \in S : z <= y
      PROVE  z = x
  BY <1>1
<1> QED
  BY <1>1, Zenon DEF Min

\* What a step does to the read calls: only p's changes, and it keeps what it has read.
Others(p) == rd' \in [Readers -> Frame] /\ \A q \in Readers \ {p} : rd'[q] = rd[q]
Same(p) == rd'[p].n = rd[p].n /\ rd'[p].got = rd[p].got

\* The processes that read.
LEMMA Members == Users \subseteq Readers /\ Killable \subseteq Readers /\ Init1 \in Readers
BY ConsoleAssumption DEF Readers

\* The call of a read, and its end.
LEMMA Records ==
  /\ Idle \in Frame /\ Idle.pc = "idle"
  /\ \A n \in Int : Call(n) \in Frame /\ Call(n).pc = "read" /\ Call(n).n = n /\ Call(n).got = << >>
<1>1. << >> \in Seq(Bytes)
  OBVIOUS
<1>2. Idle \in Frame /\ Idle.pc = "idle"
  BY <1>1, SMT DEF Idle, Frame, Pcs
<1>3. ASSUME NEW n \in Int
      PROVE  Call(n) \in Frame /\ Call(n).pc = "read" /\ Call(n).n = n /\ Call(n).got = << >>
  <2>1. Call(n) \in Frame
    BY <1>2, Zenon DEF Call, Frame, Pcs
  <2>2. Call(n).pc = "read" /\ Call(n).n = n /\ Call(n).got = << >>
    BY SMT DEF Call, Idle
  <2> QED
    BY <2>1, <2>2
<1> QED
  BY <1>2, <1>3, Zenon

\* A step that replaces one call, or a field of it, changes no other call.
LEMMA PutIn ==
  ASSUME NEW g \in [Readers -> Frame], NEW p \in Readers, NEW f \in Frame,
         rd' = [g EXCEPT ![p] = f], \A q \in Readers \ {p} : g[q] = rd[q]
  PROVE  Others(p) /\ rd'[p] = f
BY Zenon DEF Others

\* The call of p is replaced as a whole.
LEMMA Put ==
  ASSUME TypeInv, NEW p \in Readers, NEW f \in Frame, rd' = [rd EXCEPT ![p] = f]
  PROVE  Others(p) /\ rd'[p] = f
BY PutIn, Zenon DEF TypeInv

\* p goes on to another location,
LEMMA MoveTo ==
  ASSUME TypeInv, NEW p \in Readers, NEW c \in Pcs, rd' = [rd EXCEPT ![p].pc = c]
  PROVE  Others(p) /\ Same(p) /\ rd'[p].pc = c /\ rd'[p].eflags = rd[p].eflags
<1> DEFINE f == [rd[p] EXCEPT !.pc = c]
<1>1. rd \in [Readers -> Frame]
  BY DEF TypeInv
<1>2. rd[p] \in Frame
  BY <1>1
<1>3. rd' = [rd EXCEPT ![p] = f]
  BY Zenon
<1>4. f \in Frame
  BY <1>2, Zenon DEF Frame
<1>5. f.pc = c /\ f.n = rd[p].n /\ f.got = rd[p].got /\ f.eflags = rd[p].eflags
  BY <1>2, SMT DEF Frame
<1> HIDE DEF f
<1>6. Others(p) /\ rd'[p] = f
  BY <1>1, <1>3, <1>4, PutIn, Zenon
<1> QED
  BY <1>5, <1>6, Zenon DEF Same

\* which in pushcli comes with the flags read,
LEMMA MoveBoth ==
  ASSUME TypeInv, NEW p \in Readers, NEW c \in Pcs, NEW x \in BOOLEAN,
         rd' = [rd EXCEPT ![p].pc = c, ![p].eflags = x]
  PROVE  Others(p) /\ Same(p) /\ rd'[p].pc = c /\ rd'[p].eflags = x
<1> DEFINE g == [rd EXCEPT ![p].pc = c]
           f == [g[p] EXCEPT !.eflags = x]
<1>1. rd \in [Readers -> Frame]
  BY DEF TypeInv
<1>2. g \in [Readers -> Frame] /\ \A q \in Readers \ {p} : g[q] = rd[q]
  BY <1>1, SMTT(30) DEF Frame
<1>3. g[p].n = rd[p].n /\ g[p].got = rd[p].got /\ g[p].pc = c
  BY <1>1, SMTT(30) DEF Frame
<1>4. rd' = [g EXCEPT ![p] = f]
  BY Zenon
<1> HIDE DEF g
<1>5. f \in Frame
  BY <1>2, Zenon DEF Frame
<1>6. f.eflags = x
  BY <1>2, Zenon DEF Frame
<1>7. f.pc = g[p].pc /\ f.n = g[p].n /\ f.got = g[p].got
  BY <1>2, SMT DEF Frame
<1> HIDE DEF f
<1>8. Others(p) /\ rd'[p] = f
  BY <1>2, <1>4, <1>5, PutIn, Zenon
<1> QED
  BY <1>3, <1>6, <1>7, <1>8, Zenon DEF Same

\* and in consoleread with the bytes read.
LEMMA MoveOn ==
  ASSUME TypeInv, NEW p \in Readers, NEW m \in Int, NEW b \in Seq(Bytes),
         rd' = [rd EXCEPT ![p].n = m, ![p].got = b]
  PROVE  Others(p) /\ rd'[p].pc = rd[p].pc /\ rd'[p].n = m /\ rd'[p].got = b
<1> DEFINE h == [rd[p] EXCEPT !.n = m]
           g == [rd EXCEPT ![p] = h]
           f == [h EXCEPT !.got = b]
<1>1. rd \in [Readers -> Frame]
  BY DEF TypeInv
<1>2. h \in Frame
  BY <1>1, Zenon DEF Frame
<1>3. h.n = m /\ h.pc = rd[p].pc
  BY <1>1, SMT DEF Frame
<1>4. rd' = [g EXCEPT ![p] = f]
  BY <1>1
<1> HIDE DEF h
<1>5. f \in Frame
  BY <1>2, Zenon DEF Frame
<1>6. f.got = b /\ f.pc = h.pc /\ f.n = h.n
  BY <1>2, SMT DEF Frame
<1> HIDE DEF f
<1>7. g \in [Readers -> Frame] /\ \A q \in Readers \ {p} : g[q] = rd[q]
  BY <1>1, <1>2, SMT
<1> HIDE DEF g
<1>8. Others(p) /\ rd'[p] = f
  BY <1>4, <1>5, <1>7, PutIn, Zenon
<1> QED
  BY <1>3, <1>6, <1>8, Zenon

\* readeflags, in pushcli
LEMMA ReadFlagsMoves ==
  ASSUME TypeInv, NEW p \in Readers, ReadFlags(p)
  PROVE  /\ Others(p) /\ Same(p)
         /\ rd'[p].pc = "cli" /\ rd'[p].eflags = cpu[CpuOf(p)].IF
<1>1. cpu[CpuOf(p)] \in Cpu
  BY DEF TypeInv, CpuOf
<1>2. ASSUME NEW s \in Cpu PROVE s.IF \in BOOLEAN
  <2>1. PICK x \in BOOLEAN : s = On(x) \/ s = Off(x)
    BY Zenon DEF Cpu
  <2>2. On(x).IF = TRUE /\ Off(x).IF = FALSE
    BY Zenon DEF On, Off
  <2> QED
    BY <2>1, <2>2, Zenon
<1>3. cpu[CpuOf(p)].IF \in BOOLEAN
  BY <1>1, <1>2, Zenon
<1> QED
  BY <1>3, MoveBoth, Zenon DEF ReadFlags, Pcs

\* cli, in pushcli
LEMMA CliMoves ==
  ASSUME TypeInv, NEW p \in Readers, Cli(p)
  PROVE  Others(p) /\ Same(p) /\ rd'[p].pc = "spin"
  BY MoveBoth, Zenon DEF Cli, Pcs

\* xchg, in acquire
LEMMA XchgMoves ==
  ASSUME TypeInv, NEW p \in Readers, Xchg(p)
  PROVE  Others(p) /\ Same(p) /\ rd'[p].pc = "held"
BY MoveTo, Zenon DEF Xchg, Pcs

\* kill sends a sleeper back to the loop of consoleread, and moves nobody else.
LEMMA KillMoves ==
  ASSUME TypeInv, NEW p \in Readers, Kill(p)
  PROVE  /\ Others(p) /\ Same(p) /\ rd'[p].eflags = rd[p].eflags
         /\ rd'[p].pc = IF rd[p].pc = "sleep" THEN "read" ELSE rd[p].pc
<1> DEFINE c == IF rd[p].pc = "sleep" THEN "read" ELSE rd[p].pc
<1>1. c \in Pcs
  BY DEF TypeInv, Frame, Pcs
<1>2. rd' = [rd EXCEPT ![p].pc = c]
  BY Zenon DEF Kill
<1> HIDE DEF c
<1> QED
  BY <1>1, <1>2, MoveTo, Zenon DEF c

\* wakeup sends every sleeper back to the loop of consoleread, and moves nobody else.
LEMMA WakeupMoves ==
  ASSUME TypeInv, Wakeup
  PROVE  /\ rd' \in [Readers -> Frame]
         /\ \A q \in Readers : /\ Same(q) /\ rd'[q].eflags = rd[q].eflags
                               /\ rd'[q].pc = IF rd[q].pc = "sleep" THEN "read" ELSE rd[q].pc
<1> DEFINE woken(q) == IF rd[q].pc = "sleep" THEN [rd[q] EXCEPT !.pc = "read"] ELSE rd[q]
<1>1. rd \in [Readers -> Frame]
  BY DEF TypeInv
<1>2. ASSUME NEW q \in Readers
      PROVE  /\ woken(q) \in Frame
             /\ woken(q).n = rd[q].n /\ woken(q).got = rd[q].got
             /\ woken(q).eflags = rd[q].eflags
             /\ woken(q).pc = IF rd[q].pc = "sleep" THEN "read" ELSE rd[q].pc
  <2> DEFINE f == [rd[q] EXCEPT !.pc = "read"]
  <2>1. rd[q] \in Frame
    BY <1>1
  <2>2. "read" \in Pcs
    BY DEF Pcs
  <2>3. f \in Frame
    BY <2>1, <2>2, Zenon DEF Frame
  <2>4. f.pc = "read" /\ f.n = rd[q].n /\ f.got = rd[q].got /\ f.eflags = rd[q].eflags
    BY <2>1, SMT DEF Frame
  <2> HIDE DEF f
  <2>5. woken(q) = IF rd[q].pc = "sleep" THEN f ELSE rd[q]
    BY Zenon DEF f
  <2> QED
    BY <2>1, <2>3, <2>4, <2>5, Zenon
<1>3. rd' = [q \in Readers |-> woken(q)]
  BY Zenon DEF Wakeup
<1> HIDE DEF woken
<1>4. rd' \in [Readers -> Frame] /\ \A q \in Readers : rd'[q] = woken(q)
  BY <1>2, <1>3, Zenon
<1> QED
  BY <1>2, <1>4, Zenon DEF Same

\* The calls of read, and the returns from them
LEMMA CallMoves ==
  ASSUME TypeInv
  PROVE  /\ GetInput => Others(Init1) /\ rd'[Init1] = Call(SIZE - 1)
         /\ Flush => Others(Init1) /\ rd'[Init1] = Call(1)
         /\ \A p \in Users : UserRead(p) => Others(p) /\ rd'[p].pc = "read"
         /\ Answer => Others(Init1) /\ rd'[Init1] = Idle
         /\ \A p \in Users : UserReturn(p) \/ ReadKilled(p) => Others(p) /\ rd'[p] = Idle
<1>1. SIZE - 1 \in Int /\ 1 \in Int /\ Sizes \subseteq Int
  BY ConsoleAssumption
<1>2. GetInput => Others(Init1) /\ rd'[Init1] = Call(SIZE - 1)
  <2> HAVE GetInput
  <2>1. rd' = [rd EXCEPT ![Init1] = Call(SIZE - 1)]
    BY Zenon DEF GetInput
  <2> QED
    BY <1>1, <2>1, Records, Put, Members, Zenon
<1>3. Flush => Others(Init1) /\ rd'[Init1] = Call(1)
  <2> HAVE Flush
  <2>1. rd' = [rd EXCEPT ![Init1] = Call(1)]
    BY Zenon DEF Flush
  <2> QED
    BY <1>1, <2>1, Records, Put, Members, Zenon
<1>4. \A p \in Users : UserRead(p) => Others(p) /\ rd'[p].pc = "read"
  <2> TAKE p \in Users
  <2> HAVE UserRead(p)
  <2>1. PICK n \in Sizes : rd' = [rd EXCEPT ![p] = Call(n)]
    BY Zenon DEF UserRead
  <2> QED
    <3>1. Call(n) \in Frame /\ Call(n).pc = "read"
      BY <1>1, Records, Zenon
    <3> QED
      BY <2>1, <3>1, Put, Members, Zenon
<1>5. Answer => Others(Init1) /\ rd'[Init1] = Idle
  BY Records, Put, Members, Zenon DEF Answer
<1>6. \A p \in Users : UserReturn(p) \/ ReadKilled(p) => Others(p) /\ rd'[p] = Idle
  BY Records, Put, Members, Zenon DEF UserReturn, ReadKilled
<1> QED
  BY <1>2, <1>3, <1>4, <1>5, <1>6, Zenon

\* The sizes that init asks for are numbers.
LEMMA IntSize == SIZE - 1 \in Int /\ 1 \in Int
BY ConsoleAssumption

\* A byte of the ring.
LEMMA Stored ==
  ASSUME TypeInv, NEW i \in Idx, NEW k \in 0 .. INPUT_BUF
  PROVE  buf[Plus(i, k) % INPUT_BUF] \in Bytes
<1>1. k \in Nat /\ 0 \in Nat /\ k + 0 < U
  BY Sized
<1>2. Plus(i, k) \in Idx
  BY <1>1, PlusPlus, Zenon
<1>3. Plus(i, k) % INPUT_BUF \in 0 .. INPUT_BUF - 1
  BY <1>2, Slot, Zenon
<1> QED
  BY <1>3, Zenon DEF TypeInv

\* How far apart the indices are.
LEMMA Shape ==
  ASSUME TypeInv, RingInv
  PROVE  /\ r \in Idx /\ w \in Idx /\ e \in Idx
         /\ Minus(w, r) \in 0 .. INPUT_BUF /\ Minus(e, w) \in 0 .. INPUT_BUF
         /\ w = Plus(r, Minus(w, r)) /\ e = Plus(w, Minus(e, w))
         /\ e = Plus(r, Minus(w, r) + Minus(e, w))
         /\ Minus(e, r) = Minus(w, r) + Minus(e, w)
         /\ \A k \in 0 .. Minus(e, w) : Plus(w, k) = Plus(r, Minus(w, r) + k)
<1> DEFINE a == Minus(w, r)
           d == Minus(e, w)
<1>1. r \in Idx /\ w \in Idx /\ e \in Idx
  BY DEF TypeInv
<1>2. a \in 0 .. U - 1 /\ w = Plus(r, a) /\ d \in 0 .. U - 1 /\ e = Plus(w, d)
  BY <1>1, Distance, Zenon
<1>3. a + d <= INPUT_BUF
  BY DEF RingInv
<1> HIDE DEF a, d
<1>4. /\ a \in 0 .. INPUT_BUF /\ d \in 0 .. INPUT_BUF /\ a \in Nat /\ d \in 0 .. d
      /\ a + d \in Nat /\ 0 \in Nat /\ (a + d) + 0 <= INPUT_BUF
  BY <1>2, <1>3, Sized
<1>5. ASSUME NEW k \in 0 .. d
      PROVE  Plus(w, k) = Plus(r, a + k)
  <2>1. k \in Nat /\ a + k <= INPUT_BUF
    BY <1>3, <1>4, Sized
  <2> QED
    BY <1>1, <1>2, <1>4, <2>1, Measure, SMT
<1>6. e = Plus(r, a + d)
  BY <1>2, <1>4, <1>5, Zenon
<1>7. Minus(Plus(r, a + d), r) = a + d
  BY <1>1, <1>4, Measure, SMT
<1> QED
  BY <1>1, <1>2, <1>4, <1>5, <1>6, <1>7, Zenon DEF a, d

\* The loop of consoleread: how many characters it takes, and why it ends.
LEMMA ReadMoves ==
  ASSUME TypeInv, RingInv, NEW p \in Readers, Read(p)
  PROVE  \E used \in 0 .. Minus(w, r) :
           /\ r' = Plus(r, used) /\ UNCHANGED <<w, e, buf, killed, login>>
           /\ \A i \in 1 .. used - 1 : Between(r, w)[i] \notin {NL, EOT}
           /\ last' = IF p # Init1 \/ used = 0 THEN last ELSE Between(r, w)[used]
           /\ Others(p)
           /\ \/ /\ p \in killed /\ UNCHANGED spin
                 /\ rd'[p].pc = "held"
              \/ /\ Release(CpuOf(p)) /\ UNCHANGED intr
                 /\ rd'[p].pc \in {"sleep", "done"}
           /\ rd'[p].pc = "sleep" => used = Minus(w, r) /\ p \notin killed
           /\ rd'[p].pc # "done" =>
                /\ rd'[p].n = rd[p].n - used
                /\ rd[p].n > 0 => used < rd[p].n
                /\ Len(rd'[p].got) = Len(rd[p].got) + used
           /\ rd'[p].pc = "done" =>
                \/ used > 0 /\ Between(r, w)[used] \in {NL, EOT}
                \/ used < Minus(w, r) /\ buf[Plus(r, used) % INPUT_BUF] = EOT
                \/ /\ used > 0 /\ used = rd[p].n
                   /\ Len(rd'[p].got) = Len(rd[p].got) + used
                   /\ rd[p].got = << >> /\ used = 1 => rd'[p].got = <<Between(r, w)[used]>>
<1> DEFINE avail == [i \in 1 .. Minus(w, r) |-> buf[Plus(r, i - 1) % INPUT_BUF]]
           ends == {i \in 1 .. Len(avail) : avail[i] \in {NL, EOT} \/ i = rd[p].n}
           a == Minus(w, r)
           Eot(k) == k \in ends /\ avail[k] = EOT
           Took(k) == SubSeq(avail, 1, IF Eot(k) THEN k - 1 ELSE k)
           Got(k) == rd[p].got \o Took(k)
           Used(k) == IF Eot(k) /\ Got(k) # << >> THEN k - 1 ELSE k
<1>1. PICK k \in 0 .. Len(avail) :
      /\ rd[p].pc = "held"
      /\ IF ends = {} THEN k = Len(avail) ELSE k \in ends /\ \A i \in ends : k <= i
      /\ r' = Plus(r, Used(k))
      /\ last' = IF p # Init1 \/ Used(k) = 0 THEN last ELSE avail[Used(k)]
      /\ IF ends = {} /\ p \in killed
         THEN rd' = [rd EXCEPT ![p].n = @ - k, ![p].got = Got(k)] /\ UNCHANGED spin
         ELSE /\ rd' = [rd EXCEPT ![p] = [Idle EXCEPT !.pc = IF ends = {} THEN "sleep" ELSE "done",
                                      !.n = IF ends = {} THEN rd[p].n - k ELSE 0, !.got = Got(k)]]
              /\ Release(CpuOf(p)) /\ UNCHANGED intr
      /\ UNCHANGED <<w, e, buf, killed, login>>
  BY Zenon DEF Read
<1> DEFINE eot == k \in ends /\ avail[k] = EOT
           taken == SubSeq(avail, 1, IF eot THEN k - 1 ELSE k)
           bytes == rd[p].got \o taken
           used == IF eot /\ bytes # << >> THEN k - 1 ELSE k
<1>0. Used(k) = used /\ Got(k) = bytes
  BY Zenon
<1> HIDE DEF Used, Got
<1>2. Between(r, w) = avail
  BY Zenon DEF Between
<1>3. a \in 0 .. INPUT_BUF /\ a \in Nat /\ r \in Idx
  BY Shape, Sized DEF TypeInv
<1>4. ASSUME NEW i \in 1 .. a
      PROVE  buf[Plus(r, i - 1) % INPUT_BUF] \in Bytes
  <2>1. i - 1 \in 0 .. INPUT_BUF
    BY <1>3, Sized
  <2> QED
    BY <1>3, <2>1, Stored, Zenon
<1>5. avail \in [1 .. a -> Bytes] /\ \A i \in 1 .. a : avail[i] = buf[Plus(r, i - 1) % INPUT_BUF]
  BY <1>4, Zenon
<1> HIDE DEF avail
<1>6. avail \in Seq(Bytes) /\ Len(avail) = a
  BY <1>3, <1>5
<1>7. ends = {} => k = a /\ \A i \in 1 .. a : avail[i] \notin {NL, EOT} /\ i # rd[p].n
  BY <1>1, <1>6, Zenon
<1>8. ASSUME ends # {}
      PROVE  /\ k \in 1 .. a /\ (avail[k] \in {NL, EOT} \/ k = rd[p].n)
             /\ \A i \in 1 .. k - 1 : avail[i] \notin {NL, EOT}
  <2>1. k \in ends /\ \A y \in ends : k <= y
    BY <1>1, <1>8, Zenon
  <2>2. k \in 1 .. a /\ (avail[k] \in {NL, EOT} \/ k = rd[p].n)
    BY <1>6, <2>1, Zenon
  <2>3. \A i \in 1 .. k - 1 : i \in 1 .. Len(avail) /\ ~(k <= i)
    BY <1>3, <1>6, <2>2
  <2> QED
    BY <2>1, <2>2, <2>3, Zenon
<1>9. k \in 0 .. a /\ (ends = {} => ~eot) /\ (eot => k \in 1 .. a /\ avail[k] = EOT)
      /\ (ends # {} /\ avail[k] = EOT => eot)
  BY <1>1, <1>6, Zenon
<1> HIDE DEF ends, eot
<1>10. rd[p].got \in Seq(Bytes) /\ rd[p].n \in Int
  BY DEF TypeInv, Frame
<1>11. taken \in Seq(Bytes) /\ Len(taken) = (IF eot THEN k - 1 ELSE k)
       /\ \A i \in 1 .. Len(taken) : taken[i] = avail[i]
  BY <1>3, <1>6, <1>9
<1> HIDE DEF taken
<1>12. bytes \in Seq(Bytes) /\ Len(bytes) = Len(rd[p].got) + Len(taken)
  <2>1. \A s, t \in Seq(Bytes) : s \o t \in Seq(Bytes) /\ Len(s \o t) = Len(s) + Len(t)
    OBVIOUS
  <2> QED
    BY <1>10, <1>11, <2>1, Zenon
<1>13. rd[p].got = << >> /\ Len(taken) = 1 => bytes = <<avail[1]>>
  <2>1. \A t \in Seq(Bytes) : Len(t) = 1 => << >> \o t = <<t[1]>> /\ 1 \in 1 .. Len(t)
    OBVIOUS
  <2> QED
    BY <1>11, <2>1, Zenon
<1> HIDE DEF bytes
<1>14. used \in 0 .. a /\ used = (IF eot /\ bytes # << >> THEN k - 1 ELSE k)
  BY <1>3, <1>9
<1> HIDE DEF used
<1>15. /\ used \in 0 .. Minus(w, r)
       /\ r' = Plus(r, used) /\ UNCHANGED <<w, e, buf, killed, login>>
       /\ \A i \in 1 .. used - 1 : avail[i] \notin {NL, EOT}
       /\ last' = IF p # Init1 \/ used = 0 THEN last ELSE avail[used]
  <2>1. \A i \in 1 .. k - 1 : avail[i] \notin {NL, EOT}
    BY <1>3, <1>7, <1>8
  <2>2. 1 .. used - 1 \subseteq 1 .. k - 1
    BY <1>3, <1>9, <1>14
  <2> QED
    BY <1>0, <1>1, <1>14, <2>1, <2>2, Zenon
<1>16. CASE ends = {} /\ p \in killed
  <2>1. ~eot /\ used = a /\ k = a /\ Len(taken) = a
    BY <1>3, <1>7, <1>9, <1>11, <1>14, <1>16
  <2>2. rd' = [rd EXCEPT ![p].n = rd[p].n - k, ![p].got = bytes] /\ UNCHANGED spin
    BY <1>0, <1>1, <1>16, Zenon
  <2>3. rd[p].n - k \in Int
    BY <1>3, <1>10, <2>1
  <2>4. Others(p) /\ rd'[p].pc = "held" /\ rd'[p].n = rd[p].n - k /\ rd'[p].got = bytes
    BY <1>1, <1>12, <2>2, <2>3, MoveOn, ZenonT(30)
  <2>5. rd[p].n > 0 => used < rd[p].n
    BY <1>3, <1>7, <1>10, <1>16, <2>1
  <2> HIDE DEF a
  <2> QED
    BY <1>2, <1>12, <1>15, <1>16, <2>1, <2>2, <2>4, <2>5, Zenon DEF a
<1>17. CASE ~(ends = {} /\ p \in killed)
  <2> DEFINE c == IF ends = {} THEN "sleep" ELSE "done"
             m == IF ends = {} THEN rd[p].n - k ELSE 0
             f == [Idle EXCEPT !.pc = c, !.n = m, !.got = bytes]
  <2>1. rd' = [rd EXCEPT ![p] = f] /\ Release(CpuOf(p)) /\ UNCHANGED intr
    BY <1>0, <1>1, <1>17, Zenon
  <2>2. /\ c \in Pcs /\ m \in Int /\ c \in {"sleep", "done"}
        /\ c = "sleep" => ends = {} /\ m = rd[p].n - k
        /\ c = "done" => ends # {}
    BY <1>3, <1>9, <1>10 DEF Pcs
  <2> HIDE DEF c, m
  <2>3. f \in Frame
    BY <1>12, <2>2, Records, Zenon DEF Frame
  <2>4. f.pc = c /\ f.n = m /\ f.got = bytes
    BY SMT DEF Idle
  <2> HIDE DEF f
  <2>5. Others(p) /\ rd'[p].pc = c /\ rd'[p].n = m /\ rd'[p].got = bytes
    BY <2>1, <2>3, <2>4, Put, Zenon
  <2>6. CASE ends = {}
    <3>1. ~eot /\ used = a /\ k = a /\ Len(taken) = a /\ c = "sleep"
      BY <1>3, <1>7, <1>9, <1>11, <1>14, <2>2, <2>6
    <3>2. rd[p].n > 0 => used < rd[p].n
      BY <1>3, <1>7, <1>10, <2>6, <3>1
    <3> HIDE DEF a
    <3> QED
      BY <1>2, <1>12, <1>15, <1>17, <2>1, <2>2, <2>5, <2>6, <3>1, <3>2, Zenon DEF a
  <2>7. CASE ends # {}
    <3>1. c = "done"
      BY <2>2, <2>7
    <3>2. \/ used > 0 /\ avail[used] \in {NL, EOT}
          \/ used < a /\ avail[used + 1] = EOT /\ used + 1 \in 1 .. a /\ (used + 1) - 1 = used
          \/ used > 0 /\ used = rd[p].n /\ Len(taken) = used
      BY <1>3, <1>8, <1>9, <1>11, <1>14, <2>7
    <3>3. used < a /\ avail[used + 1] = EOT /\ used + 1 \in 1 .. a /\ (used + 1) - 1 = used
            => used < a /\ buf[Plus(r, used) % INPUT_BUF] = EOT
      BY <1>5, Zenon
    <3>4. \/ used > 0 /\ avail[used] \in {NL, EOT}
          \/ used < a /\ buf[Plus(r, used) % INPUT_BUF] = EOT
          \/ /\ used > 0 /\ used = rd[p].n
             /\ Len(bytes) = Len(rd[p].got) + used
             /\ rd[p].got = << >> /\ used = 1 => bytes = <<avail[used]>>
      BY <1>12, <1>13, <3>2, <3>3, Zenon
    <3> HIDE DEF a
    <3>5. c # "sleep" /\ c \in {"sleep", "done"}
      BY <3>1
    <3> QED
      BY <1>2, <1>15, <2>1, <2>5, <3>1, <3>4, <3>5, Zenon DEF a
  <2> QED
    BY <2>6, <2>7, Zenon
<1> QED
  BY <1>16, <1>17, Zenon

\* Where the keys leave the indices, a and d being the distances before.
LEMMA BackspaceMoves ==
  ASSUME TypeInv, RingInv, Backspace
  PROVE  /\ UNCHANGED <<r, w, buf>>
         /\ \E d \in 0 .. Minus(e, w) :
              /\ e' = Plus(w, d)
              /\ Minus(e, w) = 0 => d = 0
              /\ Minus(e, w) # 0 => d = Minus(e, w) - 1
<1> DEFINE d == Minus(e, w)
<1>1. /\ w \in Idx /\ d \in 0 .. INPUT_BUF /\ e = Plus(w, d)
      /\ e' = (IF e = w THEN e ELSE Minus(e, 1)) /\ UNCHANGED <<r, w, buf>>
  BY Shape, Zenon DEF Backspace, TypeInv
<1> HIDE DEF d
<1>2. d \in Nat /\ d < U /\ d + 0 < U /\ 0 \in Nat /\ d = 0 + d
  BY <1>1, Sized
<1>3. Plus(w, 0) = w /\ (Plus(w, d) = Plus(w, 0) => d = 0)
  BY <1>1, <1>2, PlusPlus, Back, SMT
<1>4. CASE d = 0
  BY <1>1, <1>3, <1>4 DEF d
<1>5. CASE d # 0
  <2>1. 1 \in Nat /\ d = 1 + (d - 1) /\ d - 1 \in Nat /\ d - 1 \in 0 .. d
    BY <1>2, <1>5
  <2>2. Minus(Plus(w, d), 1) = Plus(w, d - 1)
    BY <1>1, <1>2, <2>1, Back, SMT
  <2>3. e' = Plus(w, d - 1)
    BY <1>1, <1>3, <1>5, <2>2, Zenon
  <2> QED
    BY <1>1, <1>5, <2>1, <2>3, Zenon DEF d
<1> QED
  BY <1>4, <1>5, Zenon

\* Control-U erases all that can be edited: it meets no newline before that.
LEMMA KillLineMoves ==
  ASSUME TypeInv, RingInv, KillLine
  PROVE  UNCHANGED <<r, w, buf>> /\ e' = w
<1> DEFINE d == Minus(e, w)
           Stop(k) == Minus(e, k) = w \/ buf[Minus(e, k + 1) % INPUT_BUF] = NL
           S == {k \in 0 .. INPUT_BUF : Stop(k)}
<1>1. /\ w \in Idx /\ d \in 0 .. INPUT_BUF /\ e = Plus(w, d)
      /\ \A k \in 0 .. d - 1 : buf[Plus(w, k) % INPUT_BUF] # NL
  BY Shape, Zenon DEF TypeInv, RingInv
<1>2. e' = Minus(e, Min(S)) /\ UNCHANGED <<r, w, buf>>
  BY Zenon DEF KillLine
<1> HIDE DEF d
<1>3. d \in Nat /\ d < U /\ d + 0 < U /\ 0 \in Nat /\ INPUT_BUF \in Nat
  BY <1>1, Sized
<1>4. ASSUME NEW k \in 0 .. d
      PROVE  Minus(e, k) = Plus(w, d - k) /\ (k # d => Minus(e, k) # w)
  <2>1. k \in Nat /\ d = k + (d - k) /\ d - k \in Nat /\ d - k < U /\ d - k = 0 + (d - k)
    BY <1>3, Sized
  <2>2. Minus(Plus(w, d), k) = Plus(w, d - k) /\ (Plus(w, d - k) = Plus(w, 0) => d - k = 0)
    BY <1>1, <1>3, <2>1, Back, SMT
  <2>3. Plus(w, 0) = w
    BY <1>1, <1>3, PlusPlus, Zenon
  <2>4. d - k = 0 => k = d
    BY <1>3, <2>1
  <2> QED
    BY <1>1, <2>2, <2>3, <2>4, Zenon
<1>5. Minus(e, d) = w
  <2>1. d \in 0 .. d /\ d - d = 0
    BY <1>3
  <2> QED
    BY <1>1, <1>3, <1>4, <2>1, PlusPlus, Zenon
<1>6. ASSUME NEW k \in S
      PROVE  d <= k
  <2>1. SUFFICES ASSUME ~(d <= k)
                 PROVE  FALSE
    BY Zenon
  <2>2. /\ k \in 0 .. d /\ k + 1 \in 0 .. d /\ k # d /\ d - (k + 1) \in 0 .. d - 1
    BY <1>3, <2>1
  <2>3. Minus(e, k) # w /\ Minus(e, k + 1) = Plus(w, d - (k + 1))
    BY <1>4, <2>2, Zenon
  <2> QED
    BY <1>1, <2>2, <2>3, Zenon
<1>7. d \in S /\ S \in SUBSET Nat
  <2>1. 0 .. INPUT_BUF \subseteq Nat
    BY <1>3
  <2> QED
    BY <1>1, <1>5, <2>1, Zenon
<1> HIDE DEF S
<1>8. Min(S) = d
  BY <1>6, <1>7, MinIs, Zenon
<1> QED
  BY <1>2, <1>5, <1>8, Zenon

\* A character is dropped when the ring is full; a newline, an EOT or the last slot
\* completes the line and wakes the readers.
LEMMA TypeMoves ==
  ASSUME TypeInv, RingInv, NEW c \in Chars, Type(c)
  PROVE  /\ r' = r
         /\ \/ UNCHANGED <<w, e, buf, rd>>
            \/ /\ Minus(w, r) + Minus(e, w) < INPUT_BUF
               /\ e' = Plus(r, Minus(w, r) + Minus(e, w) + 1)
               /\ buf' = [buf EXCEPT ![e % INPUT_BUF] = c]
               /\ IF c \in {NL, EOT} \/ Minus(w, r) + Minus(e, w) + 1 = INPUT_BUF
                  THEN w' = e' /\ Wakeup
                  ELSE w' = w /\ rd' = rd
<1> DEFINE a == Minus(w, r)
           d == Minus(e, w)
<1>1. r \in Idx /\ a \in 0 .. INPUT_BUF /\ d \in 0 .. INPUT_BUF /\ e = Plus(r, a + d)
      /\ Minus(e, r) = a + d
  BY Shape, Zenon DEF TypeInv
<1>2. /\ r' = r
      /\ IF Minus(e, r) < INPUT_BUF
         THEN /\ buf' = [buf EXCEPT ![e % INPUT_BUF] = c]
              /\ e' = Plus(e, 1)
              /\ IF c \in {NL, EOT} \/ e' = Plus(r, INPUT_BUF)
                 THEN w' = e' /\ Wakeup
                 ELSE UNCHANGED <<w, rd>>
         ELSE UNCHANGED <<w, e, buf, rd>>
  BY Zenon DEF Type
<1> HIDE DEF a, d
<1>3. CASE ~(a + d < INPUT_BUF)
  BY <1>1, <1>2, <1>3, Zenon
<1>4. CASE a + d < INPUT_BUF
  <2>1. /\ a + d \in Nat /\ 1 \in Nat /\ a + d + 1 < U /\ a + d + 1 \in Nat /\ INPUT_BUF \in Nat
        /\ INPUT_BUF < U /\ INPUT_BUF - (a + d + 1) \in Nat
        /\ INPUT_BUF = (a + d + 1) + (INPUT_BUF - (a + d + 1))
    BY <1>1, <1>4, Sized
  <2>2. Plus(Plus(r, a + d), 1) = Plus(r, a + d + 1)
    BY <1>1, <2>1, PlusPlus, ZenonT(30)
  <2>3. Plus(r, INPUT_BUF) = Plus(r, a + d + 1) => INPUT_BUF - (a + d + 1) = 0
    BY <1>1, <2>1, Back, SMT
  <2>5. INPUT_BUF - (a + d + 1) = 0 => a + d + 1 = INPUT_BUF
    BY <2>1
  <2>4. e' = Plus(r, INPUT_BUF) <=> a + d + 1 = INPUT_BUF
    BY <1>1, <1>2, <1>4, <2>2, <2>3, <2>5, Zenon
  <2> QED
    BY <1>1, <1>2, <1>4, <2>2, <2>4, Zenon DEF a, d
<1> QED
  BY <1>3, <1>4, Zenon

\* A character goes into a slot that is neither read nor edited.
LEMMA Stores ==
  ASSUME TypeInv, RingInv, NEW c \in Chars, Minus(w, r) + Minus(e, w) < INPUT_BUF,
         buf' = [buf EXCEPT ![e % INPUT_BUF] = c]
  PROVE  /\ buf'[Plus(r, Minus(w, r) + Minus(e, w)) % INPUT_BUF] = c
         /\ \A k \in 0 .. Minus(w, r) + Minus(e, w) - 1 :
              buf'[Plus(r, k) % INPUT_BUF] = buf[Plus(r, k) % INPUT_BUF]
<1> DEFINE a == Minus(w, r)
           d == Minus(e, w)
<1>1. /\ r \in Idx /\ e \in Idx /\ a \in 0 .. INPUT_BUF /\ d \in 0 .. INPUT_BUF /\ e = Plus(r, a + d)
      /\ buf \in [0 .. INPUT_BUF - 1 -> Bytes]
  BY Shape, Zenon DEF TypeInv
<1>2. a + d < INPUT_BUF
  OBVIOUS
<1> HIDE DEF a, d
<1>3. e % INPUT_BUF \in 0 .. INPUT_BUF - 1
  BY <1>1, Slot, Zenon
<1>4. ASSUME NEW k \in 0 .. a + d - 1
      PROVE  buf'[Plus(r, k) % INPUT_BUF] = buf[Plus(r, k) % INPUT_BUF]
  <2>1. /\ k \in Nat /\ a + d \in Nat /\ k < a + d /\ (a + d) - k < INPUT_BUF /\ a + d < U
        /\ 0 \in Nat /\ k + 0 < U
    BY <1>1, <1>2, Sized
  <2>2. Plus(r, k) % INPUT_BUF # Plus(r, a + d) % INPUT_BUF
    BY <1>1, <2>1, SlotOnce, Zenon
  <2>3. Plus(r, k) \in Idx
    BY <1>1, <2>1, PlusPlus, Zenon
  <2>4. Plus(r, k) % INPUT_BUF \in 0 .. INPUT_BUF - 1
    BY <2>3, Slot, Zenon
  <2> QED
    BY <1>1, <2>2, <2>4, Zenon
<1>5. buf'[Plus(r, a + d) % INPUT_BUF] = c
  BY <1>1, <1>3, Zenon
<1> QED
  BY <1>4, <1>5, Zenon DEF a, d

\* The invariant of the ring, from where the indices are.
LEMMA RingFrom ==
  ASSUME NEW i \in Idx, NEW a \in Nat, NEW d \in Nat, a + d <= INPUT_BUF, a + d = INPUT_BUF => d = 0,
         r' = i, w' = Plus(i, a), e' = Plus(i, a + d),
         \A k \in 0 .. d - 1 : buf'[Plus(i, a + k) % INPUT_BUF] # NL
  PROVE  RingInv' /\ r' \in Idx /\ w' \in Idx /\ e' \in Idx
<1>1. /\ Plus(i, a) \in Idx /\ Plus(i, a + d) \in Idx
      /\ Minus(Plus(i, a), i) = a /\ Minus(Plus(i, a + d), Plus(i, a)) = d
  BY Measure, SMT
<1>2. Minus(w, r)' = a /\ Minus(e, w)' = d
  BY <1>1, Zenon DEF Minus
<1>3. ASSUME NEW k \in 0 .. d - 1
      PROVE  buf'[Plus(w, k)' % INPUT_BUF] # NL
  <2>1. k \in Nat /\ a + k <= INPUT_BUF
    BY Sized
  <2>2. Plus(Plus(i, a), k) = Plus(i, a + k)
    BY <2>1, Measure, SMT
  <2>3. Plus(w, k)' = Plus(i, a + k)
    BY <2>2, Zenon DEF Plus
  <2> QED
    BY <2>3, Zenon
<1> QED
  BY <1>1, <1>2, <1>3, Zenon DEF RingInv

\* consoleintr and consoleread keep the three indices in order.
LEMMA RingStep ==
  ASSUME TypeInv, RingInv, [Next]_vars
  PROVE  RingInv' /\ r' \in Idx /\ w' \in Idx /\ e' \in Idx
<1>1. CASE UNCHANGED vars
  BY <1>1, Zenon DEF vars, RingInv, input, Minus, Plus, TypeInv
<1>2. r \in Idx /\ w \in Idx /\ e \in Idx
  BY DEF TypeInv
<1> USE <1>2
<1>3. CASE Interrupt
  BY <1>3, Zenon DEF Interrupt, RingInv, input, Minus, Plus
<1>4. CASE IntrXchg
  BY <1>4, Zenon DEF IntrXchg, RingInv, input, Minus, Plus
<1>5. CASE Backspace
  <2> DEFINE a == Minus(w, r)
             d == Minus(e, w)
  <2>1. /\ r \in Idx /\ w \in Idx /\ a \in 0 .. INPUT_BUF /\ d \in 0 .. INPUT_BUF
        /\ w = Plus(r, a) /\ e = Plus(r, a + d)
        /\ a + d <= INPUT_BUF /\ (a + d = INPUT_BUF => d = 0)
        /\ \A k \in 0 .. d - 1 : buf[Plus(w, k) % INPUT_BUF] # NL
    BY Shape, Zenon DEF RingInv
  <2>2. \A k \in 0 .. d : Plus(w, k) = Plus(r, a + k)
    BY Shape, Zenon
  <2> HIDE DEF a, d
  <2>3. PICK b \in 0 .. d : e' = Plus(w, b) /\ (d = 0 => b = 0) /\ (d # 0 => b = d - 1)
    BY <1>5, BackspaceMoves, Zenon DEF d
  <2>4. /\ b \in Nat /\ a \in Nat /\ a + b <= INPUT_BUF /\ (a + b = INPUT_BUF => b = 0)
        /\ 0 .. b - 1 \subseteq 0 .. d - 1 /\ 0 .. b - 1 \subseteq 0 .. d
    BY <2>1, <2>3, Sized
  <2>5. UNCHANGED <<r, w, buf>> /\ e' = Plus(r, a + b)
    BY <1>5, <2>2, <2>3, BackspaceMoves, Zenon
  <2>6. \A k \in 0 .. b - 1 : buf'[Plus(r, a + k) % INPUT_BUF] # NL
    BY <2>1, <2>2, <2>4, <2>5, Zenon
  <2> QED
    BY <2>1, <2>4, <2>5, <2>6, RingFrom, Zenon
<1>6. CASE KillLine
  <2> DEFINE a == Minus(w, r)
             d == Minus(e, w)
  <2>1. /\ r \in Idx /\ w \in Idx /\ a \in 0 .. INPUT_BUF /\ d \in 0 .. INPUT_BUF
        /\ w = Plus(r, a) /\ e = Plus(r, a + d)
        /\ a + d <= INPUT_BUF /\ (a + d = INPUT_BUF => d = 0)
        /\ \A k \in 0 .. d - 1 : buf[Plus(w, k) % INPUT_BUF] # NL
    BY Shape, Zenon DEF RingInv
  <2>2. \A k \in 0 .. d : Plus(w, k) = Plus(r, a + k)
    BY Shape, Zenon
  <2> HIDE DEF a, d
  <2>3. /\ a \in Nat /\ a + 0 <= INPUT_BUF /\ (a + 0 = INPUT_BUF => 0 = 0)
        /\ 0 \in Nat /\ 0 .. 0 - 1 = {} /\ a + 0 = a
    BY <2>1, Sized
  <2>4. r' = r /\ w' = Plus(r, a) /\ e' = Plus(r, a + 0)
    BY <1>6, <2>1, <2>3, KillLineMoves, Zenon
  <2> QED
    BY <2>1, <2>3, <2>4, RingFrom, Zenon
<1>7. ASSUME NEW c \in Chars, Type(c)
      PROVE  RingInv' /\ r' \in Idx /\ w' \in Idx /\ e' \in Idx
  <2> DEFINE a == Minus(w, r)
             d == Minus(e, w)
  <2>1. /\ r \in Idx /\ w \in Idx /\ a \in 0 .. INPUT_BUF /\ d \in 0 .. INPUT_BUF
        /\ w = Plus(r, a) /\ e = Plus(r, a + d)
        /\ a + d <= INPUT_BUF /\ (a + d = INPUT_BUF => d = 0)
        /\ \A k \in 0 .. d - 1 : buf[Plus(w, k) % INPUT_BUF] # NL
    BY Shape, Zenon DEF RingInv
  <2>2. \A k \in 0 .. d : Plus(w, k) = Plus(r, a + k)
    BY Shape, Zenon
  <2> HIDE DEF a, d
  <2>3. CASE r' = r /\ UNCHANGED <<w, e, buf>>
    BY <2>3, Zenon DEF RingInv, Minus, Plus
  <2>4. CASE /\ r' = r /\ a + d < INPUT_BUF /\ e' = Plus(r, a + d + 1)
             /\ buf' = [buf EXCEPT ![e % INPUT_BUF] = c] /\ w' = e'
    <3>1. /\ a + d + 1 \in Nat /\ (a + d + 1) + 0 <= INPUT_BUF /\ 0 \in Nat /\ 0 .. 0 - 1 = {}
          /\ (a + d + 1) + 0 = a + d + 1
      BY <2>1, <2>4, Sized
    <3>2. /\ w' = Plus(r, a + d + 1) /\ e' = Plus(r, (a + d + 1) + 0)
          /\ (a + d + 1) + 0 = INPUT_BUF => 0 = 0
      BY <2>4, <3>1, Zenon
    <3> QED
      BY <2>1, <2>4, <3>1, <3>2, RingFrom, Zenon
  <2>5. CASE /\ r' = r /\ a + d < INPUT_BUF /\ e' = Plus(r, a + d + 1)
             /\ buf' = [buf EXCEPT ![e % INPUT_BUF] = c] /\ w' = w
             /\ c # NL /\ a + d + 1 # INPUT_BUF
    <3>1. /\ a \in Nat /\ d + 1 \in Nat /\ a + (d + 1) <= INPUT_BUF /\ a + (d + 1) # INPUT_BUF
          /\ a + (d + 1) = a + d + 1
      BY <2>1, <2>5, Sized
    <3>2. /\ buf'[Plus(r, a + d) % INPUT_BUF] = c
          /\ \A k \in 0 .. a + d - 1 : buf'[Plus(r, k) % INPUT_BUF] = buf[Plus(r, k) % INPUT_BUF]
      BY <2>5, Stores, Zenon DEF a, d
    <3>3. ASSUME NEW k \in 0 .. (d + 1) - 1
          PROVE  buf'[Plus(r, a + k) % INPUT_BUF] # NL
      <4>1. k = d \/ (k \in 0 .. d - 1 /\ k \in 0 .. d /\ a + k \in 0 .. a + d - 1)
        BY <2>1, Sized
      <4>2. CASE k = d
        BY <2>5, <3>2, <4>2, Zenon
      <4>3. CASE k \in 0 .. d - 1 /\ k \in 0 .. d /\ a + k \in 0 .. a + d - 1
        BY <2>1, <2>2, <3>2, <4>3, Zenon
      <4> QED
        BY <4>1, <4>2, <4>3, Zenon
    <3>4. e' = Plus(r, a + (d + 1)) /\ w' = Plus(r, a)
      BY <2>1, <2>5, <3>1, Zenon
    <3> QED
      BY <2>1, <2>5, <3>1, <3>3, <3>4, RingFrom, Zenon
  <2> QED
    BY <1>7, <2>3, <2>4, <2>5, TypeMoves, Zenon DEF a, d
<1>8. ASSUME NEW p \in Readers, ReadFlags(p)
      PROVE  RingInv' /\ r' \in Idx /\ w' \in Idx /\ e' \in Idx
  BY <1>8, Zenon DEF ReadFlags, RingInv, input, Minus, Plus
<1>9. ASSUME NEW p \in Readers, Cli(p)
      PROVE  RingInv' /\ r' \in Idx /\ w' \in Idx /\ e' \in Idx
  BY <1>9, Zenon DEF Cli, RingInv, input, Minus, Plus
<1>10. ASSUME NEW p \in Readers, Xchg(p)
      PROVE  RingInv' /\ r' \in Idx /\ w' \in Idx /\ e' \in Idx
  BY <1>10, Zenon DEF Xchg, RingInv, input, Minus, Plus
<1>11. ASSUME NEW p \in Readers, Read(p)
      PROVE  RingInv' /\ r' \in Idx /\ w' \in Idx /\ e' \in Idx
  <2> DEFINE a == Minus(w, r)
             d == Minus(e, w)
  <2>1. /\ r \in Idx /\ w \in Idx /\ a \in 0 .. INPUT_BUF /\ d \in 0 .. INPUT_BUF
        /\ w = Plus(r, a) /\ e = Plus(r, a + d)
        /\ a + d <= INPUT_BUF /\ (a + d = INPUT_BUF => d = 0)
        /\ \A k \in 0 .. d - 1 : buf[Plus(w, k) % INPUT_BUF] # NL
    BY Shape, Zenon DEF RingInv
  <2>2. \A k \in 0 .. d : Plus(w, k) = Plus(r, a + k)
    BY Shape, Zenon
  <2> HIDE DEF a, d
  <2>3. PICK used \in 0 .. a : r' = Plus(r, used) /\ UNCHANGED <<w, e, buf>>
    BY <1>11, ReadMoves, Zenon DEF a
  <2>4. /\ used \in Nat /\ a - used \in Nat /\ (a - used) + d \in Nat /\ used + (a - used) <= INPUT_BUF
        /\ used + ((a - used) + d) <= INPUT_BUF /\ d \in Nat
        /\ (a - used) + d <= INPUT_BUF /\ ((a - used) + d = INPUT_BUF => d = 0)
        /\ used + (a - used) = a /\ used + ((a - used) + d) = a + d
    BY <2>1, Sized
  <2>5. /\ Plus(r, used) \in Idx
        /\ Plus(Plus(r, used), a - used) = Plus(r, used + (a - used))
        /\ Plus(Plus(r, used), (a - used) + d) = Plus(r, used + ((a - used) + d))
    BY <2>1, <2>4, Measure, SMT
  <2>6. w' = Plus(Plus(r, used), a - used) /\ e' = Plus(Plus(r, used), (a - used) + d)
    BY <2>1, <2>3, <2>4, <2>5, Zenon
  <2>7. ASSUME NEW k \in 0 .. d - 1
        PROVE  buf'[Plus(Plus(r, used), (a - used) + k) % INPUT_BUF] # NL
    <3>1. /\ k \in 0 .. d /\ (a - used) + k \in Nat /\ used + ((a - used) + k) <= INPUT_BUF
          /\ used + ((a - used) + k) = a + k
      BY <2>1, <2>4, Sized
    <3>2. Plus(Plus(r, used), (a - used) + k) = Plus(r, used + ((a - used) + k))
      BY <2>1, <2>4, <3>1, Measure, SMT
    <3> QED
      BY <2>1, <2>2, <2>3, <3>1, <3>2, Zenon
  <2> QED
    BY <2>3, <2>4, <2>5, <2>6, <2>7, RingFrom, Zenon
<1>12. CASE GetInput
  BY <1>12, Zenon DEF GetInput, RingInv, input, Minus, Plus
<1>13. CASE Flush
  BY <1>13, Zenon DEF Flush, RingInv, input, Minus, Plus
<1>14. CASE Answer
  BY <1>14, Zenon DEF Answer, RingInv, input, Minus, Plus
<1>15. ASSUME NEW p \in Users, UserRead(p)
      PROVE  RingInv' /\ r' \in Idx /\ w' \in Idx /\ e' \in Idx
  BY <1>15, Zenon DEF UserRead, RingInv, input, Minus, Plus
<1>16. ASSUME NEW p \in Users, UserReturn(p)
      PROVE  RingInv' /\ r' \in Idx /\ w' \in Idx /\ e' \in Idx
  BY <1>16, Zenon DEF UserReturn, RingInv, input, Minus, Plus
<1>17. ASSUME NEW p \in Users, ReadKilled(p)
      PROVE  RingInv' /\ r' \in Idx /\ w' \in Idx /\ e' \in Idx
  BY <1>17, Zenon DEF ReadKilled, RingInv, input, Minus, Plus
<1>18. ASSUME NEW p \in Killable, Kill(p)
      PROVE  RingInv' /\ r' \in Idx /\ w' \in Idx /\ e' \in Idx
  BY <1>18, Zenon DEF Kill, RingInv, input, Minus, Plus
<1> QED
  BY <1>1, <1>3, <1>4, <1>5, <1>6, <1>7, <1>8, <1>9, <1>10, <1>11, <1>12, <1>13, <1>14,
     <1>15, <1>16, <1>17, <1>18, Zenon
  DEF Next

\* Whoever sleeps has seen no input since, and is not killed.
LEMMA SleepStep ==
  ASSUME TypeInv, RingInv, SleepInv, [Next]_vars
  PROVE  SleepInv'
<1>1. CASE UNCHANGED vars
  BY <1>1, Zenon DEF vars, input, spin, SleepInv
<1>2. ASSUME NEW q \in Readers, Others(q), rd'[q].pc # "sleep", UNCHANGED <<r, w>>,
             killed' \subseteq killed
      PROVE  SleepInv'
  BY <1>2, Zenon DEF SleepInv, Others
<1>3. CASE Interrupt
  <2>1. UNCHANGED <<r, w, rd, killed>>
    BY <1>3, Zenon DEF Interrupt, input
  <2> QED
    BY <2>1, Zenon DEF SleepInv
<1>4. CASE IntrXchg
  <2>1. UNCHANGED <<r, w, rd, killed>>
    BY <1>4, Zenon DEF IntrXchg, input
  <2> QED
    BY <2>1, Zenon DEF SleepInv
<1>5. CASE Backspace
  <2>1. UNCHANGED <<r, w, rd, killed>>
    BY <1>5, Zenon DEF Backspace, input
  <2> QED
    BY <2>1, Zenon DEF SleepInv
<1>6. CASE KillLine
  <2>1. UNCHANGED <<r, w, rd, killed>>
    BY <1>6, Zenon DEF KillLine, input
  <2> QED
    BY <2>1, Zenon DEF SleepInv
<1>7. ASSUME NEW c \in Chars, Type(c)
      PROVE  SleepInv'
  <2>1. r' = r /\ killed' = killed /\ (UNCHANGED <<w, rd>> \/ Wakeup)
    BY <1>7, TypeMoves, Zenon DEF Type
  <2>2. ASSUME Wakeup, NEW q \in Readers
        PROVE  rd'[q].pc # "sleep"
    BY <2>2, WakeupMoves
  <2> QED
    BY <2>1, <2>2, Zenon DEF SleepInv
<1>8. ASSUME NEW p \in Readers, ReadFlags(p)
      PROVE  SleepInv'
  <2>1. Others(p) /\ rd'[p].pc # "sleep"
    BY <1>8, ReadFlagsMoves, Zenon
  <2>2. UNCHANGED <<r, w>> /\ killed' \subseteq killed
    BY <1>8, Zenon DEF ReadFlags, input
  <2> QED
    BY <2>1, <2>2, <1>2, Members, Zenon
<1>9. ASSUME NEW p \in Readers, Cli(p)
      PROVE  SleepInv'
  <2>1. Others(p) /\ rd'[p].pc # "sleep"
    BY <1>9, CliMoves, Zenon
  <2>2. UNCHANGED <<r, w>> /\ killed' \subseteq killed
    BY <1>9, Zenon DEF Cli, input
  <2> QED
    BY <2>1, <2>2, <1>2, Members, Zenon
<1>10. ASSUME NEW p \in Readers, Xchg(p)
      PROVE  SleepInv'
  <2>1. Others(p) /\ rd'[p].pc # "sleep"
    BY <1>10, XchgMoves, Zenon
  <2>2. UNCHANGED <<r, w>> /\ killed' \subseteq killed
    BY <1>10, Zenon DEF Xchg, input
  <2> QED
    BY <2>1, <2>2, <1>2, Members, Zenon
<1>11. ASSUME NEW p \in Readers, Read(p)
      PROVE  SleepInv'
  <2>1. PICK used \in 0 .. Minus(w, r) :
        /\ r' = Plus(r, used) /\ UNCHANGED <<w, killed>> /\ Others(p)
        /\ rd'[p].pc = "sleep" => used = Minus(w, r) /\ p \notin killed
    BY <1>11, ReadMoves, Zenon
  <2>2. Plus(r, Minus(w, r)) = w /\ Minus(w, r) \in 0 .. INPUT_BUF /\ r \in Idx
    BY Shape, Zenon
  <2>3. rd'[p].pc = "sleep" => r' = w' /\ p \notin killed'
    BY <2>1, <2>2, Zenon
  <2>4. ASSUME r = w
        PROVE  r' = w'
    <3>1. 0 \in Nat /\ 0 + 0 <= INPUT_BUF
      BY Sized
    <3>2. Plus(r, 0) = r /\ Minus(Plus(r, 0), r) = 0
      BY <2>2, <3>1, Measure, SMT
    <3>3. used = 0
      BY <2>1, <2>4, <3>2
    <3> QED
      BY <2>1, <2>4, <3>2, <3>3, Zenon
  <2> QED
    BY <2>1, <2>3, <2>4, Zenon DEF SleepInv, Others
<1>12. CASE GetInput
  <2>1. Others(Init1) /\ rd'[Init1].pc # "sleep"
    BY <1>12, CallMoves, Records, IntSize, Zenon
  <2>2. UNCHANGED <<r, w>> /\ killed' \subseteq killed
    BY <1>12, Zenon DEF GetInput, input
  <2> QED
    BY <2>1, <2>2, <1>2, Members, Zenon
<1>13. CASE Flush
  <2>1. Others(Init1) /\ rd'[Init1].pc # "sleep"
    BY <1>13, CallMoves, Records, IntSize, Zenon
  <2>2. UNCHANGED <<r, w>> /\ killed' \subseteq killed
    BY <1>13, Zenon DEF Flush, input
  <2> QED
    BY <2>1, <2>2, <1>2, Members, Zenon
<1>14. CASE Answer
  <2>1. Others(Init1) /\ rd'[Init1].pc # "sleep"
    BY <1>14, CallMoves, Records, Zenon
  <2>2. UNCHANGED <<r, w>> /\ killed' \subseteq killed
    BY <1>14, Zenon DEF Answer, input
  <2> QED
    BY <2>1, <2>2, <1>2, Members, Zenon
<1>15. ASSUME NEW p \in Users, UserRead(p)
      PROVE  SleepInv'
  <2>1. Others(p) /\ rd'[p].pc # "sleep"
    BY <1>15, CallMoves, Zenon
  <2>2. UNCHANGED <<r, w>> /\ killed' \subseteq killed
    BY <1>15, Zenon DEF UserRead, input
  <2> QED
    BY <2>1, <2>2, <1>2, Members, Zenon
<1>16. ASSUME NEW p \in Users, UserReturn(p)
      PROVE  SleepInv'
  <2>1. Others(p) /\ rd'[p].pc # "sleep"
    BY <1>16, CallMoves, Records, Zenon
  <2>2. UNCHANGED <<r, w>> /\ killed' \subseteq killed
    BY <1>16, Zenon DEF UserReturn, input
  <2> QED
    BY <2>1, <2>2, <1>2, Members, Zenon
<1>17. ASSUME NEW p \in Users, ReadKilled(p)
      PROVE  SleepInv'
  <2>1. Others(p) /\ rd'[p].pc # "sleep"
    BY <1>17, CallMoves, Records, Zenon
  <2>2. UNCHANGED <<r, w>> /\ killed' \subseteq killed
    BY <1>17, Zenon DEF ReadKilled, input
  <2> QED
    BY <2>1, <2>2, <1>2, Members, Zenon
<1>18. ASSUME NEW p \in Killable, Kill(p)
      PROVE  SleepInv'
  <2>1. Others(p) /\ (rd'[p].pc = IF rd[p].pc = "sleep" THEN "read" ELSE rd[p].pc)
    BY <1>18, KillMoves, Members, Zenon
  <2>2. rd'[p].pc # "sleep"
    BY <2>1
  <2>3. UNCHANGED <<r, w>> /\ killed' = killed \cup {p}
    BY <1>18, Zenon DEF Kill, input
  <2> QED
    BY <2>1, <2>2, <2>3, Zenon DEF SleepInv, Others
<1> QED
  BY <1>1, <1>3, <1>4, <1>5, <1>6, <1>7, <1>8, <1>9, <1>10, <1>11, <1>12, <1>13, <1>14,
     <1>15, <1>16, <1>17, <1>18, Zenon
  DEF Next

\* A step that leaves the dialogue alone and neither begins nor ends a read.
LEMMA KeepLogin ==
  ASSUME LoginInv, login' = login, last' = last, EndOfLine => EndOfLine',
         \A q \in Readers : /\ Same(q) /\ (rd'[q].pc = "idle" <=> rd[q].pc = "idle")
                            /\ rd'[q].pc = "done" <=> rd[q].pc = "done"
  PROVE  LoginInv'
<1>1. /\ Init1 \in Readers /\ Users \subseteq Readers
      /\ (Asking' <=> Asking) /\ Requested' = Requested
  BY Members, Zenon DEF Asking, Requested
<1>2. /\ rd'[Init1].n = rd[Init1].n /\ rd'[Init1].got = rd[Init1].got
      /\ (rd'[Init1].pc = "idle" <=> rd[Init1].pc = "idle")
      /\ rd'[Init1].pc = "done" <=> rd[Init1].pc = "done"
  BY <1>1, Zenon DEF Same
<1>3. /\ \A p \in Users : login'.at # "shell" => rd'[p].pc = "idle"
      /\ ~Asking => rd'[Init1].pc = "idle"
  BY <1>1, <1>2, Zenon DEF LoginInv
<1>4. ASSUME Asking
      PROVE  /\ rd'[Init1].pc = "idle" => EndOfLine'
             /\ rd'[Init1].pc \notin {"idle", "done"} =>
                  rd'[Init1].n > 0 /\ rd'[Init1].n + Len(rd'[Init1].got) = Requested
             /\ rd'[Init1].pc = "done" =>
                  \/ EndOfLine'
                  \/ Len(rd'[Init1].got) = Requested /\ (login'.flush => rd'[Init1].got = <<last'>>)
  BY <1>2, <1>4, Zenon DEF LoginInv
<1> QED
  BY <1>1, <1>3, <1>4, Zenon DEF LoginInv

\* get_input reads to the end of the line, through the interrupts, the other readers
\* and the characters that a full ring drops.
LEMMA LoginStep ==
  ASSUME TypeInv, RingInv, LoginInv, [Next]_vars
  PROVE  LoginInv'
<1>1. CASE UNCHANGED vars
  BY <1>1, Zenon DEF vars, input, LoginInv, EndOfLine, Asking, Requested
<1>2. ASSUME UNCHANGED <<r, w, buf, login, last, rd>>
      PROVE  LoginInv'
  BY <1>2, Zenon DEF LoginInv, EndOfLine, Asking, Requested
<1>3. ASSUME NEW q \in Users, login.at = "shell", Others(q), login' = login
      PROVE  LoginInv'
  <2>1. q # Init1 /\ ~Asking /\ ~Asking' /\ Init1 \in Readers
    BY <1>3, ConsoleAssumption, Members DEF Asking
  <2> QED
    BY <1>3, <2>1, Zenon DEF LoginInv, Others
<1>4. ASSUME NEW q \in Users, rd[q].pc # "idle", Others(q), login' = login
      PROVE  LoginInv'
  BY <1>3, <1>4, Zenon DEF LoginInv
<1>5. CASE Interrupt
  <2>1. UNCHANGED <<r, w, buf, login, last, rd>>
    BY <1>5, Zenon DEF Interrupt, input
  <2> QED
    BY <2>1, <1>2, Zenon
<1>6. CASE IntrXchg
  <2>1. UNCHANGED <<r, w, buf, login, last, rd>>
    BY <1>6, Zenon DEF IntrXchg, input
  <2> QED
    BY <2>1, <1>2, Zenon
<1>7. CASE Backspace
  <2>1. UNCHANGED <<r, w, buf, login, last, rd>>
    BY <1>7, Zenon DEF Backspace, input
  <2> QED
    BY <2>1, <1>2, Zenon
<1>8. CASE KillLine
  <2>1. UNCHANGED <<r, w, buf, login, last, rd>>
    BY <1>8, Zenon DEF KillLine, input
  <2> QED
    BY <2>1, <1>2, Zenon
<1>9. ASSUME NEW c \in Chars, Type(c)
      PROVE  LoginInv'
  <2>1. UNCHANGED <<r, login, last>>
    BY <1>9, Zenon DEF Type
  <2>2. ASSUME NEW q \in Readers
        PROVE  /\ Same(q) /\ (rd'[q].pc = "idle" <=> rd[q].pc = "idle")
               /\ rd'[q].pc = "done" <=> rd[q].pc = "done"
    <3>1. rd' = rd \/ Wakeup
      BY <1>9, TypeMoves, Zenon
    <3>2. CASE rd' = rd
      BY <3>2, Zenon DEF Same
    <3>3. CASE Wakeup
      <4>1. Same(q) /\ (rd'[q].pc = IF rd[q].pc = "sleep" THEN "read" ELSE rd[q].pc)
        BY <3>3, WakeupMoves, Zenon
      <4> QED
        BY <4>1
    <3> QED
      BY <3>1, <3>2, <3>3, Zenon
  <2>3. ASSUME r # w, buf[r % INPUT_BUF] = EOT
        PROVE  r' # w' /\ buf'[r' % INPUT_BUF] = EOT
    <3> DEFINE a == Minus(w, r)
               d == Minus(e, w)
    <3>1. r \in Idx /\ a \in 0 .. INPUT_BUF /\ d \in 0 .. INPUT_BUF /\ w = Plus(r, a)
      BY Shape, Zenon
    <3>2. \/ UNCHANGED <<w, buf>>
          \/ /\ a + d < INPUT_BUF /\ buf' = [buf EXCEPT ![e % INPUT_BUF] = c]
             /\ w' = w \/ w' = Plus(r, a + d + 1)
      BY <1>9, TypeMoves, Zenon
    <3>3. CASE UNCHANGED <<w, buf>>
      BY <2>1, <2>3, <3>3, Zenon
    <3>4. CASE a + d < INPUT_BUF /\ buf' = [buf EXCEPT ![e % INPUT_BUF] = c]
      <4>1. \A k \in 0 .. a + d - 1 : buf'[Plus(r, k) % INPUT_BUF] = buf[Plus(r, k) % INPUT_BUF]
        BY <3>4, Stores, Zenon
      <4> HIDE DEF a, d
      <4>2. 0 \in Nat /\ 0 + 0 <= INPUT_BUF
        BY Sized
      <4>3. Plus(r, 0) = r
        BY <3>1, <4>2, Measure, SMT
      <4>4. a # 0
        BY <2>3, <3>1, <4>3, Zenon
      <4>5. /\ 0 \in 0 .. a + d - 1 /\ a + d + 1 \in Nat /\ (a + d + 1) + 0 <= INPUT_BUF
            /\ a + d + 1 # 0
        BY <3>1, <3>4, <4>4, Sized
      <4>6. Minus(Plus(r, a + d + 1), r) = a + d + 1 /\ Minus(Plus(r, 0), r) = 0
        BY <3>1, <4>2, <4>5, Measure, SMT
      <4> QED
        BY <2>1, <2>3, <3>2, <4>1, <4>3, <4>5, <4>6, Zenon
    <3> QED
      BY <3>2, <3>3, <3>4, Zenon
  <2>4. EndOfLine => EndOfLine'
    BY <2>1, <2>3, Zenon DEF EndOfLine
  <2> QED
    BY <2>1, <2>2, <2>4, KeepLogin, Zenon
<1>10. ASSUME NEW p \in Readers, ReadFlags(p)
      PROVE  LoginInv'
  <2>1. Others(p) /\ Same(p) /\ (rd'[p].pc = "idle" <=> rd[p].pc = "idle")
        /\ (rd'[p].pc = "done" <=> rd[p].pc = "done")
    <3>1. Others(p) /\ Same(p) /\ rd[p].pc = "read" /\ rd'[p].pc = "cli"
      BY <1>10, ReadFlagsMoves, Zenon DEF ReadFlags
    <3> QED
      BY <3>1
  <2>2. UNCHANGED <<r, w, buf, login, last>>
    BY <1>10, Zenon DEF ReadFlags, input
  <2>3. ASSUME NEW q \in Readers
        PROVE  /\ Same(q) /\ (rd'[q].pc = "idle" <=> rd[q].pc = "idle")
               /\ rd'[q].pc = "done" <=> rd[q].pc = "done"
    BY <2>1, Zenon DEF Others, Same
  <2>4. EndOfLine => EndOfLine'
    BY <2>2, Zenon DEF EndOfLine
  <2> QED
    BY <2>2, <2>3, <2>4, KeepLogin, Zenon
<1>11. ASSUME NEW p \in Readers, Cli(p)
      PROVE  LoginInv'
  <2>1. Others(p) /\ Same(p) /\ (rd'[p].pc = "idle" <=> rd[p].pc = "idle")
        /\ (rd'[p].pc = "done" <=> rd[p].pc = "done")
    <3>1. Others(p) /\ Same(p) /\ rd[p].pc = "cli" /\ rd'[p].pc = "spin"
      BY <1>11, CliMoves, Zenon DEF Cli
    <3> QED
      BY <3>1
  <2>2. UNCHANGED <<r, w, buf, login, last>>
    BY <1>11, Zenon DEF Cli, input
  <2>3. ASSUME NEW q \in Readers
        PROVE  /\ Same(q) /\ (rd'[q].pc = "idle" <=> rd[q].pc = "idle")
               /\ rd'[q].pc = "done" <=> rd[q].pc = "done"
    BY <2>1, Zenon DEF Others, Same
  <2>4. EndOfLine => EndOfLine'
    BY <2>2, Zenon DEF EndOfLine
  <2> QED
    BY <2>2, <2>3, <2>4, KeepLogin, Zenon
<1>12. ASSUME NEW p \in Readers, Xchg(p)
      PROVE  LoginInv'
  <2>1. Others(p) /\ Same(p) /\ (rd'[p].pc = "idle" <=> rd[p].pc = "idle")
        /\ (rd'[p].pc = "done" <=> rd[p].pc = "done")
    <3>1. Others(p) /\ Same(p) /\ rd[p].pc = "spin" /\ rd'[p].pc = "held"
      BY <1>12, XchgMoves, Zenon DEF Xchg
    <3> QED
      BY <3>1
  <2>2. UNCHANGED <<r, w, buf, login, last>>
    BY <1>12, Zenon DEF Xchg, input
  <2>3. ASSUME NEW q \in Readers
        PROVE  /\ Same(q) /\ (rd'[q].pc = "idle" <=> rd[q].pc = "idle")
               /\ rd'[q].pc = "done" <=> rd[q].pc = "done"
    BY <2>1, Zenon DEF Others, Same
  <2>4. EndOfLine => EndOfLine'
    BY <2>2, Zenon DEF EndOfLine
  <2> QED
    BY <2>2, <2>3, <2>4, KeepLogin, Zenon
<1>13. ASSUME NEW p \in Readers, Read(p)
      PROVE  LoginInv'
  <2>1. rd[p].pc = "held" /\ rd[p].pc # "idle" /\ rd[p].pc # "done"
    <3>1. rd[p].pc = "held"
      BY <1>13, Zenon DEF Read
    <3> QED
      BY <3>1
  <2>2. PICK used \in 0 .. Minus(w, r) :
        /\ r' = Plus(r, used) /\ UNCHANGED <<w, buf, login>> /\ Others(p)
        /\ last' = IF p # Init1 \/ used = 0 THEN last ELSE Between(r, w)[used]
        /\ p \in killed \/ rd'[p].pc \in {"sleep", "done"}
        /\ rd'[p].pc # "done" =>
             /\ rd'[p].n = rd[p].n - used
             /\ rd[p].n > 0 => used < rd[p].n
             /\ Len(rd'[p].got) = Len(rd[p].got) + used
        /\ rd'[p].pc = "done" =>
             \/ used > 0 /\ Between(r, w)[used] \in {NL, EOT}
             \/ used < Minus(w, r) /\ buf[Plus(r, used) % INPUT_BUF] = EOT
             \/ /\ used > 0 /\ used = rd[p].n
                /\ Len(rd'[p].got) = Len(rd[p].got) + used
                /\ rd[p].got = << >> /\ used = 1 => rd'[p].got = <<Between(r, w)[used]>>
    BY <1>13, ReadMoves, Zenon
  <2>3. CASE p \in Users
    BY <2>1, <2>2, <2>3, <1>4, Zenon
  <2>4. CASE p = Init1
    <3>1. Asking /\ rd[p].n > 0 /\ rd[p].n + Len(rd[p].got) = Requested
      BY <2>1, <2>4, Zenon DEF LoginInv
    <3>2. /\ \A q \in Users : rd'[q].pc = "idle"
          /\ Asking' /\ Requested' = Requested /\ login' = login /\ p \notin killed
      <4>1. \A q \in Users : q \in Readers \ {p}
        BY <2>4, Members, ConsoleAssumption, Zenon
      <4>2. login.at # "shell"
        BY <3>1 DEF Asking
      <4>3. p \notin killed
        BY <2>4, ConsoleAssumption, Zenon DEF TypeInv
      <4> QED
        BY <2>2, <3>1, <4>1, <4>2, <4>3, Zenon DEF Others, LoginInv, Asking, Requested
    <3>3. rd[p].got \in Seq(Bytes) /\ rd[p].n \in Int /\ Minus(w, r) \in 0 .. INPUT_BUF
          /\ r \in Idx /\ w = Plus(r, Minus(w, r)) /\ INPUT_BUF \in Nat
      BY Shape, Sized DEF TypeInv, Frame
    <3>4. used \in Nat
      BY <2>2, <3>3
    <3>5. CASE rd'[p].pc = "sleep"
      <4>1. rd'[p].pc # "done" /\ rd'[p].pc # "idle"
        BY <3>5
      <4>2. rd'[p].n = rd[p].n - used /\ used < rd[p].n /\ Len(rd'[p].got) = Len(rd[p].got) + used
        BY <2>2, <3>1, <4>1, Zenon
      <4>3. Len(rd[p].got) \in Nat
        BY <3>3
      <4>4. rd'[p].n > 0 /\ rd'[p].n + Len(rd'[p].got) = Requested
        BY <3>1, <3>3, <3>4, <4>2, <4>3
      <4> QED
        BY <2>4, <3>2, <4>1, <4>4, Zenon DEF LoginInv
    <3>6. CASE rd'[p].pc = "done"
      <4>1. rd'[p].pc # "idle"
        BY <3>6
      <4>2. ASSUME used > 0, Between(r, w)[used] \in {NL, EOT}
            PROVE  EndOfLine'
        <5>1. used # 0
          BY <4>2
        <5> QED
          BY <2>2, <2>4, <4>2, <5>1, Zenon DEF EndOfLine
      <4>3. ASSUME used < Minus(w, r), buf[Plus(r, used) % INPUT_BUF] = EOT
            PROVE  EndOfLine'
        <5> DEFINE a == Minus(w, r)
        <5>1. a \in Nat /\ used + 0 <= INPUT_BUF /\ a + 0 <= INPUT_BUF /\ 0 \in Nat /\ used # a
          BY <3>3, <3>4, <4>3
        <5> HIDE DEF a
        <5>2. Minus(Plus(r, used), r) = used /\ Minus(Plus(r, a), r) = a
          BY <3>3, <3>4, <5>1, Measure, SMTT(30)
        <5>3. Plus(r, used) # w
          BY <3>3, <5>1, <5>2, Zenon DEF a
        <5> QED
          BY <2>2, <4>3, <5>3, Zenon DEF EndOfLine
      <4>4. ASSUME used > 0, used = rd[p].n, Len(rd'[p].got) = Len(rd[p].got) + used,
                   rd[p].got = << >> /\ used = 1 => rd'[p].got = <<Between(r, w)[used]>>
            PROVE  Len(rd'[p].got) = Requested /\ (login'.flush => rd'[p].got = <<last'>>)
        <5>1. Len(rd'[p].got) = Requested /\ used # 0
          BY <3>1, <3>3, <3>4, <4>4
        <5>2. ASSUME login.flush
              PROVE  rd'[p].got = <<last'>>
          <6>1. Requested = 1
            BY <5>2, Zenon DEF Requested
          <6>2. Len(rd[p].got) \in Nat
            BY <3>3
          <6>3. Len(rd[p].got) = 0 /\ used = 1
            BY <3>1, <3>3, <4>4, <6>1, <6>2
          <6>4. rd[p].got = << >>
            BY <3>3, <6>3
          <6> QED
            BY <2>2, <2>4, <4>4, <5>1, <6>3, <6>4, Zenon
        <5> QED
          BY <5>1, <5>2, <3>2, Zenon
      <4> QED
        BY <2>2, <2>4, <3>2, <3>6, <4>1, <4>2, <4>3, <4>4, Zenon DEF LoginInv
    <3> QED
      BY <2>2, <3>2, <3>5, <3>6, Zenon
  <2> QED
    BY <2>3, <2>4, Zenon DEF Readers
<1>14. CASE GetInput
  <2>1. Others(Init1) /\ rd'[Init1].pc = "read" /\ rd'[Init1].n = SIZE - 1 /\ rd'[Init1].got = << >>
    BY <1>14, CallMoves, Records, IntSize, ZenonT(30)
  <2>2. Asking /\ login'.at = login.at /\ login'.flush = FALSE
    BY <1>14, Zenon DEF GetInput, Asking, TypeInv, Login
  <2>3. /\ \A p \in Users : rd'[p] = rd[p] /\ rd'[p].pc = "idle"
        /\ Asking' /\ Requested' = SIZE - 1
    <3>1. \A p \in Users : p \in Readers \ {Init1}
      BY Members, ConsoleAssumption, Zenon
    <3>2. login.at # "shell"
      BY <2>2 DEF Asking
    <3> QED
      BY <2>1, <2>2, <3>1, <3>2, Zenon DEF Others, LoginInv, Asking, Requested
  <2>4. /\ rd'[Init1].n > 0 /\ rd'[Init1].n + Len(rd'[Init1].got) = Requested'
        /\ rd'[Init1].pc \notin {"idle", "done"}
    BY <2>1, <2>3, ConsoleAssumption
  <2> QED
    BY <2>3, <2>4, Zenon DEF LoginInv
<1>15. CASE Flush
  <2>1. Others(Init1) /\ rd'[Init1].pc = "read" /\ rd'[Init1].n = 1 /\ rd'[Init1].got = << >>
    BY <1>15, CallMoves, Records, IntSize, Zenon
  <2>2. Asking /\ login'.at = login.at /\ login'.flush = TRUE
    <3>1. rd[Init1].pc = "done" /\ login \in Login
      BY <1>15, Zenon DEF Flush, TypeInv
    <3>2. rd[Init1].pc # "idle"
      BY <3>1
    <3>3. login'.at = login.at /\ login'.flush = TRUE
      BY <1>15, <3>1 DEF Flush, Login
    <3> QED
      BY <3>2, <3>3, Zenon DEF LoginInv
  <2>3. /\ \A p \in Users : rd'[p] = rd[p] /\ rd'[p].pc = "idle"
        /\ Asking' /\ Requested' = 1
    <3>1. \A p \in Users : p \in Readers \ {Init1}
      BY Members, ConsoleAssumption, Zenon
    <3>2. login.at # "shell"
      BY <2>2 DEF Asking
    <3> QED
      BY <2>1, <2>2, <3>1, <3>2, Zenon DEF Others, LoginInv, Asking, Requested
  <2>4. /\ rd'[Init1].n > 0 /\ rd'[Init1].n + Len(rd'[Init1].got) = Requested'
        /\ rd'[Init1].pc \notin {"idle", "done"}
    BY <2>1, <2>3, ConsoleAssumption
  <2> QED
    BY <2>3, <2>4, Zenon DEF LoginInv
<1>16. CASE Answer
  <2>1. Others(Init1) /\ rd'[Init1].pc = "idle" /\ rd[Init1].pc = "done"
    BY <1>16, CallMoves, Records, Zenon DEF Answer
  <2>2. Asking /\ rd[Init1].got \in Seq(Bytes)
    <3>1. rd[Init1].pc # "idle"
      BY <2>1
    <3> QED
      BY <3>1, Members, Zenon DEF LoginInv, TypeInv, Frame
  <2>3. \A p \in Users : rd'[p].pc = "idle"
    <3>1. \A p \in Users : p \in Readers \ {Init1}
      BY Members, ConsoleAssumption, Zenon
    <3>2. login.at # "shell"
      BY <2>2 DEF Asking
    <3> QED
      BY <2>1, <3>1, <3>2, Zenon DEF Others, LoginInv
  <2>4. EndOfLine
    <3>1. \/ EndOfLine
          \/ Len(rd[Init1].got) = Requested /\ (login.flush => rd[Init1].got = <<last>>)
      BY <2>1, <2>2, Zenon DEF LoginInv
    <3>2. IF login.flush THEN rd[Init1].got \in {<< >>, <<NL>>} ELSE Len(rd[Init1].got) # SIZE - 1
      BY <1>16, Zenon DEF Answer, Truncated
    <3>3. CASE login.flush
      <4>1. SUFFICES ASSUME Len(rd[Init1].got) = 1, rd[Init1].got = <<last>>
                     PROVE  last = NL
        BY <3>1, <3>3, Zenon DEF EndOfLine, Requested
      <4>2. rd[Init1].got # << >>
        BY <4>1
      <4>3. <<last>> = <<NL>>
        BY <3>2, <3>3, <4>1, <4>2, Zenon
      <4> QED
        BY <4>3
    <3>4. CASE ~login.flush
      BY <3>1, <3>2, <3>4, Zenon DEF Requested
    <3> QED
      BY <3>3, <3>4, Zenon
  <2>5. EndOfLine'
    <3>1. UNCHANGED <<r, w, buf>> /\ (last' = None \/ last' = last)
      BY <1>16, Zenon DEF Answer, input
    <3> QED
      BY <2>4, <3>1, Zenon DEF EndOfLine
  <2>6. rd'[Init1].pc # "done"
    BY <2>1
  <2> QED
    BY <2>1, <2>3, <2>5, <2>6, Zenon DEF LoginInv
<1>17. ASSUME NEW p \in Users, UserRead(p)
      PROVE  LoginInv'
  <2>1. login.at = "shell" /\ Others(p) /\ login' = login
    BY <1>17, CallMoves, Zenon DEF UserRead
  <2> QED
    BY <2>1, <1>3, Zenon
<1>18. ASSUME NEW p \in Users, UserReturn(p)
      PROVE  LoginInv'
  <2>1. rd[p].pc = "done" /\ Others(p) /\ login' = login
    BY <1>18, CallMoves, Zenon DEF UserReturn
  <2>2. rd[p].pc # "idle"
    BY <2>1
  <2> QED
    BY <2>1, <2>2, <1>4, Zenon
<1>19. ASSUME NEW p \in Users, ReadKilled(p)
      PROVE  LoginInv'
  <2>1. rd[p].pc = "held" /\ Others(p) /\ login' = login
    BY <1>19, CallMoves, Zenon DEF ReadKilled
  <2>2. rd[p].pc # "idle"
    BY <2>1
  <2> QED
    BY <2>1, <2>2, <1>4, Zenon
<1>20. ASSUME NEW p \in Killable, Kill(p)
      PROVE  LoginInv'
  <2>1. Others(p) /\ Same(p) /\ (rd'[p].pc = "idle" <=> rd[p].pc = "idle")
        /\ (rd'[p].pc = "done" <=> rd[p].pc = "done")
    <3>1. Others(p) /\ Same(p) /\ (rd'[p].pc = IF rd[p].pc = "sleep" THEN "read" ELSE rd[p].pc)
      BY <1>20, KillMoves, Members, Zenon DEF Kill
    <3> QED
      BY <3>1
  <2>2. UNCHANGED <<r, w, buf, login, last>>
    BY <1>20, Zenon DEF Kill, input
  <2>3. ASSUME NEW q \in Readers
        PROVE  /\ Same(q) /\ (rd'[q].pc = "idle" <=> rd[q].pc = "idle")
               /\ rd'[q].pc = "done" <=> rd[q].pc = "done"
    BY <2>1, Zenon DEF Others, Same
  <2>4. EndOfLine => EndOfLine'
    BY <2>2, Zenon DEF EndOfLine
  <2> QED
    BY <2>2, <2>3, <2>4, KeepLogin, Zenon
<1> QED
  BY <1>1, <1>5, <1>6, <1>7, <1>8, <1>9, <1>10, <1>11, <1>12, <1>13, <1>14, <1>15, <1>16,
     <1>17, <1>18, <1>19, <1>20, Zenon
  DEF Next

\* Sequences of the same bytes are the same.
LEMMA SeqSame ==
  ASSUME NEW s \in Seq(Bytes), NEW t \in Seq(Bytes), Len(s) = Len(t),
         \A k \in 1 .. Len(s) : s[k] = t[k]
  PROVE  s = t
OBVIOUS

\* What SubSeq, Append and \o make of a sequence.
LEMMA SeqOps ==
  ASSUME NEW s \in Seq(Bytes)
  PROVE  /\ \A m \in 0 .. Len(s) :
              /\ SubSeq(s, 1, m) \in Seq(Bytes) /\ Len(SubSeq(s, 1, m)) = m
              /\ \A k \in 1 .. m : SubSeq(s, 1, m)[k] = s[k]
              /\ SubSeq(s, m + 1, Len(s)) \in Seq(Bytes) /\ Len(SubSeq(s, m + 1, Len(s))) = Len(s) - m
              /\ \A k \in 1 .. Len(s) - m : SubSeq(s, m + 1, Len(s))[k] = s[m + k]
         /\ \A c \in Bytes :
              /\ Append(s, c) \in Seq(Bytes) /\ Len(Append(s, c)) = Len(s) + 1
              /\ Append(s, c)[Len(s) + 1] = c
              /\ \A k \in 1 .. Len(s) : Append(s, c)[k] = s[k]
         /\ \A t \in Seq(Bytes) :
              /\ s \o t \in Seq(Bytes) /\ Len(s \o t) = Len(s) + Len(t)
              /\ \A k \in 1 .. Len(s) : (s \o t)[k] = s[k]
              /\ \A k \in 1 .. Len(t) : (s \o t)[Len(s) + k] = t[k]
<1>1. ASSUME NEW m \in 0 .. Len(s)
      PROVE  /\ SubSeq(s, 1, m) \in Seq(Bytes) /\ Len(SubSeq(s, 1, m)) = m
             /\ \A k \in 1 .. m : SubSeq(s, 1, m)[k] = s[k]
  OBVIOUS
<1>2. ASSUME NEW m \in 0 .. Len(s)
      PROVE  /\ SubSeq(s, m + 1, Len(s)) \in Seq(Bytes) /\ Len(SubSeq(s, m + 1, Len(s))) = Len(s) - m
             /\ \A k \in 1 .. Len(s) - m : SubSeq(s, m + 1, Len(s))[k] = s[m + k]
  OBVIOUS
<1>3. ASSUME NEW c \in Bytes
      PROVE  /\ Append(s, c) \in Seq(Bytes) /\ Len(Append(s, c)) = Len(s) + 1
             /\ Append(s, c)[Len(s) + 1] = c
             /\ \A k \in 1 .. Len(s) : Append(s, c)[k] = s[k]
  OBVIOUS
<1>4. ASSUME NEW t \in Seq(Bytes)
      PROVE  /\ s \o t \in Seq(Bytes) /\ Len(s \o t) = Len(s) + Len(t)
             /\ \A k \in 1 .. Len(s) : (s \o t)[k] = s[k]
             /\ \A k \in 1 .. Len(t) : (s \o t)[Len(s) + k] = t[k]
  OBVIOUS
<1> QED
  BY <1>1, <1>2, <1>3, <1>4, Zenon

\* A part of the ring as a sequence of m bytes from index i on.
Part(b, i, m) == [k \in 1 .. m |-> b[Plus(i, k - 1) % INPUT_BUF]]

\* Such a part is a sequence of m bytes,
LEMMA Parts ==
  ASSUME NEW b \in [0 .. INPUT_BUF - 1 -> Bytes], NEW i \in Idx, NEW m \in 0 .. INPUT_BUF
  PROVE  /\ Part(b, i, m) \in Seq(Bytes) /\ Len(Part(b, i, m)) = m
         /\ \A k \in 1 .. m : Part(b, i, m)[k] = b[Plus(i, k - 1) % INPUT_BUF]
<1>1. ASSUME NEW k \in 1 .. m
      PROVE  b[Plus(i, k - 1) % INPUT_BUF] \in Bytes
  <2>1. k - 1 \in Nat /\ 0 \in Nat /\ (k - 1) + 0 < U
    BY Sized
  <2>2. Plus(i, k - 1) \in Idx
    BY <2>1, PlusPlus, Zenon
  <2>3. Plus(i, k - 1) % INPUT_BUF \in 0 .. INPUT_BUF - 1
    BY <2>2, Slot, Zenon
  <2> QED
    BY <2>3, Zenon
<1>2. /\ Part(b, i, m) \in [1 .. m -> Bytes]
      /\ \A k \in 1 .. m : Part(b, i, m)[k] = b[Plus(i, k - 1) % INPUT_BUF]
  BY <1>1, Zenon DEF Part
<1>3. m \in Nat
  BY Sized
<1> QED
  BY <1>2, <1>3

\* and a sequence with the same bytes is that part.
LEMMA PartIs ==
  ASSUME NEW b \in [0 .. INPUT_BUF - 1 -> Bytes], NEW i \in Idx, NEW m \in 0 .. INPUT_BUF,
         NEW s \in Seq(Bytes), Len(s) = m, \A k \in 1 .. m : s[k] = b[Plus(i, k - 1) % INPUT_BUF]
  PROVE  Part(b, i, m) = s
<1>1. /\ Part(b, i, m) \in Seq(Bytes) /\ Len(Part(b, i, m)) = m
      /\ \A k \in 1 .. m : Part(b, i, m)[k] = b[Plus(i, k - 1) % INPUT_BUF]
  BY Parts, Zenon
<1> QED
  BY <1>1, SeqSame, Zenon

\* What can be read and what can be edited, before and after a step.
LEMMA Mapped ==
  /\ Between(r, w) = Part(buf, r, Minus(w, r)) /\ Between(w, e) = Part(buf, w, Minus(e, w))
  /\ Between(r, w)' = Part(buf', r', Minus(w', r')) /\ Between(w, e)' = Part(buf', w', Minus(e', w'))
BY Zenon DEF Between, Part, Minus, Plus

\* Every step of the console is one of the terminal, or none.
LEMMA TerminalStep ==
  ASSUME TypeInv, RingInv, [Next]_vars
  PROVE  [T!Next]_(T!vars)
<1>2. ASSUME UNCHANGED <<r, w, e, buf>>
      PROVE  [T!Next]_(T!vars)
  <2>1. UNCHANGED <<Between(w, e), Between(r, w)>>
    BY <1>2, Mapped, Zenon
  <2> QED
    BY <2>1, Zenon DEF T!vars
<1> DEFINE a == Minus(w, r)
           d == Minus(e, w)
           ready == Between(r, w)
           line == Between(w, e)
<1>3. /\ r \in Idx /\ w \in Idx /\ e \in Idx /\ w = Plus(r, a)
      /\ a \in 0 .. INPUT_BUF /\ d \in 0 .. INPUT_BUF
      /\ \A k \in 0 .. d : Plus(w, k) = Plus(r, a + k)
  BY Shape, Zenon
<1>4. /\ ready \in Seq(Bytes) /\ Len(ready) = a /\ line \in Seq(Bytes) /\ Len(line) = d
      /\ \A k \in 1 .. a : ready[k] = buf[Plus(r, k - 1) % INPUT_BUF]
      /\ \A k \in 1 .. d : line[k] = buf[Plus(w, k - 1) % INPUT_BUF]
  <2>1. buf \in [0 .. INPUT_BUF - 1 -> Bytes]
    BY Zenon DEF TypeInv
  <2>2. /\ Part(buf, r, a) \in Seq(Bytes) /\ Len(Part(buf, r, a)) = a
        /\ \A k \in 1 .. a : Part(buf, r, a)[k] = buf[Plus(r, k - 1) % INPUT_BUF]
    BY <1>3, <2>1, Parts, Zenon
  <2>3. /\ Part(buf, w, d) \in Seq(Bytes) /\ Len(Part(buf, w, d)) = d
        /\ \A k \in 1 .. d : Part(buf, w, d)[k] = buf[Plus(w, k - 1) % INPUT_BUF]
    BY <1>3, <2>1, Parts, Zenon
  <2>4. ready = Part(buf, r, a) /\ line = Part(buf, w, d)
    BY Mapped, Zenon
  <2> HIDE DEF ready, line
  <2> QED
    BY <2>2, <2>3, <2>4, Zenon
<1> HIDE DEF a, d
<1>5. ASSUME NEW b, NEW i \in Idx
      PROVE  Part(b, i, Minus(i, i)) = << >>
  <2>1. 0 \in Nat /\ 0 + 0 <= INPUT_BUF
    BY Sized
  <2>2. Plus(i, 0) = i /\ Minus(Plus(i, 0), i) = 0
    BY <2>1, Measure, SMT
  <2>3. Minus(i, i) = 0
    BY <2>2, Zenon
  <2> QED
    BY <2>3 DEF Part
<1>6. CASE UNCHANGED vars
  BY <1>6, <1>2, Zenon DEF vars, input
<1>7. CASE Interrupt
  BY <1>7, <1>2, Zenon DEF Interrupt, input
<1>8. CASE IntrXchg
  BY <1>8, <1>2, Zenon DEF IntrXchg, input
<1>9. CASE Backspace
  <2>1. UNCHANGED <<r, w, buf>>
    BY <1>9, BackspaceMoves, Zenon
  <2>2. PICK m \in 0 .. d : e' = Plus(w, m) /\ (d = 0 => m = 0) /\ (d # 0 => m = d - 1)
    BY <1>9, BackspaceMoves, Zenon DEF d
  <2>3. m \in Nat /\ 0 \in Nat /\ m + 0 <= INPUT_BUF /\ m \in 0 .. INPUT_BUF
    BY <1>3, <2>2, Sized
  <2>4. Minus(Plus(w, m), w) = m
    BY <1>3, <2>3, Measure, SMT
  <2>5. ready' = ready /\ line' = Part(buf, w, m)
    BY <2>1, <2>2, <2>4, Mapped, Zenon
  <2>6. CASE d = 0
    <3>1. line' = line /\ ready' = ready
      BY <2>2, <2>5, <2>6, Mapped, Zenon DEF d
    <3> QED
      BY <3>1, Zenon DEF T!vars
  <2>7. CASE d # 0
    <3>1. SubSeq(line, 1, m) \in Seq(Bytes) /\ Len(SubSeq(line, 1, m)) = m
          /\ \A k \in 1 .. m : SubSeq(line, 1, m)[k] = line[k]
      BY <1>4, <2>2, SeqOps, Zenon
    <3>2. 1 .. m \subseteq 1 .. d
      BY <1>3, <2>2
    <3>3. \A k \in 1 .. m : SubSeq(line, 1, m)[k] = buf[Plus(w, k - 1) % INPUT_BUF]
      BY <1>4, <3>1, <3>2, Zenon
    <3>4. Part(buf, w, m) = SubSeq(line, 1, m)
      <4>1. buf \in [0 .. INPUT_BUF - 1 -> Bytes]
        BY Zenon DEF TypeInv
      <4> QED
        BY <1>3, <2>3, <3>1, <3>3, <4>1, PartIs, Zenon
    <3>5. line # << >> /\ m = Len(line) - 1
      BY <1>4, <2>2, <2>7
    <3>6. T!Erase
      BY <2>5, <3>4, <3>5, Zenon DEF T!Erase
    <3> QED
      BY <3>6, Zenon DEF T!Next
  <2> QED
    BY <2>6, <2>7, Zenon
<1>10. CASE KillLine
  <2>1. UNCHANGED <<r, w, buf>> /\ e' = w
    BY <1>10, KillLineMoves, Zenon
  <2>2. ready' = ready /\ line' = Part(buf, w, Minus(w, w))
    BY <2>1, Mapped, Zenon
  <2>3. T!EraseAll
    BY <1>3, <1>5, <2>2, Zenon DEF T!EraseAll
  <2> QED
    BY <2>3, Zenon DEF T!Next
<1>11. ASSUME NEW c \in Chars, Type(c)
      PROVE  [T!Next]_(T!vars)
  <2>1. CASE UNCHANGED <<w, e, buf, rd>>
    BY <1>11, <1>2, <2>1, TypeMoves, Zenon
  <2>2. CASE ~UNCHANGED <<w, e, buf, rd>>
    <3>1. /\ r' = r /\ a + d < INPUT_BUF
          /\ e' = Plus(r, a + d + 1)
          /\ buf' = [buf EXCEPT ![e % INPUT_BUF] = c]
          /\ IF c \in {NL, EOT} \/ a + d + 1 = INPUT_BUF THEN w' = e' ELSE w' = w
      BY <1>11, <2>2, TypeMoves, Zenon DEF a, d
    <3>2. /\ buf'[Plus(r, a + d) % INPUT_BUF] = c
          /\ \A k \in 0 .. a + d - 1 : buf'[Plus(r, k) % INPUT_BUF] = buf[Plus(r, k) % INPUT_BUF]
      BY <3>1, Stores, Zenon DEF a, d
    <3>3. c \in Bytes /\ buf' \in [0 .. INPUT_BUF - 1 -> Bytes]
      <4>1. buf \in [0 .. INPUT_BUF - 1 -> Bytes] /\ c \in Bytes
        BY Zenon DEF TypeInv, Bytes
      <4> QED
        BY <3>1, <4>1, Zenon
    <3>4. /\ a \in Nat /\ d \in Nat /\ d + 1 \in Nat
          /\ a + (d + 1) <= INPUT_BUF /\ a + (d + 1) = a + d + 1
          /\ a + d + 1 \in Nat /\ 0 \in Nat /\ (a + d + 1) + 0 <= INPUT_BUF
          /\ a + d + 1 \in 0 .. INPUT_BUF /\ d + 1 \in 0 .. INPUT_BUF
      BY <1>3, <3>1, Sized
    <3>5. /\ Plus(r, a + d + 1) \in Idx /\ Minus(Plus(r, a + d + 1), r) = a + d + 1
          /\ Minus(Plus(r, a + (d + 1)), Plus(r, a)) = d + 1
      BY <1>3, <3>4, Measure, SMT
    <3>6. \A k \in 1 .. a : ready[k] = buf'[Plus(r, k - 1) % INPUT_BUF]
      <4> SUFFICES ASSUME NEW k \in 1 .. a
                   PROVE  ready[k] = buf'[Plus(r, k - 1) % INPUT_BUF]
        BY Zenon
      <4>1. k - 1 \in 0 .. a + d - 1
        BY <3>4
      <4> QED
        BY <1>4, <3>2, <4>1, Zenon
    <3>7. ASSUME NEW k \in 1 .. d
          PROVE  /\ buf'[Plus(r, a + (k - 1)) % INPUT_BUF] = line[k]
                 /\ buf'[Plus(w, k - 1) % INPUT_BUF] = line[k]
      <4>1. a + (k - 1) \in 0 .. a + d - 1 /\ k - 1 \in 0 .. d
        BY <3>4
      <4>2. Plus(w, k - 1) = Plus(r, a + (k - 1))
        BY <1>3, <4>1, Zenon
      <4> QED
        BY <1>4, <3>2, <4>1, <4>2, Zenon
    <3>8. buf'[Plus(w, d) % INPUT_BUF] = c
      <4>1. d \in 0 .. d
        BY <3>4
      <4> QED
        BY <1>3, <3>2, <4>1, Zenon
    <3> DEFINE all == Append(line, c)
    <3>9. /\ all \in Seq(Bytes) /\ Len(all) = d + 1 /\ all[d + 1] = c
          /\ \A k \in 1 .. d : all[k] = line[k]
      BY <1>4, <3>3, SeqOps, Zenon
    <3> HIDE DEF all
    <3>10. /\ Len(line) + Len(ready) < INPUT_BUF
           /\ Len(all) + Len(ready) = INPUT_BUF <=> a + d + 1 = INPUT_BUF
      BY <1>3, <1>4, <3>1, <3>4, <3>9
    <3>11. CASE c \in {NL, EOT} \/ a + d + 1 = INPUT_BUF
      <4> DEFINE s == ready \o all
      <4>1. /\ s \in Seq(Bytes) /\ Len(s) = Len(ready) + Len(all)
            /\ \A k \in 1 .. Len(ready) : s[k] = ready[k]
            /\ \A k \in 1 .. Len(all) : s[Len(ready) + k] = all[k]
        BY <1>4, <3>9, SeqOps, Zenon
      <4> HIDE DEF s
      <4>2. Len(s) = a + d + 1
        BY <1>4, <3>4, <3>9, <4>1
      <4>3. ASSUME NEW k \in 1 .. a + d + 1
            PROVE  s[k] = buf'[Plus(r, k - 1) % INPUT_BUF]
        <5>1. CASE k <= a
          <6>1. k \in 1 .. a
            BY <3>4, <5>1
          <6> QED
            BY <1>4, <3>6, <4>1, <6>1, Zenon
        <5>2. CASE k > a /\ k # a + d + 1
          <6>1. k - a \in 1 .. d /\ k - a \in 1 .. d + 1 /\ a + (k - a) = k /\ a + ((k - a) - 1) = k - 1
            BY <3>4, <5>2
          <6>2. s[a + (k - a)] = all[k - a] /\ all[k - a] = line[k - a]
            BY <1>4, <3>9, <4>1, <6>1, Zenon
          <6>3. buf'[Plus(r, a + ((k - a) - 1)) % INPUT_BUF] = line[k - a]
            BY <3>7, <6>1, Zenon
          <6> QED
            BY <6>1, <6>2, <6>3, Zenon
        <5>3. CASE k = a + d + 1
          <6>1. d + 1 \in 1 .. d + 1 /\ k = a + (d + 1) /\ k - 1 = a + d
            BY <3>4, <5>3
          <6> QED
            BY <1>4, <3>2, <3>9, <4>1, <6>1, Zenon
        <5> QED
          BY <3>4, <5>1, <5>2, <5>3
      <4>4. Part(buf', r, a + d + 1) = s
        BY <1>3, <3>3, <3>4, <4>1, <4>2, <4>3, PartIs, Zenon
      <4>5. w' = Plus(r, a + d + 1) /\ e' = w'
        BY <3>1, <3>11, Zenon
      <4>6. ready' = s
        BY <3>1, <3>5, <4>4, <4>5, Mapped, Zenon
      <4>7. line' = << >>
        BY <1>5, <3>3, <3>5, <4>5, Mapped, Zenon
      <4>8. T!Add(c)
        BY <3>10, <3>11, <4>6, <4>7, Zenon DEF T!Add, all, s
      <4> QED
        BY <4>8, Zenon DEF T!Next, Chars
    <3>12. CASE ~(c \in {NL, EOT} \/ a + d + 1 = INPUT_BUF)
      <4>1. w' = w /\ w = Plus(r, a)
        BY <1>3, <3>1, <3>12, Zenon
      <4>2. ASSUME NEW k \in 1 .. d + 1
            PROVE  all[k] = buf'[Plus(w, k - 1) % INPUT_BUF]
        <5>1. CASE k \in 1 .. d
          BY <3>7, <3>9, <5>1, Zenon
        <5>2. CASE k = d + 1
          <6>1. k - 1 = d
            BY <3>4, <5>2
          <6> QED
            BY <3>8, <3>9, <5>2, <6>1, Zenon
        <5>3. k \in 1 .. d \/ k = d + 1
          BY <3>4
        <5> QED
          BY <5>1, <5>2, <5>3, Zenon
      <4>3. Part(buf', w, d + 1) = all
        BY <1>3, <3>3, <3>4, <3>9, <4>2, PartIs, Zenon
      <4>4. line' = all
        BY <3>1, <3>4, <3>5, <4>1, <4>3, Mapped, Zenon
      <4>5. Part(buf', r, a) = ready
        <5>1. /\ ready \in Seq(Bytes) /\ Len(ready) = a /\ r \in Idx /\ a \in 0 .. INPUT_BUF
              /\ \A k \in 1 .. a : ready[k] = buf'[Plus(r, k - 1) % INPUT_BUF]
          BY <1>3, <1>4, <3>6, Zenon
        <5> HIDE DEF ready
        <5> QED
          BY <3>3, <5>1, PartIs, Zenon
      <4>6. ready' = ready
        BY <3>1, <4>1, <4>5, Mapped, Zenon DEF a
      <4>7. T!Add(c)
        BY <3>10, <3>12, <4>4, <4>6, Zenon DEF T!Add, all
      <4> QED
        BY <4>7, Zenon DEF T!Next, Chars
    <3> QED
      BY <3>11, <3>12, Zenon
  <2> QED
    BY <2>1, <2>2, Zenon
<1>12. ASSUME NEW p \in Readers, ReadFlags(p)
      PROVE  [T!Next]_(T!vars)
  BY <1>12, <1>2, Zenon DEF ReadFlags, input
<1>13. ASSUME NEW p \in Readers, Cli(p)
      PROVE  [T!Next]_(T!vars)
  BY <1>13, <1>2, Zenon DEF Cli, input
<1>14. ASSUME NEW p \in Readers, Xchg(p)
      PROVE  [T!Next]_(T!vars)
  BY <1>14, <1>2, Zenon DEF Xchg, input
<1>15. ASSUME NEW p \in Readers, Read(p)
      PROVE  [T!Next]_(T!vars)
  <2>1. PICK used \in 0 .. a :
        /\ r' = Plus(r, used) /\ UNCHANGED <<w, e, buf>>
        /\ \A i \in 1 .. used - 1 : ready[i] \notin {NL, EOT}
    BY <1>15, ReadMoves, Zenon DEF a
  <2>2. used \in Nat /\ a - used \in Nat /\ used + (a - used) = a /\ used + (a - used) <= INPUT_BUF
        /\ a - used \in 0 .. INPUT_BUF
    BY <1>3, <2>1, Sized
  <2>3. Plus(r, used) \in Idx /\ Plus(r, 0) = r /\ Minus(Plus(r, a), Plus(r, used)) = a - used
    <3>1. /\ Minus(Plus(r, used + (a - used)), Plus(r, used)) = a - used
          /\ Plus(r, used) \in Idx /\ Plus(r, 0) = r
      BY <1>3, <2>2, Measure, SMT
    <3> QED
      BY <2>2, <3>1, Zenon
  <2>4. CASE used = 0
    BY <1>2, <2>1, <2>3, <2>4, Zenon
  <2>5. CASE used # 0
    <3> DEFINE s == SubSeq(ready, used + 1, a)
    <3>1. s \in Seq(Bytes) /\ Len(s) = a - used /\ \A k \in 1 .. a - used : s[k] = ready[used + k]
      <4>1. Len(ready) = a /\ used \in 0 .. Len(ready) /\ ready \in Seq(Bytes)
        BY <1>4, <2>1, Zenon
      <4> HIDE DEF ready
      <4>2. /\ SubSeq(ready, used + 1, Len(ready)) \in Seq(Bytes)
            /\ Len(SubSeq(ready, used + 1, Len(ready))) = Len(ready) - used
            /\ \A k \in 1 .. Len(ready) - used :
                 SubSeq(ready, used + 1, Len(ready))[k] = ready[used + k]
        BY <4>1, SeqOps, Zenon
      <4> QED
        BY <4>1, <4>2, Zenon
    <3> HIDE DEF s
    <3>2. ASSUME NEW k \in 1 .. a - used
          PROVE  s[k] = buf[Plus(Plus(r, used), k - 1) % INPUT_BUF]
      <4>1. used + k \in 1 .. a /\ used + (k - 1) = (used + k) - 1 /\ k - 1 \in Nat
            /\ used + (k - 1) < U
        BY <1>3, <2>2, Sized
      <4>2. Plus(Plus(r, used), k - 1) = Plus(r, used + (k - 1))
        BY <1>3, <2>2, <4>1, PlusPlus, ZenonT(30)
      <4>3. ready[used + k] = buf[Plus(r, (used + k) - 1) % INPUT_BUF]
        BY <1>4, <4>1, Zenon
      <4>4. s[k] = ready[used + k]
        BY <3>1, Zenon
      <4> HIDE DEF ready
      <4>5. Plus(Plus(r, used), k - 1) = Plus(r, (used + k) - 1)
        BY <4>1, <4>2, Zenon
      <4> QED
        BY <4>3, <4>4, <4>5, Zenon
    <3>3. buf \in [0 .. INPUT_BUF - 1 -> Bytes]
      BY Zenon DEF TypeInv
    <3>4. Part(buf, Plus(r, used), a - used) = s
      BY <2>2, <2>3, <3>1, <3>2, <3>3, PartIs, Zenon
    <3>5. ready' = s /\ line' = line
      <4>1. Minus(w, Plus(r, used)) = a - used
        BY <1>3, <2>3, Zenon
      <4> QED
        BY <2>1, <3>4, <4>1, Mapped, Zenon
    <3>6. used \in 1 .. INPUT_BUF /\ used <= Len(ready)
      BY <1>3, <1>4, <2>1, <2>2, <2>5, Sized
    <3>7. T!Take(used)
      BY <1>4, <2>1, <3>5, <3>6, Zenon DEF T!Take, s
    <3> QED
      BY <3>6, <3>7, Zenon DEF T!Next
  <2> QED
    BY <2>4, <2>5, Zenon
<1>16. CASE GetInput
  BY <1>16, <1>2, Zenon DEF GetInput, input
<1>17. CASE Flush
  BY <1>17, <1>2, Zenon DEF Flush, input
<1>18. CASE Answer
  BY <1>18, <1>2, Zenon DEF Answer, input
<1>19. ASSUME NEW p \in Users, UserRead(p)
      PROVE  [T!Next]_(T!vars)
  BY <1>19, <1>2, Zenon DEF UserRead, input
<1>20. ASSUME NEW p \in Users, UserReturn(p)
      PROVE  [T!Next]_(T!vars)
  BY <1>20, <1>2, Zenon DEF UserReturn, input
<1>21. ASSUME NEW p \in Users, ReadKilled(p)
      PROVE  [T!Next]_(T!vars)
  BY <1>21, <1>2, Zenon DEF ReadKilled, input
<1>22. ASSUME NEW p \in Killable, Kill(p)
      PROVE  [T!Next]_(T!vars)
  BY <1>22, <1>2, Zenon DEF Kill, input
<1> QED
  BY <1>6, <1>7, <1>8, <1>9, <1>10, <1>11, <1>12, <1>13, <1>14, <1>15, <1>16, <1>17,
     <1>18, <1>19, <1>20, <1>21, <1>22, Zenon DEF Next

\* A CPU, and what pushcli and popcli make of it.
K(i, n, x) == [IF |-> i, ncli |-> n, intena |-> x]

\* popcli, as a function of the fields
LEMMA Pop ==
  ASSUME NEW i \in BOOLEAN, NEW n \in Int, NEW x \in BOOLEAN,
         NEW m \in Int, m = n - 1, NEW j \in BOOLEAN, j = (i \/ (n = 1 /\ x))
  PROVE  popcli(K(i, n, x)) = K(j, m, x)
<1> DEFINE k == K(i, n, x)
<1>1. k.IF = i /\ k.ncli = n /\ k.intena = x
  BY SMT DEF K
<1>2. [k EXCEPT !.ncli = m] = K(i, m, x) /\ [K(i, m, x) EXCEPT !.IF = j] = K(j, m, x)
  BY SMT DEF K
<1>3. K(i, m, x).IF = i
  BY SMT DEF K
<1> HIDE DEF k
<1>4. popcli(k) = [[k EXCEPT !.ncli = k.ncli - 1] EXCEPT !.IF = @ \/ (k.ncli = 1 /\ k.intena)]
  BY Zenon DEF popcli
<1>5. popcli(k) = [K(i, m, x) EXCEPT !.IF = j]
  BY <1>1, <1>2, <1>3, <1>4, Zenon
<1> QED
  BY <1>2, <1>5, Zenon DEF k

\* One acquire, with the pushcli and popcli of holding inside it
LEMMA Nesting ==
  ASSUME NEW i \in BOOLEAN, NEW x \in BOOLEAN, NEW f \in BOOLEAN
  PROVE  /\ pushcli(K(i, 0, x), f) = K(FALSE, 1, f)
         /\ pushcli(K(i, 1, x), f) = K(FALSE, 2, x)
         /\ popcli(K(FALSE, 2, x)) = K(FALSE, 1, x)
         /\ popcli(K(FALSE, 1, x)) = K(x, 0, x)
         /\ [K(i, 0, x) EXCEPT !.IF = f] = K(f, 0, x)
<1>1. pushcli(K(i, 0, x), f) = K(FALSE, 1, f)
  BY SMT DEF pushcli, K
<1>2. pushcli(K(i, 1, x), f) = K(FALSE, 2, x)
  BY SMT DEF pushcli, K
<1>3. 1 = 2 - 1 /\ 0 = 1 - 1 /\ 0 \in Int /\ 1 \in Int /\ 2 \in Int /\ 2 # 1
  OBVIOUS
<1>4. /\ FALSE \in BOOLEAN /\ FALSE = (FALSE \/ (2 = 1 /\ x))
      /\ x = (FALSE \/ (1 = 1 /\ x))
  BY <1>3, Zenon
<1>5. popcli(K(FALSE, 2, x)) = K(FALSE, 1, x)
  BY <1>3, <1>4, Pop, ZenonT(30)
<1>6. popcli(K(FALSE, 1, x)) = K(x, 0, x)
  <2>1. popcli(K(FALSE, 1, TRUE)) = K(TRUE, 0, TRUE)
    <3>1. TRUE \in BOOLEAN /\ TRUE = (FALSE \/ (1 = 1 /\ TRUE))
      BY Zenon
    <3> QED
      BY <1>3, <1>4, <3>1, Pop, Zenon
  <2>2. popcli(K(FALSE, 1, FALSE)) = K(FALSE, 0, FALSE)
    <3>1. FALSE = (FALSE \/ (1 = 1 /\ FALSE))
      BY Zenon
    <3> QED
      BY <1>3, <1>4, <3>1, Pop, Zenon
  <2>3. x = TRUE \/ x = FALSE
    OBVIOUS
  <2> QED
    BY <2>1, <2>2, <2>3, Zenon
<1>7. [K(i, 0, x) EXCEPT !.IF = f] = K(f, 0, x)
  BY SMT DEF K
<1> QED
  BY <1>1, <1>2, <1>5, <1>6, <1>7, Zenon

\* acquire and release of the lock, by a process and in the handler.
LEMMA CpuOps ==
  /\ \A x \in BOOLEAN : /\ AcquireBegin(On(x), TRUE) = Off(TRUE)
                        /\ AcquireBegin([On(x) EXCEPT !.IF = FALSE], FALSE) = Off(FALSE)
  /\ ReleaseCpu(Off(TRUE)) = On(TRUE)
  /\ [ReleaseCpu(Off(FALSE)) EXCEPT !.IF = TRUE] = On(FALSE)
<1>1. \A x \in BOOLEAN : On(x) = K(TRUE, 0, x) /\ Off(x) = K(FALSE, 1, x)
  BY Zenon DEF On, Off, K
<1>2. ASSUME NEW i \in BOOLEAN, NEW x \in BOOLEAN, NEW f \in BOOLEAN
      PROVE  AcquireBegin(K(i, 0, x), f) = K(FALSE, 1, f)
  <2>1. pushcli(K(i, 0, x), f) = K(FALSE, 1, f)
    BY Nesting, Zenon
  <2>2. pushcli(K(FALSE, 1, f), FALSE) = K(FALSE, 2, f)
    BY Nesting, Zenon
  <2>3. popcli(K(FALSE, 2, f)) = K(FALSE, 1, f)
    BY Nesting, Zenon
  <2> QED
    BY <2>1, <2>2, <2>3, Zenon DEF AcquireBegin
<1>3. \A f \in BOOLEAN : ReleaseCpu(K(FALSE, 1, f)) = K(f, 0, f)
  BY Nesting, Zenon DEF ReleaseCpu
<1>4. \A x \in BOOLEAN : AcquireBegin(On(x), TRUE) = Off(TRUE)
  BY <1>1, <1>2, Zenon
<1>5. \A x \in BOOLEAN : AcquireBegin([On(x) EXCEPT !.IF = FALSE], FALSE) = Off(FALSE)
  <2>1. \A x \in BOOLEAN : [K(TRUE, 0, x) EXCEPT !.IF = FALSE] = K(FALSE, 0, x)
    BY Nesting, Zenon
  <2> QED
    BY <1>1, <1>2, <2>1, Zenon
<1>6. ReleaseCpu(Off(TRUE)) = On(TRUE)
  BY <1>1, <1>3, Zenon
<1>7. [ReleaseCpu(Off(FALSE)) EXCEPT !.IF = TRUE] = On(FALSE)
  <2>1. [K(FALSE, 0, FALSE) EXCEPT !.IF = TRUE] = K(TRUE, 0, FALSE)
    BY Nesting, Zenon
  <2>2. ReleaseCpu(Off(FALSE)) = K(FALSE, 0, FALSE)
    BY <1>1, <1>3, Zenon
  <2> QED
    BY <1>1, <2>1, <2>2, Zenon
<1> QED
  BY <1>4, <1>5, <1>6, <1>7, Zenon

\* holding, as a field of the lock.
LEMMA Holding ==
  /\ \A c, d \in {0, 1} : holding(Taken(c), d) <=> c = d
  /\ \A d \in {0, 1} : ~holding(initlock, d)
BY DEF holding, Taken, initlock, NoCpu

\* The fields of the two states.
LEMMA OnOff ==
  \A x \in BOOLEAN : /\ On(x).IF = TRUE /\ On(x).ncli = 0 /\ Off(x).IF = FALSE /\ Off(x).ncli = 1
                     /\ ~PopcliPanics(Off(x))
BY DEF On, Off, PopcliPanics

\* Whoever is about to acquire finds interrupts on and the lock not held by its own CPU.
LEMMA Entering ==
  ASSUME TypeInv, CpuInv, LockInv, NEW c \in {0, 1}, Outside(c)
  PROVE  ~holding(lk, c) /\ \E x \in BOOLEAN : cpu[c] = On(x)
<1>1. \E x \in BOOLEAN : cpu[c] = On(x)
  BY Zenon DEF CpuInv
<1>2. \A p \in Readers : CpuOf(p) \in {0, 1}
  BY DEF CpuOf
<1>3. \A p \in Readers : rd[p].pc = "held" => CpuOf(p) # c
  BY Zenon DEF Outside, Inside
<1>4. intr = "held" => c # 0
  BY DEF Outside
<1>5. CASE lk = initlock
  BY <1>1, <1>5, Holding, Zenon
<1>6. CASE intr = "held"
  <2>1. lk = Taken(0) /\ 0 # c /\ 0 \in {0, 1}
    BY <1>4, <1>6, Zenon DEF LockInv
  <2> QED
    BY <1>1, <2>1, Holding, Zenon
<1>7. CASE \E p \in Readers : rd[p].pc = "held"
  <2>1. PICK p \in Readers : rd[p].pc = "held"
    BY <1>7
  <2>2. lk = Taken(CpuOf(p)) /\ CpuOf(p) # c
    BY <1>3, <2>1, Zenon DEF LockInv
  <2> QED
    BY <1>1, <1>2, <2>2, Holding, Zenon
<1> QED
  BY <1>5, <1>6, <1>7, Zenon DEF LockInv

\* What acquire and release do to the CPU, and that they do not panic.
LEMMA CliCpu ==
  ASSUME TypeInv, CpuInv, LockInv, NEW p \in Readers, Cli(p)
  PROVE  /\ Outside(CpuOf(p)) /\ cpu' = [cpu EXCEPT ![CpuOf(p)] = Off(TRUE)]
         /\ ~panicked'
<1>1. CpuOf(p) \in {0, 1}
  BY DEF CpuOf
<1>2. Outside(CpuOf(p))
  BY Zenon DEF Cli, Runs, Outside, Inside
<1>3. ~holding(lk, CpuOf(p)) /\ \E x \in BOOLEAN : cpu[CpuOf(p)] = On(x)
  BY <1>1, <1>2, Entering, Zenon
<1>4. rd[p].eflags = TRUE
  BY Zenon DEF Cli, CpuInv
<1>5. AcquireBegin(cpu[CpuOf(p)], rd[p].eflags) = Off(TRUE)
  BY <1>3, <1>4, CpuOps, Zenon
<1> QED
  BY <1>2, <1>3, <1>5, Zenon DEF Cli, AcquirePanics

\* The keyboard interrupts CPU 0 only outside of acquire and release; then consoleintr
\* finds interrupts off, and acquire does not panic.
LEMMA InterruptCpu ==
  ASSUME TypeInv, CpuInv, LockInv, Interrupt
  PROVE  /\ Outside(0) /\ cpu' = [cpu EXCEPT ![0] = Off(FALSE)]
         /\ ~panicked'
<1>1. cpu[0].IF /\ intr = "none"
  BY Zenon DEF Interrupt
<1>2. Off(TRUE).IF = FALSE
  BY OnOff, Zenon
<1>3. ASSUME NEW p \in Readers, CpuOf(p) = 0, Inside(p)
      PROVE  FALSE
  <2>1. cpu[0] = Off(TRUE)
    BY <1>3, Zenon DEF CpuInv
  <2> QED
    BY <1>1, <1>2, <2>1, Zenon
<1>4. Outside(0)
  BY <1>1, <1>3, Zenon DEF Outside
<1>5. ~holding(lk, 0) /\ \E x \in BOOLEAN : cpu[0] = On(x)
  BY <1>4, Entering, Zenon
<1>6. AcquireBegin([cpu[0] EXCEPT !.IF = FALSE], FALSE) = Off(FALSE)
  BY <1>5, CpuOps, Zenon
<1> QED
  BY <1>4, <1>5, <1>6, Zenon DEF Interrupt, AcquirePanics

\* release does not panic in consoleintr, and iret turns interrupts on again.
LEMMA IretCpu ==
  ASSUME TypeInv, CpuInv, LockInv, Iret
  PROVE  cpu' = [cpu EXCEPT ![0] = On(FALSE)] /\ ~panicked'
<1>1. intr = "held" /\ cpu[0] = Off(FALSE) /\ lk = Taken(0)
  BY Zenon DEF Iret, CpuInv, LockInv
<1>2. [ReleaseCpu(cpu[0]) EXCEPT !.IF = TRUE] = On(FALSE)
  BY <1>1, CpuOps, Zenon
<1>3. ~ReleasePanics(lk, 0, cpu[0])
  BY <1>1, Holding, OnOff, Zenon DEF ReleasePanics
<1> QED
  BY <1>2, <1>3, Zenon DEF Iret

\* release does not panic in consoleread, and popcli turns interrupts on again.
LEMMA ReleaseOfCpu ==
  ASSUME TypeInv, CpuInv, LockInv, NEW p \in Readers, rd[p].pc = "held", Release(CpuOf(p))
  PROVE  cpu' = [cpu EXCEPT ![CpuOf(p)] = On(TRUE)] /\ lk' = initlock /\ ~panicked'
<1>1. CpuOf(p) \in {0, 1}
  BY DEF CpuOf
<1>2. cpu[CpuOf(p)] = Off(TRUE) /\ lk = Taken(CpuOf(p))
  BY Zenon DEF CpuInv, LockInv, Inside
<1>3. ReleaseCpu(cpu[CpuOf(p)]) = On(TRUE)
  BY <1>2, CpuOps, Zenon
<1>4. ~ReleasePanics(lk, CpuOf(p), cpu[CpuOf(p)])
  BY <1>1, <1>2, Holding, OnOff, Zenon DEF ReleasePanics
<1> QED
  BY <1>3, <1>4, Zenon DEF Release

\* Interrupts stay as they are when nobody goes inside or out.
LEMMA KeepCpu ==
  ASSUME CpuInv, cpu' = cpu, intr' = "none" <=> intr = "none",
         \A q \in Readers : /\ rd'[q].pc \in {"spin", "held"} <=> Inside(q)
                            /\ rd'[q].pc = "cli" => rd'[q].eflags = TRUE
  PROVE  CpuInv'
<1>1. \A q \in Readers : Inside(q)' <=> Inside(q)
  BY Zenon DEF Inside
<1>2. \A c : Outside(c)' <=> Outside(c)
  BY <1>1, Zenon DEF Outside
<1> QED
  BY <1>1, <1>2, Zenon DEF CpuInv

\* A process turns interrupts off.
LEMMA EnterCpu ==
  ASSUME TypeInv, CpuInv, NEW p \in Readers, Outside(CpuOf(p)), Others(p), rd'[p].pc = "spin",
         cpu' = [cpu EXCEPT ![CpuOf(p)] = Off(TRUE)], intr' = intr
  PROVE  CpuInv'
<1>1. \A q \in Readers : CpuOf(q) \in {0, 1}
  BY DEF CpuOf
<1>2. \A q \in Readers : (Inside(q)' <=> Inside(q) \/ q = p) /\ (rd'[q].pc = "cli" => rd'[q] = rd[q])
  BY DEF Inside, Others
<1>3. cpu'[CpuOf(p)] = Off(TRUE) /\ \A c \in {0, 1} \ {CpuOf(p)} : cpu'[c] = cpu[c]
  BY <1>1, Zenon DEF TypeInv
<1>4. \A q \in Readers : Inside(q) => CpuOf(q) # CpuOf(p)
  BY Zenon DEF Outside
<1>5. \A c \in {0, 1} : Outside(c)' => c # CpuOf(p) /\ Outside(c)
  BY <1>2, Zenon DEF Outside
<1>6. CpuOf(p) = 0 => intr = "none"
  BY Zenon DEF Outside
<1> USE DEF CpuInv
<1>7. \A q, s \in Readers : Inside(q)' /\ Inside(s)' /\ CpuOf(q) = CpuOf(s) => q = s
  BY <1>2, <1>4, Zenon
<1>8. \A q \in Readers : Inside(q)' => (CpuOf(q) = 0 => intr' = "none") /\ cpu'[CpuOf(q)] = Off(TRUE)
  BY <1>1, <1>2, <1>3, <1>4, <1>6, Zenon
<1>9. intr' # "none" => cpu'[0] = Off(FALSE)
  BY <1>3, <1>6, Zenon
<1>10. \A c \in {0, 1} : Outside(c)' => \E x \in BOOLEAN : cpu'[c] = On(x)
  BY <1>3, <1>5, Zenon
<1>11. \A q \in Readers : rd'[q].pc = "cli" => rd'[q].eflags = TRUE
  BY <1>2, Zenon
<1> QED
  BY <1>7, <1>8, <1>9, <1>10, <1>11, Zenon

\* A process turns interrupts on again.
LEMMA LeaveCpu ==
  ASSUME TypeInv, CpuInv, NEW p \in Readers, Inside(p), Others(p),
         rd'[p].pc \notin {"cli", "spin", "held"},
         cpu' = [cpu EXCEPT ![CpuOf(p)] = On(TRUE)], intr' = intr
  PROVE  CpuInv'
<1>1. \A q \in Readers : CpuOf(q) \in {0, 1}
  BY DEF CpuOf
<1>2. \A q \in Readers : (Inside(q)' <=> Inside(q) /\ q # p) /\ (rd'[q].pc = "cli" => rd'[q] = rd[q])
  BY DEF Inside, Others
<1>3. cpu'[CpuOf(p)] = On(TRUE) /\ \A c \in {0, 1} \ {CpuOf(p)} : cpu'[c] = cpu[c]
  BY <1>1, Zenon DEF TypeInv
<1>4. \A q \in Readers : Inside(q) /\ CpuOf(q) = CpuOf(p) => q = p
  BY Zenon DEF CpuInv
<1>5. \A c \in {0, 1} : Outside(c)' /\ c # CpuOf(p) => Outside(c)
  BY <1>2, Zenon DEF Outside
<1>6. CpuOf(p) = 0 => intr = "none"
  BY Zenon DEF CpuInv
<1> USE DEF CpuInv
<1>7. \A q, s \in Readers : Inside(q)' /\ Inside(s)' /\ CpuOf(q) = CpuOf(s) => q = s
  BY <1>2, Zenon
<1>8. \A q \in Readers : Inside(q)' => (CpuOf(q) = 0 => intr' = "none") /\ cpu'[CpuOf(q)] = Off(TRUE)
  BY <1>1, <1>2, <1>3, <1>4, Zenon
<1>9. intr' # "none" => cpu'[0] = Off(FALSE)
  BY <1>3, <1>6, Zenon
<1>10. \A c \in {0, 1} : Outside(c)' => \E x \in BOOLEAN : cpu'[c] = On(x)
  BY <1>3, <1>5, Zenon
<1>11. \A q \in Readers : rd'[q].pc = "cli" => rd'[q].eflags = TRUE
  BY <1>2, Zenon
<1> QED
  BY <1>7, <1>8, <1>9, <1>10, <1>11, Zenon

\* The handler begins.
LEMMA InterruptStep ==
  ASSUME TypeInv, CpuInv, Outside(0), cpu' = [cpu EXCEPT ![0] = Off(FALSE)],
         intr' = "spin", rd' = rd
  PROVE  CpuInv'
<1>1. \A q \in Readers : (Inside(q)' <=> Inside(q)) /\ CpuOf(q) \in {0, 1}
  BY DEF Inside, CpuOf
<1>2. cpu'[0] = Off(FALSE) /\ cpu'[1] = cpu[1]
  BY DEF TypeInv
<1>3. \A q \in Readers : Inside(q) => CpuOf(q) = 1
  BY <1>1, Zenon DEF Outside
<1>4. \A c \in {0, 1} : Outside(c)' => c = 1 /\ Outside(c)
  BY <1>1 DEF Outside
<1> USE DEF CpuInv
<1>5. \A q \in Readers : Inside(q)' => (CpuOf(q) = 0 => intr' = "none") /\ cpu'[CpuOf(q)] = Off(TRUE)
  <2>1. 0 # 1
    OBVIOUS
  <2> QED
    BY <1>1, <1>2, <1>3, <2>1, Zenon
<1>6. \A c \in {0, 1} : Outside(c)' => \E x \in BOOLEAN : cpu'[c] = On(x)
  BY <1>2, <1>4, Zenon
<1> QED
  BY <1>1, <1>2, <1>5, <1>6, Zenon

\* The handler ends.
LEMMA IretStep ==
  ASSUME TypeInv, CpuInv, intr # "none", intr' = "none", cpu' = [cpu EXCEPT ![0] = On(FALSE)],
         \A q \in Readers : /\ rd'[q].pc \in {"spin", "held"} <=> Inside(q)
                            /\ rd'[q].pc = "cli" => rd'[q].eflags = TRUE
  PROVE  CpuInv'
<1>1. \A q \in Readers : (Inside(q)' <=> Inside(q)) /\ CpuOf(q) \in {0, 1}
  BY Zenon DEF Inside, CpuOf
<1>2. cpu'[0] = On(FALSE) /\ cpu'[1] = cpu[1] /\ 0 # 1
  BY DEF TypeInv
<1>3. \A q \in Readers : Inside(q) => CpuOf(q) = 1
  BY <1>1, Zenon DEF CpuInv
<1>4. Outside(1)' => Outside(1)
  BY <1>1, <1>2, Zenon DEF Outside
<1> USE DEF CpuInv
<1>5. \A q \in Readers : Inside(q)' => (CpuOf(q) = 0 => intr' = "none") /\ cpu'[CpuOf(q)] = Off(TRUE)
  BY <1>1, <1>2, <1>3, Zenon
<1>6. \A c \in {0, 1} : Outside(c)' => \E x \in BOOLEAN : cpu'[c] = On(x)
  BY <1>2, <1>4, Zenon
<1> QED
  BY <1>1, <1>5, <1>6, Zenon

\* One call moves, and its CPU keeps its state.
LEMMA KeepOne ==
  ASSUME CpuInv, NEW p \in Readers, Others(p), cpu' = cpu, intr' = intr,
         rd'[p].pc \in {"spin", "held"} <=> Inside(p),
         rd'[p].pc = "cli" => rd'[p].eflags = TRUE
  PROVE  CpuInv'
<1>1. ASSUME NEW q \in Readers
      PROVE  /\ rd'[q].pc \in {"spin", "held"} <=> Inside(q)
             /\ rd'[q].pc = "cli" => rd'[q].eflags = TRUE
  <2>1. CASE q = p
    BY <2>1, Zenon
  <2>2. CASE q # p
    BY <2>2, Zenon DEF Others, CpuInv, Inside
  <2> QED
    BY <2>1, <2>2, Zenon
<1> QED
  BY <1>1, KeepCpu, Zenon

\* The handler leaves the processes where they are, or wakes those that sleep.
LEMMA Woken ==
  ASSUME TypeInv, CpuInv, rd' = rd \/ Wakeup
  PROVE  \A q \in Readers : /\ rd'[q].pc \in {"spin", "held"} <=> Inside(q)
                            /\ rd'[q].pc = "held" <=> rd[q].pc = "held"
                            /\ rd'[q].pc = "cli" => rd'[q].eflags = TRUE
<1>1. CASE rd' = rd
  BY <1>1, Zenon DEF Inside, CpuInv
<1>2. CASE Wakeup
  <2>1. ASSUME NEW q \in Readers
        PROVE  /\ rd'[q].pc \in {"spin", "held"} <=> Inside(q)
               /\ rd'[q].pc = "held" <=> rd[q].pc = "held"
               /\ rd'[q].pc = "cli" => rd'[q].eflags = TRUE
    <3>1. /\ rd'[q].eflags = rd[q].eflags
          /\ rd'[q].pc = IF rd[q].pc = "sleep" THEN "read" ELSE rd[q].pc
      BY <1>2, WakeupMoves, Zenon
    <3>2. rd[q].pc = "cli" => rd[q].eflags = TRUE
      BY Zenon DEF CpuInv
    <3>3. rd'[q].pc = "cli" => rd'[q].eflags = TRUE
      BY <3>1, <3>2, Zenon
    <3>4. /\ rd'[q].pc \in {"spin", "held"} <=> Inside(q)
          /\ rd'[q].pc = "held" <=> rd[q].pc = "held"
      BY <3>1 DEF Inside
    <3> QED
      BY <3>3, <3>4, Zenon
  <2> QED
    BY <2>1, Zenon
<1> QED
  BY <1>1, <1>2, Zenon

\* pushcli and popcli are nested properly on every CPU, with the handler between any two
\* steps of a process.
LEMMA CpuStep ==
  ASSUME TypeInv, CpuInv, LockInv, RingInv, [Next]_vars
  PROVE  CpuInv'
<1>1. CASE UNCHANGED vars
  BY <1>1, KeepCpu, Woken, Zenon DEF vars, spin
<1>2. CASE Interrupt
  BY <1>2, InterruptCpu, InterruptStep, Zenon DEF Interrupt
<1>3. CASE IntrXchg
  <2>1. /\ cpu' = cpu /\ rd' = rd
        /\ intr' = "none" <=> intr = "none"
    BY <1>3 DEF IntrXchg
  <2> QED
    BY <2>1, KeepCpu, Woken, Zenon
<1>4. CASE Backspace
  <2>1. Iret /\ (rd' = rd \/ Wakeup)
    BY <1>4, Zenon DEF Backspace
  <2>2. intr # "none" /\ intr' = "none"
    BY <2>1 DEF Iret
  <2> QED
    BY <2>1, <2>2, IretCpu, IretStep, Woken, Zenon
<1>5. CASE KillLine
  <2>1. Iret /\ (rd' = rd \/ Wakeup)
    BY <1>5, Zenon DEF KillLine
  <2>2. intr # "none" /\ intr' = "none"
    BY <2>1 DEF Iret
  <2> QED
    BY <2>1, <2>2, IretCpu, IretStep, Woken, Zenon
<1>6. ASSUME NEW c \in Chars, Type(c)
      PROVE  CpuInv'
  <2>1. Iret /\ (rd' = rd \/ Wakeup)
    BY <1>6, Zenon DEF Type
  <2>2. intr # "none" /\ intr' = "none"
    BY <2>1 DEF Iret
  <2> QED
    BY <2>1, <2>2, IretCpu, IretStep, Woken, Zenon
<1>7. ASSUME NEW p \in Readers, ReadFlags(p)
      PROVE  CpuInv'
  <2>1. cpu' = cpu /\ intr' = intr /\ rd[p].pc = "read" /\ Outside(CpuOf(p))
    BY <1>7, Zenon DEF ReadFlags, spin, Runs, Outside, Inside
  <2>2. Others(p) /\ rd'[p].pc = "cli" /\ rd'[p].eflags = cpu[CpuOf(p)].IF
    BY <1>7, ReadFlagsMoves, Zenon
  <2>3. rd'[p].pc \in {"spin", "held"} <=> Inside(p)
    BY <2>1, <2>2 DEF Inside
  <2>4. CpuOf(p) \in {0, 1}
    BY DEF CpuOf
  <2>5. cpu[CpuOf(p)].IF = TRUE
    BY <2>1, <2>4, Entering, OnOff, Zenon
  <2> QED
    BY <2>1, <2>2, <2>3, <2>5, KeepOne, Zenon
<1>8. ASSUME NEW p \in Readers, Cli(p)
      PROVE  CpuInv'
  <2>1. intr' = intr /\ Others(p) /\ rd'[p].pc = "spin"
    BY <1>8, CliMoves, Zenon DEF Cli
  <2> QED
    BY <1>8, <2>1, CliCpu, EnterCpu, Zenon
<1>9. ASSUME NEW p \in Readers, Xchg(p)
      PROVE  CpuInv'
  <2>1. cpu' = cpu /\ intr' = intr /\ rd[p].pc = "spin"
    BY <1>9, Zenon DEF Xchg, spin
  <2>2. Others(p) /\ rd'[p].pc = "held"
    BY <1>9, XchgMoves, Zenon
  <2>3. (rd'[p].pc \in {"spin", "held"} <=> Inside(p)) /\ rd'[p].pc # "cli"
    BY <2>1, <2>2 DEF Inside
  <2> QED
    BY <2>1, <2>2, <2>3, KeepOne, Members, Zenon
<1>10. ASSUME NEW p \in Readers, Read(p)
      PROVE  CpuInv'
  <2>1. rd[p].pc = "held"
    BY <1>10, Zenon DEF Read
  <2>2. /\ Others(p)
        /\ \/ UNCHANGED spin /\ rd'[p].pc = "held"
           \/ Release(CpuOf(p)) /\ intr' = intr /\ rd'[p].pc \in {"sleep", "done"}
    BY <1>10, ReadMoves, Zenon
  <2>3. CASE UNCHANGED spin /\ rd'[p].pc = "held"
    <3>1. /\ cpu' = cpu /\ intr' = intr /\ rd'[p].pc # "cli"
          /\ rd'[p].pc \in {"spin", "held"} <=> Inside(p)
      BY <2>1, <2>3 DEF Inside, spin
    <3> QED
      BY <2>2, <3>1, KeepOne, Zenon
  <2>4. CASE Release(CpuOf(p)) /\ intr' = intr /\ rd'[p].pc \in {"sleep", "done"}
    <3>1. Inside(p) /\ rd'[p].pc \notin {"cli", "spin", "held"}
      BY <2>1, <2>4 DEF Inside
    <3> QED
      BY <2>1, <2>2, <2>4, <3>1, ReleaseOfCpu, LeaveCpu, Zenon
  <2> QED
    BY <2>2, <2>3, <2>4, Zenon
<1>11. CASE GetInput
  <2>1. cpu' = cpu /\ intr' = intr /\ rd[Init1].pc = "idle"
    BY <1>11, Zenon DEF GetInput, spin
  <2>2. Others(Init1) /\ rd'[Init1].pc = "read"
    BY <1>11, CallMoves, Records, IntSize, Zenon
  <2>3. (rd'[Init1].pc \in {"spin", "held"} <=> Inside(Init1)) /\ rd'[Init1].pc # "cli"
    BY <2>1, <2>2 DEF Inside
  <2> QED
    BY <2>1, <2>2, <2>3, KeepOne, Members, Zenon
<1>12. CASE Flush
  <2>1. cpu' = cpu /\ intr' = intr /\ rd[Init1].pc = "done"
    BY <1>12, Zenon DEF Flush, spin
  <2>2. Others(Init1) /\ rd'[Init1].pc = "read"
    BY <1>12, CallMoves, Records, IntSize, Zenon
  <2>3. (rd'[Init1].pc \in {"spin", "held"} <=> Inside(Init1)) /\ rd'[Init1].pc # "cli"
    BY <2>1, <2>2 DEF Inside
  <2> QED
    BY <2>1, <2>2, <2>3, KeepOne, Members, Zenon
<1>13. CASE Answer
  <2>1. cpu' = cpu /\ intr' = intr /\ rd[Init1].pc = "done"
    BY <1>13, Zenon DEF Answer, spin
  <2>2. Others(Init1) /\ rd'[Init1] = Idle
    BY <1>13, CallMoves, Zenon
  <2>3. (rd'[Init1].pc \in {"spin", "held"} <=> Inside(Init1)) /\ rd'[Init1].pc # "cli"
    BY <2>1, <2>2, Records DEF Inside
  <2> QED
    BY <2>1, <2>2, <2>3, KeepOne, Members, Zenon
<1>14. ASSUME NEW p \in Users, UserRead(p)
      PROVE  CpuInv'
  <2>1. cpu' = cpu /\ intr' = intr /\ rd[p].pc = "idle"
    BY <1>14, Zenon DEF UserRead, spin
  <2>2. Others(p) /\ rd'[p].pc = "read"
    BY <1>14, CallMoves, Zenon
  <2>3. (rd'[p].pc \in {"spin", "held"} <=> Inside(p)) /\ rd'[p].pc # "cli"
    BY <2>1, <2>2 DEF Inside
  <2> QED
    BY <2>1, <2>2, <2>3, KeepOne, Members, Zenon
<1>15. ASSUME NEW p \in Users, UserReturn(p)
      PROVE  CpuInv'
  <2>1. cpu' = cpu /\ intr' = intr /\ rd[p].pc = "done"
    BY <1>15, Zenon DEF UserReturn, spin
  <2>2. Others(p) /\ rd'[p] = Idle
    BY <1>15, CallMoves, Zenon
  <2>3. (rd'[p].pc \in {"spin", "held"} <=> Inside(p)) /\ rd'[p].pc # "cli"
    BY <2>1, <2>2, Records DEF Inside
  <2> QED
    BY <2>1, <2>2, <2>3, KeepOne, Members, Zenon
<1>16. ASSUME NEW p \in Users, ReadKilled(p)
      PROVE  CpuInv'
  <2>1. rd[p].pc = "held" /\ Release(CpuOf(p)) /\ intr' = intr /\ p \in Readers
    BY <1>16, Members, Zenon DEF ReadKilled
  <2>2. Others(p) /\ rd'[p] = Idle
    BY <1>16, CallMoves, Zenon
  <2>3. Inside(p) /\ rd'[p].pc \notin {"cli", "spin", "held"}
    BY <2>1, <2>2, Records DEF Inside
  <2> QED
    BY <2>1, <2>2, <2>3, ReleaseOfCpu, LeaveCpu, Zenon
<1>17. ASSUME NEW p \in Killable, Kill(p)
      PROVE  CpuInv'
  <2>1. cpu' = cpu /\ intr' = intr /\ p \in Readers
    BY <1>17, Members, Zenon DEF Kill, spin
  <2>2. /\ Others(p) /\ rd'[p].eflags = rd[p].eflags
        /\ rd'[p].pc = IF rd[p].pc = "sleep" THEN "read" ELSE rd[p].pc
    BY <1>17, <2>1, KillMoves, Zenon
  <2>3. (rd'[p].pc \in {"spin", "held"} <=> Inside(p)) /\ (rd'[p].pc = "cli" => rd[p].pc = "cli")
    BY <2>2 DEF Inside
  <2>4. rd'[p].pc = "cli" => rd'[p].eflags = TRUE
    BY <2>1, <2>2, <2>3, Zenon DEF CpuInv
  <2> QED
    BY <2>1, <2>2, <2>3, <2>4, KeepOne, Zenon
<1> QED
  BY <1>1, <1>2, <1>3, <1>4, <1>5, <1>6, <1>7, <1>8, <1>9, <1>10, <1>11, <1>12, <1>13,
     <1>14, <1>15, <1>16, <1>17, Zenon
  DEF Next

\* The lock stays with its holder, is taken when free, and is given back by its holder.
LEMMA KeepLock ==
  ASSUME LockInv, lk' = lk, intr' = "held" <=> intr = "held",
         \A q \in Readers : rd'[q].pc = "held" <=> rd[q].pc = "held"
  PROVE  LockInv'
BY Zenon DEF LockInv

\* The same, when one call moves
LEMMA KeepLockOne ==
  ASSUME LockInv, NEW p \in Readers, Others(p), lk' = lk, intr' = intr,
         rd'[p].pc = "held" <=> rd[p].pc = "held"
  PROVE  LockInv'
<1>1. \A q \in Readers : rd'[q].pc = "held" <=> rd[q].pc = "held"
  BY Zenon DEF Others
<1> QED
  BY <1>1, KeepLock, Zenon

\* Nobody has a free lock.
LEMMA FreeLock ==
  ASSUME LockInv, ~lk.locked
  PROVE  intr # "held" /\ \A q \in Readers : rd[q].pc # "held"
<1>1. \A c : Taken(c).locked = TRUE
  BY DEF Taken
<1> QED
  BY <1>1, Zenon DEF LockInv

\* The lock has one holder.
LEMMA OneHolder ==
  ASSUME CpuInv, LockInv, NEW p \in Readers, rd[p].pc = "held"
  PROVE  intr # "held" /\ \A q \in Readers : rd[q].pc = "held" => q = p
<1>1. \A c, d : Taken(c) = Taken(d) => c = d
  BY DEF Taken
<1>2. lk = Taken(CpuOf(p)) /\ (CpuOf(p) = 0 => intr = "none")
  BY Zenon DEF LockInv, CpuInv, Inside
<1>3. intr # "held"
  <2>1. ASSUME intr = "held"
        PROVE  FALSE
    <3>1. CpuOf(p) = 0
      BY <1>1, <1>2, <2>1, Zenon DEF LockInv
    <3> QED
      BY <1>2, <2>1, <3>1
  <2> QED
    BY <2>1
<1>4. ASSUME NEW q \in Readers, rd[q].pc = "held"
      PROVE  q = p
  <2>1. CpuOf(q) = CpuOf(p)
    BY <1>1, <1>2, <1>4, Zenon DEF LockInv
  <2> QED
    BY <1>4, <2>1, Zenon DEF CpuInv, Inside
<1> QED
  BY <1>3, <1>4, Zenon

\* release, in consoleread and in the sleep that it calls
LEMMA GiveLock ==
  ASSUME CpuInv, LockInv, NEW p \in Readers, rd[p].pc = "held", Others(p), rd'[p].pc # "held",
         lk' = initlock, intr' = intr
  PROVE  LockInv'
<1>1. intr # "held" /\ \A q \in Readers : rd[q].pc = "held" => q = p
  BY OneHolder, Zenon
<1>2. \A q \in Readers : rd'[q].pc # "held"
  BY <1>1, Zenon DEF Others
<1> QED
  BY <1>1, <1>2, Zenon DEF LockInv

\* release, in consoleintr
LEMMA IretLock ==
  ASSUME TypeInv, CpuInv, LockInv, Iret, rd' = rd \/ Wakeup
  PROVE  LockInv'
<1>1. intr = "held" /\ intr' = "none" /\ lk' = initlock
  BY Zenon DEF Iret
<1>2. \A q \in Readers : rd[q].pc # "held"
  BY <1>1, OneHolder, Zenon
<1>3. \A q \in Readers : rd'[q].pc # "held"
  BY <1>2, Woken, Zenon
<1> QED
  BY <1>1, <1>3 DEF LockInv

\* cons.lock has one holder: a process, or the handler.
LEMMA LockStep ==
  ASSUME TypeInv, CpuInv, LockInv, RingInv, [Next]_vars
  PROVE  LockInv'
<1>1. CASE UNCHANGED vars
  BY <1>1, KeepLock, Zenon DEF vars, spin
<1>2. CASE Interrupt
  <2>1. /\ lk' = lk /\ rd' = rd
        /\ intr' = "held" <=> intr = "held"
    BY <1>2 DEF Interrupt
  <2> QED
    BY <2>1, KeepLock, Zenon
<1>3. CASE IntrXchg
  <2>1. intr' = "held" /\ lk' = Taken(0) /\ rd' = rd /\ ~lk.locked
    BY <1>3, Zenon DEF IntrXchg, AcquireEnd, Taken
  <2>2. \A q \in Readers : rd[q].pc # "held"
    BY <2>1, FreeLock, Zenon
  <2> QED
    BY <2>1, <2>2, Zenon DEF LockInv
<1>4. CASE Backspace
  <2>1. Iret /\ (rd' = rd \/ Wakeup)
    BY <1>4, Zenon DEF Backspace
  <2> QED
    BY <2>1, IretLock, Zenon
<1>5. CASE KillLine
  <2>1. Iret /\ (rd' = rd \/ Wakeup)
    BY <1>5, Zenon DEF KillLine
  <2> QED
    BY <2>1, IretLock, Zenon
<1>6. ASSUME NEW c \in Chars, Type(c)
      PROVE  LockInv'
  <2>1. Iret /\ (rd' = rd \/ Wakeup)
    BY <1>6, Zenon DEF Type
  <2> QED
    BY <2>1, IretLock, Zenon
<1>7. ASSUME NEW p \in Readers, ReadFlags(p)
      PROVE  LockInv'
  <2>1. lk' = lk /\ intr' = intr /\ rd[p].pc = "read"
    BY <1>7, Zenon DEF ReadFlags, spin
  <2>2. Others(p) /\ rd'[p].pc = "cli"
    BY <1>7, ReadFlagsMoves, Zenon
  <2>3. rd'[p].pc = "held" <=> rd[p].pc = "held"
    BY <2>1, <2>2
  <2> QED
    BY <2>1, <2>2, <2>3, KeepLockOne, Members, Zenon
<1>8. ASSUME NEW p \in Readers, Cli(p)
      PROVE  LockInv'
  <2>1. lk' = lk /\ intr' = intr /\ rd[p].pc = "cli"
    BY <1>8, Zenon DEF Cli, spin
  <2>2. Others(p) /\ rd'[p].pc = "spin"
    BY <1>8, CliMoves, Zenon
  <2>3. rd'[p].pc = "held" <=> rd[p].pc = "held"
    BY <2>1, <2>2
  <2> QED
    BY <2>1, <2>2, <2>3, KeepLockOne, Members, Zenon
<1>9. ASSUME NEW p \in Readers, Xchg(p)
      PROVE  LockInv'
  <2>1. intr' = intr /\ lk' = Taken(CpuOf(p)) /\ ~lk.locked
    BY <1>9, Zenon DEF Xchg, AcquireEnd, Taken
  <2>2. Others(p) /\ rd'[p].pc = "held"
    BY <1>9, XchgMoves, Zenon
  <2>3. intr # "held" /\ \A q \in Readers : rd[q].pc # "held"
    BY <2>1, FreeLock, Zenon
  <2>4. \A q \in Readers : rd'[q].pc = "held" => q = p
    BY <2>2, <2>3, Zenon DEF Others
  <2> QED
    BY <2>1, <2>2, <2>3, <2>4, Zenon DEF LockInv
<1>10. ASSUME NEW p \in Readers, Read(p)
      PROVE  LockInv'
  <2>1. rd[p].pc = "held"
    BY <1>10, Zenon DEF Read
  <2>2. /\ Others(p)
        /\ \/ UNCHANGED spin /\ rd'[p].pc = "held"
           \/ Release(CpuOf(p)) /\ intr' = intr /\ rd'[p].pc \in {"sleep", "done"}
    BY <1>10, ReadMoves, Zenon
  <2>3. CASE UNCHANGED spin /\ rd'[p].pc = "held"
    BY <2>1, <2>2, <2>3, KeepLockOne, Zenon DEF spin
  <2>4. CASE Release(CpuOf(p)) /\ intr' = intr /\ rd'[p].pc \in {"sleep", "done"}
    <3>1. lk' = initlock /\ rd'[p].pc # "held"
      BY <2>4 DEF Release
    <3> QED
      BY <2>1, <2>2, <2>4, <3>1, GiveLock, Zenon
  <2> QED
    BY <2>2, <2>3, <2>4, Zenon
<1>11. CASE GetInput
  <2>1. lk' = lk /\ intr' = intr /\ rd[Init1].pc = "idle"
    BY <1>11, Zenon DEF GetInput, spin
  <2>2. Others(Init1) /\ rd'[Init1].pc = "read"
    BY <1>11, CallMoves, Records, IntSize, Zenon
  <2>3. rd'[Init1].pc = "held" <=> rd[Init1].pc = "held"
    BY <2>1, <2>2
  <2> QED
    BY <2>1, <2>2, <2>3, KeepLockOne, Members, Zenon
<1>12. CASE Flush
  <2>1. lk' = lk /\ intr' = intr /\ rd[Init1].pc = "done"
    BY <1>12, Zenon DEF Flush, spin
  <2>2. Others(Init1) /\ rd'[Init1].pc = "read"
    BY <1>12, CallMoves, Records, IntSize, Zenon
  <2>3. rd'[Init1].pc = "held" <=> rd[Init1].pc = "held"
    BY <2>1, <2>2
  <2> QED
    BY <2>1, <2>2, <2>3, KeepLockOne, Members, Zenon
<1>13. CASE Answer
  <2>1. lk' = lk /\ intr' = intr /\ rd[Init1].pc = "done"
    BY <1>13, Zenon DEF Answer, spin
  <2>2. Others(Init1) /\ rd'[Init1] = Idle
    BY <1>13, CallMoves, Zenon
  <2>3. rd'[Init1].pc = "held" <=> rd[Init1].pc = "held"
    BY <2>1, <2>2, Records
  <2> QED
    BY <2>1, <2>2, <2>3, KeepLockOne, Members, Zenon
<1>14. ASSUME NEW p \in Users, UserRead(p)
      PROVE  LockInv'
  <2>1. lk' = lk /\ intr' = intr /\ rd[p].pc = "idle"
    BY <1>14, Zenon DEF UserRead, spin
  <2>2. Others(p) /\ rd'[p].pc = "read"
    BY <1>14, CallMoves, Zenon
  <2>3. rd'[p].pc = "held" <=> rd[p].pc = "held"
    BY <2>1, <2>2
  <2> QED
    BY <2>1, <2>2, <2>3, KeepLockOne, Members, Zenon
<1>15. ASSUME NEW p \in Users, UserReturn(p)
      PROVE  LockInv'
  <2>1. lk' = lk /\ intr' = intr /\ rd[p].pc = "done"
    BY <1>15, Zenon DEF UserReturn, spin
  <2>2. Others(p) /\ rd'[p] = Idle
    BY <1>15, CallMoves, Zenon
  <2>3. rd'[p].pc = "held" <=> rd[p].pc = "held"
    BY <2>1, <2>2, Records
  <2> QED
    BY <2>1, <2>2, <2>3, KeepLockOne, Members, Zenon
<1>16. ASSUME NEW p \in Users, ReadKilled(p)
      PROVE  LockInv'
  <2>1. rd[p].pc = "held" /\ lk' = initlock /\ intr' = intr /\ p \in Readers
    BY <1>16, Members, Zenon DEF ReadKilled, Release
  <2>2. Others(p) /\ rd'[p].pc = "idle"
    BY <1>16, CallMoves, Records, Zenon
  <2> QED
    BY <2>1, <2>2, GiveLock, Zenon
<1>17. ASSUME NEW p \in Killable, Kill(p)
      PROVE  LockInv'
  <2>1. lk' = lk /\ intr' = intr /\ p \in Readers
    BY <1>17, Members, Zenon DEF Kill, spin
  <2>2. Others(p) /\ rd'[p].pc = IF rd[p].pc = "sleep" THEN "read" ELSE rd[p].pc
    BY <1>17, <2>1, KillMoves, Zenon
  <2>3. rd'[p].pc = "held" <=> rd[p].pc = "held"
    BY <2>2
  <2> QED
    BY <2>1, <2>2, <2>3, KeepLockOne, Zenon
<1> QED
  BY <1>1, <1>2, <1>3, <1>4, <1>5, <1>6, <1>7, <1>8, <1>9, <1>10, <1>11, <1>12, <1>13,
     <1>14, <1>15, <1>16, <1>17, Zenon
  DEF Next
\* Neither acquire, release nor popcli panics.
LEMMA NoPanicStep ==
  ASSUME TypeInv, CpuInv, LockInv, RingInv, ~panicked, [Next]_vars
  PROVE  ~panicked'
<1>1. CASE UNCHANGED vars
  BY <1>1, Zenon DEF vars, spin
<1>2. CASE Interrupt
  BY <1>2, InterruptCpu, Zenon
<1>3. CASE IntrXchg
  BY <1>3, Zenon DEF IntrXchg, spin
<1>4. CASE Backspace
  <2>1. Iret
    BY <1>4, Zenon DEF Backspace
  <2> QED
    BY <2>1, IretCpu, Zenon
<1>5. CASE KillLine
  <2>1. Iret
    BY <1>5, Zenon DEF KillLine
  <2> QED
    BY <2>1, IretCpu, Zenon
<1>6. ASSUME NEW c \in Chars, Type(c)
      PROVE  ~panicked'
  <2>1. Iret
    BY <1>6, Zenon DEF Type
  <2> QED
    BY <2>1, IretCpu, Zenon
<1>7. ASSUME NEW p \in Readers, ReadFlags(p)
      PROVE  ~panicked'
  BY <1>7, Zenon DEF ReadFlags, spin
<1>8. ASSUME NEW p \in Readers, Cli(p)
      PROVE  ~panicked'
  BY <1>8, CliCpu, Zenon
<1>9. ASSUME NEW p \in Readers, Xchg(p)
      PROVE  ~panicked'
  BY <1>9, Zenon DEF Xchg, spin
<1>10. ASSUME NEW p \in Readers, Read(p)
      PROVE  ~panicked'
  <2>1. rd[p].pc = "held"
    BY <1>10, Zenon DEF Read
  <2>2. UNCHANGED spin \/ Release(CpuOf(p))
    BY <1>10, ReadMoves, Zenon
  <2> QED
    BY <2>1, <2>2, ReleaseOfCpu, Zenon DEF spin
<1>11. CASE GetInput
  BY <1>11, Zenon DEF GetInput, spin
<1>12. CASE Flush
  BY <1>12, Zenon DEF Flush, spin
<1>13. CASE Answer
  BY <1>13, Zenon DEF Answer, spin
<1>14. ASSUME NEW p \in Users, UserRead(p)
      PROVE  ~panicked'
  BY <1>14, Zenon DEF UserRead, spin
<1>15. ASSUME NEW p \in Users, UserReturn(p)
      PROVE  ~panicked'
  BY <1>15, Zenon DEF UserReturn, spin
<1>16. ASSUME NEW p \in Users, ReadKilled(p)
      PROVE  ~panicked'
  <2>1. rd[p].pc = "held" /\ Release(CpuOf(p)) /\ p \in Readers
    BY <1>16, Members, Zenon DEF ReadKilled
  <2> QED
    BY <2>1, ReleaseOfCpu, Zenon
<1>17. ASSUME NEW p \in Killable, Kill(p)
      PROVE  ~panicked'
  BY <1>17, Zenon DEF Kill, spin
<1> QED
  BY <1>1, <1>2, <1>3, <1>4, <1>5, <1>6, <1>7, <1>8, <1>9, <1>10, <1>11, <1>12, <1>13,
     <1>14, <1>15, <1>16, <1>17, Zenon
  DEF Next

\* The types; the ring is read and written inside its bounds.
LEMMA TypeStep ==
  ASSUME TypeInv, CpuInv, LockInv, RingInv, [Next]_vars
  PROVE  TypeInv'
<1>1. CASE UNCHANGED vars
  BY <1>1, Zenon DEF vars, TypeInv, input, spin
<1>2. cpu \in [{0, 1} -> Cpu] /\ \A p \in Readers : CpuOf(p) \in {0, 1}
  BY Zenon DEF TypeInv, CpuOf
<1>3. r' \in Idx /\ w' \in Idx /\ e' \in Idx
  BY RingStep, Zenon
<1>4. \A c \in {0, 1}, x \in BOOLEAN : /\ [cpu EXCEPT ![c] = On(x)] \in [{0, 1} -> Cpu]
                                       /\ [cpu EXCEPT ![c] = Off(x)] \in [{0, 1} -> Cpu]
  <2>1. \A x \in BOOLEAN : On(x) \in Cpu /\ Off(x) \in Cpu
    BY Zenon DEF Cpu
  <2> QED
    BY <1>2, <2>1, Zenon
<1>5. CASE Interrupt
  <2>1. cpu' \in [{0, 1} -> Cpu]
    BY <1>5, <1>2, <1>4, InterruptCpu, Zenon
  <2> QED
    BY <1>5, <2>1, <1>3, Zenon DEF Interrupt, TypeInv, input
<1>6. CASE IntrXchg
  BY <1>6, <1>3, Zenon DEF IntrXchg, TypeInv, input
<1>7. CASE Backspace
  <2>1. Iret /\ UNCHANGED <<buf, rd, killed, login>>
    BY <1>7, Zenon DEF Backspace
  <2>2. cpu' \in [{0, 1} -> Cpu]
    BY <2>1, <1>2, <1>4, IretCpu, Zenon
  <2> QED
    BY <2>1, <2>2, <1>3, Zenon DEF Iret, TypeInv
<1>8. CASE KillLine
  <2>1. Iret /\ UNCHANGED <<buf, rd, killed, login>>
    BY <1>8, Zenon DEF KillLine
  <2>2. cpu' \in [{0, 1} -> Cpu]
    BY <2>1, <1>2, <1>4, IretCpu, Zenon
  <2> QED
    BY <2>1, <2>2, <1>3, Zenon DEF Iret, TypeInv
<1>9. ASSUME NEW c \in Chars, Type(c)
      PROVE  TypeInv'
  <2>1. Iret /\ UNCHANGED <<killed, login>> /\ (rd' = rd \/ Wakeup)
    BY <1>9, Zenon DEF Type
  <2>2. cpu' \in [{0, 1} -> Cpu]
    BY <2>1, <1>2, <1>4, IretCpu, Zenon
  <2>3. rd' \in [Readers -> Frame]
    BY <2>1, WakeupMoves, Zenon DEF TypeInv
  <2>4. buf' \in [0 .. INPUT_BUF - 1 -> Bytes]
    <3>1. c \in Bytes /\ buf \in [0 .. INPUT_BUF - 1 -> Bytes]
      BY Zenon DEF Bytes, TypeInv
    <3>2. buf' = buf \/ buf' = [buf EXCEPT ![e % INPUT_BUF] = c]
      BY <1>9, TypeMoves, Zenon
    <3> QED
      BY <3>1, <3>2, Zenon
  <2> QED
    BY <2>1, <2>2, <2>3, <2>4, <1>3, Zenon DEF Iret, TypeInv
<1>10. ASSUME NEW p \in Readers, ReadFlags(p)
      PROVE  TypeInv'
  <2>1. rd' \in [Readers -> Frame]
    BY <1>10, ReadFlagsMoves, Zenon DEF Others
  <2> QED
    BY <1>10, <2>1, <1>3, Zenon DEF ReadFlags, TypeInv, input, spin
<1>11. ASSUME NEW p \in Readers, Cli(p)
      PROVE  TypeInv'
  <2>1. rd' \in [Readers -> Frame]
    BY <1>11, CliMoves, Zenon DEF Others
  <2>2. cpu' \in [{0, 1} -> Cpu]
    BY <1>11, <1>2, <1>4, CliCpu, Zenon
  <2> QED
    BY <1>11, <2>1, <2>2, <1>3, Zenon DEF Cli, TypeInv, input
<1>12. ASSUME NEW p \in Readers, Xchg(p)
      PROVE  TypeInv'
  <2>1. rd' \in [Readers -> Frame]
    BY <1>12, XchgMoves, Zenon DEF Others
  <2> QED
    BY <1>12, <2>1, <1>3, Zenon DEF Xchg, TypeInv, input, spin
<1>13. ASSUME NEW p \in Readers, Read(p)
      PROVE  TypeInv'
  <2>1. /\ rd' \in [Readers -> Frame] /\ UNCHANGED <<buf, killed, login>> /\ rd[p].pc = "held"
        /\ intr' = intr /\ (cpu' = cpu \/ Release(CpuOf(p)))
    BY <1>13, ReadMoves, Zenon DEF Others, spin, Read
  <2>2. cpu' \in [{0, 1} -> Cpu]
    BY <2>1, <1>2, <1>4, ReleaseOfCpu, Zenon
  <2> QED
    BY <2>1, <2>2, <1>3, Zenon DEF TypeInv
<1>14. CASE GetInput
  <2>1. rd' \in [Readers -> Frame]
    BY <1>14, CallMoves, Zenon DEF Others
  <2> QED
    BY <1>14, <2>1, <1>3, Zenon DEF GetInput, TypeInv, input, spin
<1>15. CASE Flush
  <2>1. rd' \in [Readers -> Frame]
    BY <1>15, CallMoves, Zenon DEF Others
  <2>2. login' \in Login
    <3>1. rd[Init1].got \in Seq(Bytes)
      BY Members DEF TypeInv, Frame
    <3>2. login \in Login
      BY Zenon DEF TypeInv, Login
    <3> DEFINE b == IF login.flush THEN login.buffer ELSE rd[Init1].got
    <3>3. b \in Seq(Bytes)
      BY <3>1, <3>2 DEF Login
    <3>4. login' = [login EXCEPT !.flush = TRUE, !.buffer = b]
      BY <1>15, Zenon DEF Flush
    <3> HIDE DEF b
    <3> QED
      BY <3>2, <3>3, <3>4, Zenon DEF Login
  <2> QED
    BY <1>15, <2>1, <2>2, <1>3, Zenon DEF Flush, TypeInv, input, spin, Login
<1>16. CASE Answer
  <2>1. rd' \in [Readers -> Frame]
    BY <1>16, CallMoves, Zenon DEF Others
  <2>2. login' \in Login
    <3>1. login.attempts + 1 \in Nat /\ login.attempts \in Nat /\ 0 \in Nat
      BY DEF TypeInv, Login
    <3>2. << >> \in Seq(Bytes)
      OBVIOUS
    <3>3. \A n \in Nat, x \in {"username", "password", "shell", "disabled"} : Ask(n, x) \in Login
      BY <3>2, Zenon DEF Ask, Login
    <3>4. \E n \in Nat, x \in {"username", "password", "shell", "disabled"} : login' = Ask(n, x)
      BY <1>16, <3>1, Zenon DEF Answer
    <3> QED
      BY <3>3, <3>4, Zenon
  <2> QED
    BY <1>16, <2>1, <2>2, <1>3, Zenon DEF Answer, TypeInv, input, spin, Login
<1>17. ASSUME NEW p \in Users, UserRead(p)
      PROVE  TypeInv'
  <2>1. rd' \in [Readers -> Frame]
    BY <1>17, CallMoves, Zenon DEF Others
  <2> QED
    BY <1>17, <2>1, <1>3, Zenon DEF UserRead, TypeInv, input, spin
<1>18. ASSUME NEW p \in Users, UserReturn(p)
      PROVE  TypeInv'
  <2>1. rd' \in [Readers -> Frame]
    BY <1>18, CallMoves, Zenon DEF Others
  <2> QED
    BY <1>18, <2>1, <1>3, Zenon DEF UserReturn, TypeInv, input, spin
<1>19. ASSUME NEW p \in Users, ReadKilled(p)
      PROVE  TypeInv'
  <2>1. rd' \in [Readers -> Frame]
    BY <1>19, CallMoves, Zenon DEF Others
  <2>2. rd[p].pc = "held" /\ Release(CpuOf(p)) /\ p \in Readers
    BY <1>19, Members, Zenon DEF ReadKilled
  <2>3. cpu' \in [{0, 1} -> Cpu]
    BY <2>2, <1>2, <1>4, ReleaseOfCpu, Zenon
  <2> QED
    BY <1>19, <2>1, <2>3, <1>3, Zenon DEF ReadKilled, TypeInv, input
<1>20. ASSUME NEW p \in Killable, Kill(p)
      PROVE  TypeInv'
  <2>1. rd' \in [Readers -> Frame]
    BY <1>20, KillMoves, Members, Zenon DEF Others
  <2>2. killed' \subseteq Users
    BY <1>20, ConsoleAssumption, Zenon DEF Kill, TypeInv
  <2> QED
    BY <1>20, <2>1, <2>2, <1>3, Zenon DEF Kill, TypeInv, input, spin
<1> QED
  BY <1>1, <1>5, <1>6, <1>7, <1>8, <1>9, <1>10, <1>11, <1>12, <1>13, <1>14, <1>15, <1>16,
     <1>17, <1>18, <1>19, <1>20, Zenon
  DEF Next

\* The invariant holds when consoleinit has run and init is about to ask.
LEMMA InitInv ==
  ASSUME Init
  PROVE  IInv
<1>1. TypeInv
  <2>1. /\ 0 \in Idx /\ 0 \in Int /\ 0 \in Nat /\ << >> \in Seq(Bytes) /\ None \in Bytes
    BY Sized DEF Idx, Bytes
  <2>2. login \in Login /\ InitCpu \in Cpu
    BY <2>1, Zenon DEF Init, Ask, Login, InitCpu, Cpu, On
  <2> QED
    BY <2>1, <2>2, Records, Zenon DEF Init, TypeInv
<1>2. /\ \A p \in Readers : rd[p].pc = "idle"
      /\ \A c \in {0, 1} : cpu[c] = On(FALSE)
      /\ lk = initlock /\ intr = "none" /\ panicked = FALSE /\ r = w /\ w = e /\ killed = {}
      /\ login.at = "username" /\ last = None /\ w \in Idx
  BY <1>1, Records DEF Init, Ask, InitCpu, On, TypeInv
<1>3. CpuInv /\ LockInv /\ SleepInv
  <2>1. \A p \in Readers : rd[p].pc \notin {"cli", "spin", "held", "sleep"}
    BY <1>2
  <2>2. intr # "held" /\ FALSE \in BOOLEAN
    BY <1>2
  <2> QED
    BY <1>2, <2>1, <2>2, Zenon DEF CpuInv, LockInv, SleepInv, Inside, Outside
<1>4. RingInv
  <2>1. 0 \in Nat /\ 0 + 0 <= INPUT_BUF /\ INPUT_BUF # 0 /\ INPUT_BUF \in Nat
    BY Sized
  <2>2. Plus(w, 0) = w /\ Minus(Plus(w, 0), w) = 0
    BY <1>2, <2>1, Measure, SMT
  <2>3. Minus(w, r) = 0 /\ Minus(e, w) = 0
    BY <1>2, <2>2, Zenon
  <2> QED
    BY <2>1, <2>3 DEF RingInv
<1>5. LoginInv
  <2>1. rd[Init1].pc = "idle" /\ Asking /\ EndOfLine /\ \A p \in Users : rd[p].pc = "idle"
    BY <1>2, Members, Zenon DEF Asking, EndOfLine
  <2>2. rd[Init1].pc # "done"
    BY <2>1
  <2> QED
    BY <2>1, <2>2, Zenon DEF LoginInv
<1> QED
  BY <1>1, <1>2, <1>3, <1>4, <1>5, Zenon DEF IInv

\* Whatever the keyboard, the readers, kill and the login do, in any order and on either
\* CPU, the invariant of the console holds (consoleintr, consoleread, acquire, release).
THEOREM Invariance == Spec => []IInv
<1>1. IInv /\ [Next]_vars => IInv'
  BY TypeStep, CpuStep, LockStep, NoPanicStep, RingStep, SleepStep, LoginStep, Zenon DEF IInv
<1> QED
  BY InitInv, <1>1, PTL DEF Spec

\* However acquire, holding, release and the interrupt handler are nested on a CPU, it
\* has interrupts on between its locks, nobody spins for a lock that its own CPU holds,
\* and neither acquire, release nor popcli panics (spinlock.c).
THEOREM InterruptsAlwaysSound == Spec => []InterruptsSound
<1>1. IInv => InterruptsSound
  <2> SUFFICES ASSUME TypeInv, CpuInv, LockInv, ~panicked
               PROVE  InterruptsSound
    BY Zenon DEF IInv
  <2>1. ASSUME intr = "spin"
        PROVE  ~holding(lk, 0)
    <3> SUFFICES ASSUME holding(lk, 0)
                 PROVE  FALSE
      BY Zenon
    <3>1. intr # "none" /\ intr # "held"
      BY <2>1
    <3>2. PICK p \in Readers : rd[p].pc = "held"
      BY <3>1, Holding, Zenon DEF LockInv
    <3>3. lk = Taken(CpuOf(p)) /\ CpuOf(p) \in {0, 1}
      BY <3>2, Zenon DEF LockInv, CpuOf
    <3>4. CpuOf(p) = 0
      BY <3>3, Holding, Zenon
    <3> QED
      BY <3>1, <3>2, <3>4, Zenon DEF CpuInv, Inside
  <2>2. ASSUME NEW p \in Readers, rd[p].pc = "spin"
        PROVE  ~holding(lk, CpuOf(p))
    <3> SUFFICES ASSUME holding(lk, CpuOf(p))
                 PROVE  FALSE
      BY Zenon
    <3>1. Inside(p) /\ CpuOf(p) \in {0, 1} /\ rd[p].pc # "held"
      BY <2>2 DEF Inside, CpuOf
    <3>2. CASE intr = "held"
      <4>1. CpuOf(p) = 0
        BY <3>1, <3>2, Holding, Zenon DEF LockInv
      <4>2. intr # "none"
        BY <3>2
      <4> QED
        BY <3>1, <4>1, <4>2, Zenon DEF CpuInv
    <3>3. CASE intr # "held"
      <4>1. PICK q \in Readers : rd[q].pc = "held"
        BY <3>1, <3>3, Holding, Zenon DEF LockInv
      <4>2. lk = Taken(CpuOf(q)) /\ CpuOf(q) \in {0, 1} /\ Inside(q)
        BY <4>1, Zenon DEF LockInv, CpuOf, Inside
      <4>3. CpuOf(q) = CpuOf(p)
        BY <3>1, <4>2, Holding, Zenon
      <4> QED
        BY <3>1, <4>1, <4>2, <4>3, Zenon DEF CpuInv
    <3> QED
      BY <3>2, <3>3, Zenon
  <2>3. ASSUME NEW c \in {0, 1}, Outside(c)
        PROVE  cpu[c].IF /\ cpu[c].ncli = 0
    BY <2>3, OnOff, Zenon DEF CpuInv
  <2> QED
    BY <2>1, <2>2, <2>3, Zenon DEF InterruptsSound, Outside, Inside
<1> QED
  BY Invariance, <1>1, PTL

\* No process sleeps in consoleread with input to read, or killed; and a full ring can
\* be read, whatever the size of the ring and of the indices (console.c).
THEOREM SleepersHaveNoInput == Spec => []NobodySleepsOnInput
<1>1. IInv => NobodySleepsOnInput
  <2> SUFFICES ASSUME TypeInv, RingInv, SleepInv
               PROVE  NobodySleepsOnInput
    BY Zenon DEF IInv
  <2>1. ASSUME Minus(e, r) = INPUT_BUF
        PROVE  w = e
    <3>1. Minus(e, w) = 0
      BY <2>1, Shape, Zenon DEF RingInv
    <3>2. w \in Idx /\ e = Plus(w, Minus(e, w)) /\ 0 \in Nat /\ 0 + 0 < U
      BY Shape, Sized
    <3>3. Plus(w, 0) = w
      BY <3>2, PlusPlus, Zenon
    <3> QED
      BY <3>1, <3>2, <3>3, Zenon
  <2> QED
    BY <2>1, Zenon DEF NobodySleepsOnInput, SleepInv
<1> QED
  BY Invariance, <1>1, PTL

\* get_input of init.c has read to the end of a line when it asks again, whatever the
\* size of its buffers and the length of the lines.
THEOREM AnswersAlwaysLines == Spec => []AnswersAreLines
<1>1. IInv => AnswersAreLines
  BY Zenon DEF IInv, LoginInv, AnswersAreLines, EndOfLine, Asking
<1> QED
  BY Invariance, <1>1, PTL

\* The ring of input.buf, with its three wrapping indices, implements the terminal: what
\* is typed is edited until it is complete, and then read once and in order (console.c).
THEOREM ConsoleIsTerminal == Spec => ImplementsTerminal
<1>1. Init => T!Init
  <2> SUFFICES ASSUME Init
               PROVE  T!Init
    OBVIOUS
  <2>1. r \in Idx /\ w = r /\ e = r
    BY Sized DEF Init, Idx
  <2>2. 0 \in Nat /\ 0 + 0 <= INPUT_BUF
    BY Sized
  <2>3. Plus(r, 0) = r /\ Minus(Plus(r, 0), r) = 0
    BY <2>1, <2>2, Measure, SMTT(30)
  <2>4. Minus(r, r) = 0
    BY <2>3, Zenon
  <2>5. Between(r, r) = << >>
    BY <2>4 DEF Between
  <2> QED
    BY <2>1, <2>5, Zenon DEF T!Init
<1>2. IInv /\ [Next]_vars => [T!Next]_(T!vars)
  BY TerminalStep, Zenon DEF IInv
<1> QED
  BY Invariance, <1>1, <1>2, PTL DEF Spec, ImplementsTerminal, T!Spec
=============================================================================
