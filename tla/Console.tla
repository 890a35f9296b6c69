------------------------------ MODULE Console ------------------------------
(***************************************************************************)
(* Console input (console.c) and the processes that read it: init with its *)
(* login dialogue (init.c), and after it the shell and another program.    *)
(*                                                                         *)
(* What happens under cons.lock is one step, and so is each step of        *)
(* acquire that an interrupt or another CPU can come before.  The keyboard *)
(* interrupts CPU 0, where interrupts are on; sleep gives cons.lock back.  *)
(* The indices r, w and e are unsigned and wrap around, here at U.  The    *)
(* characters that matter are letters, newline, control-D, backspace and   *)
(* control-U; control-P only prints and NUL is ignored.  Output is device  *)
(* I/O and is left out.                                                    *)
(***************************************************************************)
EXTENDS SpinLock, Sequences, FiniteSets, FiniteSetsExt

CONSTANTS
  INPUT_BUF, U,             \* the ring, and the wrap-around, a multiple of it
  Letters,                  \* characters of names and lines
  NL, EOT,                  \* '\n' and C('D')
  Init1,                    \* init, and
  Users,                    \* the processes that read after the login,
  OnCpu1,                   \* of which these run on CPU 1 and all others on CPU 0
  SIZE,                     \* sizeof(username), sizeof(password)
  USERNAME, PASSWORD,
  MAX_ATTEMPTS,
  Sizes, Killable           \* bounds: the sizes of the other reads, and who is killed

ASSUME ConsoleAssumption ==
  /\ INPUT_BUF \in Nat \ {0} /\ U \in Nat /\ U % INPUT_BUF = 0 /\ U >= 2 * INPUT_BUF
  /\ SIZE \in Nat /\ SIZE > 1 /\ Sizes \subseteq Nat \ {0}
  /\ Init1 \notin Users /\ Killable \subseteq Users

VARIABLES
  r, w, e, buf,   \* input
  rd,             \* each process's consoleread: pc, and what remains (n) and came (got)
  killed,         \* p->killed
  login,          \* init's dialogue
  lk, cpu,        \* cons.lock, and the CPUs' interrupt state
  intr,           \* the keyboard interrupt on CPU 0: "none", or where it is in consoleintr
  panicked,
  last            \* history: the last character the login has consumed

input == <<r, w, e, buf>>
spin == <<lk, cpu, intr, panicked>>
vars == <<input, rd, killed, login, spin, last>>

Readers == Users \cup {Init1}
Chars == Letters \cup {NL, EOT}
None == "none"

CpuOf(p) == IF p \in OnCpu1 THEN 1 ELSE 0

Idle == [pc |-> "idle", n |-> 0, got |-> << >>, eflags |-> FALSE]
Call(n) == [Idle EXCEPT !.pc = "read", !.n = n]

Ask(attempts, what) == [at |-> what, attempts |-> attempts, flush |-> FALSE, buffer |-> << >>]

Init ==
  /\ r = 0 /\ w = 0 /\ e = 0
  /\ buf = [i \in 0 .. INPUT_BUF - 1 |-> None]
  /\ rd = [p \in Readers |-> Idle]
  /\ killed = {}
  /\ login = Ask(0, "username")
  /\ lk = initlock /\ cpu = [c \in {0, 1} |-> InitCpu] /\ intr = "none" /\ panicked = FALSE
  /\ last = None

Plus(i, k) == (i + k) % U
Minus(i, k) == (i + U - k) % U

----------------------------------------------------------------------------
\* acquire and release of cons.lock

\* A process runs only while its CPU is not in the interrupt handler, nor with a process
\* that has interrupts off.
Runs(p) ==
  /\ CpuOf(p) = 0 => intr = "none"
  /\ \A q \in Readers : CpuOf(q) = CpuOf(p) => rd[q].pc \notin {"spin", "held"}

\* readeflags in pushcli; an interrupt may still come between it and cli.
ReadFlags(p) ==
  /\ rd[p].pc = "read" /\ Runs(p)
  /\ rd' = [rd EXCEPT ![p].pc = "cli", ![p].eflags = cpu[CpuOf(p)].IF]
  /\ UNCHANGED <<input, killed, login, spin, last>>

Cli(p) ==
  LET c == CpuOf(p) IN
  /\ rd[p].pc = "cli" /\ Runs(p)
  /\ rd' = [rd EXCEPT ![p].pc = "spin", ![p].eflags = FALSE]
  /\ cpu' = [cpu EXCEPT ![c] = AcquireBegin(@, rd[p].eflags)]
  /\ panicked' = AcquirePanics(lk, c)
  /\ UNCHANGED <<input, killed, login, lk, intr, last>>

Xchg(p) ==
  /\ rd[p].pc = "spin" /\ ~lk.locked
  /\ rd' = [rd EXCEPT ![p].pc = "held"]
  /\ lk' = AcquireEnd(lk, CpuOf(p))
  /\ UNCHANGED <<input, killed, login, cpu, intr, panicked, last>>

Release(c) ==
  /\ lk' = initlock
  /\ cpu' = [cpu EXCEPT ![c] = ReleaseCpu(@)]
  /\ panicked' = ReleasePanics(lk, c, cpu[c])

----------------------------------------------------------------------------
\* consoleintr

\* The interrupt gate clears IF, and consoleintr begins to acquire.
Interrupt ==
  /\ intr = "none" /\ cpu[0].IF
  /\ intr' = "spin"
  /\ cpu' = [cpu EXCEPT ![0] = AcquireBegin([@ EXCEPT !.IF = FALSE], FALSE)]
  /\ panicked' = AcquirePanics(lk, 0)
  /\ UNCHANGED <<input, rd, killed, login, lk, last>>

IntrXchg ==
  /\ intr = "spin" /\ ~lk.locked
  /\ intr' = "held"
  /\ lk' = AcquireEnd(lk, 0)
  /\ UNCHANGED <<input, rd, killed, login, cpu, panicked, last>>

\* After its character consoleintr releases the lock, and iret restores IF.
Iret ==
  /\ intr = "held" /\ intr' = "none"
  /\ lk' = initlock
  /\ cpu' = [cpu EXCEPT ![0] = [ReleaseCpu(@) EXCEPT !.IF = TRUE]]
  /\ panicked' = ReleasePanics(lk, 0, cpu[0])

\* Faulty variant: one sleeper is woken.
WakeupOne ==
  LET sleepers == {p \in Readers : rd[p].pc = "sleep"} IN
  rd' = [p \in Readers |-> IF sleepers # {} /\ p = CHOOSE q \in sleepers : TRUE
                           THEN [rd[p] EXCEPT !.pc = "read"] ELSE rd[p]]

Wakeup ==
  rd' = [p \in Readers |-> IF rd[p].pc = "sleep" THEN [rd[p] EXCEPT !.pc = "read"] ELSE rd[p]]

Backspace ==
  /\ Iret
  /\ e' = IF e = w THEN e ELSE Minus(e, 1)
  /\ UNCHANGED <<r, w, buf, rd, killed, login, last>>

KillLine ==
  LET Stop(k) == Minus(e, k) = w \/ buf[Minus(e, k + 1) % INPUT_BUF] = NL IN
  /\ Iret
  /\ e' = Minus(e, Min({k \in 0 .. INPUT_BUF : Stop(k)}))
  /\ UNCHANGED <<r, w, buf, rd, killed, login, last>>

\* Faulty variant: the test for room is one too late.
TypeLate(c) ==
  /\ Iret
  /\ IF Minus(e, r) <= INPUT_BUF
     THEN /\ buf' = [buf EXCEPT ![e % INPUT_BUF] = c]
          /\ e' = Plus(e, 1)
          /\ IF c \in {NL, EOT} \/ e' = Plus(r, INPUT_BUF)
             THEN w' = e' /\ Wakeup
             ELSE UNCHANGED <<w, rd>>
     ELSE UNCHANGED <<w, e, buf, rd>>
  /\ UNCHANGED <<r, killed, login, last>>

Type(c) ==
  /\ Iret
  /\ IF Minus(e, r) < INPUT_BUF
     THEN /\ buf' = [buf EXCEPT ![e % INPUT_BUF] = c]
          /\ e' = Plus(e, 1)
          /\ IF c \in {NL, EOT} \/ e' = Plus(r, INPUT_BUF)
             THEN w' = e' /\ Wakeup
             ELSE UNCHANGED <<w, rd>>
     ELSE UNCHANGED <<w, e, buf, rd>>
  /\ UNCHANGED <<r, killed, login, last>>

----------------------------------------------------------------------------
\* consoleread

\* The loop up to its end or to sleep: it takes what is there, up to a newline, an
\* EOT or n characters.  An EOT behind other characters is left for the next read.
Read(p) ==
  LET avail == [i \in 1 .. Minus(w, r) |-> buf[Plus(r, i - 1) % INPUT_BUF]]
      ends == {i \in 1 .. Len(avail) : avail[i] \in {NL, EOT} \/ i = rd[p].n}
  IN
  \E k \in 0 .. Len(avail) :
    LET eot == k \in ends /\ avail[k] = EOT
        bytes == rd[p].got \o SubSeq(avail, 1, IF eot THEN k - 1 ELSE k)
        used == IF eot /\ bytes # << >> THEN k - 1 ELSE k
    IN
    /\ rd[p].pc = "held" /\ (r = w => p \notin killed)
    /\ IF ends = {} THEN k = Len(avail) ELSE k \in ends /\ \A i \in ends : k <= i
    /\ r' = Plus(r, used)
    /\ last' = IF p # Init1 \/ used = 0 THEN last ELSE avail[used]
    /\ IF ends = {} /\ p \in killed     \* the loop goes on to the test of killed
       THEN rd' = [rd EXCEPT ![p].n = @ - k, ![p].got = bytes] /\ UNCHANGED spin
       ELSE /\ rd' = [rd EXCEPT ![p] = [Idle EXCEPT !.pc = IF ends = {} THEN "sleep" ELSE "done",
                                        !.n = IF ends = {} THEN rd[p].n - k ELSE 0, !.got = bytes]]
            /\ Release(CpuOf(p)) /\ UNCHANGED intr
    /\ UNCHANGED <<w, e, buf, killed, login>>

\* Killed while there is no input: -1, and the trap ends the process.
ReadKilled(p) ==
  /\ rd[p].pc = "held" /\ r = w /\ p \in killed
  /\ rd' = [rd EXCEPT ![p] = Idle]
  /\ killed' = killed \ {p}
  /\ Release(CpuOf(p))
  /\ UNCHANGED <<input, login, intr, last>>

Kill(p) ==
  /\ rd[p].pc \notin {"idle", "done"} /\ p \notin killed
  /\ killed' = killed \cup {p}
  /\ rd' = [rd EXCEPT ![p].pc = IF @ = "sleep" THEN "read" ELSE @]
  /\ UNCHANGED <<input, login, spin, last>>

----------------------------------------------------------------------------
\* init: get_input and main

GetInput ==
  /\ login.at \in {"username", "password"} /\ ~login.flush /\ rd[Init1].pc = "idle"
  /\ rd' = [rd EXCEPT ![Init1] = Call(SIZE - 1)]
  /\ UNCHANGED <<input, killed, login, spin, last>>

\* Faulty variant: the room for the NUL is forgotten.
TruncatedOver(got) == Len(got) = SIZE

Truncated(got) == Len(got) = SIZE - 1

\* A full buffer: read on to the end of the line.
Flush ==
  LET got == rd[Init1].got IN
  /\ rd[Init1].pc = "done"
  /\ IF login.flush THEN got \notin {<< >>, <<NL>>} ELSE Truncated(got)
  /\ login' = [login EXCEPT !.flush = TRUE, !.buffer = IF login.flush THEN @ ELSE got]
  /\ rd' = [rd EXCEPT ![Init1] = Call(1)]
  /\ UNCHANGED <<input, killed, spin, last>>

\* The answer without its newline is compared.
Answer ==
  LET got == rd[Init1].got
      buffer == IF login.flush THEN login.buffer ELSE got
      answer == SelectSeq(buffer, LAMBDA c : c # NL)
      right == answer = IF login.at = "username" THEN USERNAME ELSE PASSWORD
  IN
  /\ rd[Init1].pc = "done"
  /\ IF login.flush THEN got \in {<< >>, <<NL>>} ELSE ~Truncated(got)
  /\ login' = IF ~right
              THEN Ask(login.attempts + 1, IF login.attempts + 1 = MAX_ATTEMPTS THEN "disabled"
                                           ELSE "username")
              ELSE IF login.at = "username" THEN Ask(login.attempts, "password") ELSE Ask(0, "shell")
  /\ rd' = [rd EXCEPT ![Init1] = Idle]
  /\ last' = IF login'.at = "shell" THEN None ELSE last
  /\ UNCHANGED <<input, killed, spin>>

\* The processes that run after the login.
UserRead(p) ==
  /\ login.at = "shell" /\ rd[p].pc = "idle"
  /\ \E n \in Sizes : rd' = [rd EXCEPT ![p] = Call(n)]
  /\ UNCHANGED <<input, killed, login, spin, last>>

UserReturn(p) ==
  /\ rd[p].pc = "done"
  /\ rd' = [rd EXCEPT ![p] = Idle]
  /\ killed' = killed \ {p}
  /\ UNCHANGED <<input, login, spin, last>>

----------------------------------------------------------------------------

Next ==
  \/ Interrupt \/ IntrXchg
  \/ Backspace \/ KillLine \/ \E c \in Chars : Type(c)
  \/ \E p \in Readers : ReadFlags(p) \/ Cli(p) \/ Xchg(p) \/ Read(p)
  \/ GetInput \/ Flush \/ Answer
  \/ \E p \in Users : UserRead(p) \/ UserReturn(p) \/ ReadKilled(p)
  \/ \E p \in Killable : Kill(p)

Spec == Init /\ [][Next]_vars

----------------------------------------------------------------------------

\* A CPU between its locks has interrupts on, however acquire, holding and the handler
\* were nested on it; nobody spins for a lock that its own CPU holds, and neither
\* acquire, release nor popcli panics (spinlock.c).
InterruptsSound ==
  /\ ~panicked
  /\ intr = "spin" => ~holding(lk, 0)
  /\ \A p \in Readers : rd[p].pc = "spin" => ~holding(lk, CpuOf(p))
  /\ \A c \in {0, 1} :
       (c = 0 => intr = "none") /\ (\A p \in Readers : CpuOf(p) = c => rd[p].pc \notin {"spin", "held"})
         => cpu[c].IF /\ cpu[c].ncli = 0

\* The bytes between two indices.
Between(i, j) == [k \in 1 .. Minus(j, i) |-> buf[Plus(i, k - 1) % INPUT_BUF]]

T == INSTANCE Terminal WITH line <- Between(w, e), ready <- Between(r, w), Room <- INPUT_BUF

\* The ring with its three wrapping indices is a terminal: what can be edited and what
\* can be read never overlap, and nothing is read twice or overwritten (consoleintr,
\* consoleread).
ImplementsTerminal == T!Spec

\* A process sleeps on input.r only while there is nothing to read, whoever took or gave
\* back characters in between, and it is not killed; and a full ring can be read, or
\* nobody could type on.
NobodySleepsOnInput ==
  /\ \A p \in Readers : rd[p].pc = "sleep" => r = w /\ p \notin killed
  /\ Minus(e, r) = INPUT_BUF => w = e

\* When init asks for a name or a password, the input before that is read to the end of
\* a line, however long it was: the rest of one answer is never taken for the next.
AnswersAreLines ==
  login.at \in {"username", "password"} /\ rd[Init1].pc = "idle" =>
    \/ last \in {None, NL, EOT}
    \/ r # w /\ buf[r % INPUT_BUF] = EOT
============================================================================
