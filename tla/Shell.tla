-------------------------------- MODULE Shell ------------------------------
(***************************************************************************)
(* The shell's main loop and runcmd (sh.c): the processes a command forks, *)
(* what their descriptors refer to, and who waits for whom.                *)
(*                                                                         *)
(* A system call is a step; closing, duplicating and reusing descriptors   *)
(* before the next fork, wait or exec is private to the process and part   *)
(* of the step.  fork, pipe, open and exec may fail.  A program is a       *)
(* process that ends some time after the input from its pipe has.  The     *)
(* built-in commands run in the shell and leave all of this as it is, as   *)
(* long as block is not used on close, dup, wait or exit themselves.       *)
(***************************************************************************)
EXTENDS ShellParser, FiniteSets

CONSTANTS
  NPROC,       \* process slots; the shell has slot 1
  FirstLines,  \* bound: the lines a user types first,
  LaterLines,  \* bound: and after that,
  MaxLines     \* bound: and how many

ASSUME SlotsAssumption == NPROC \in Nat \ {0} /\ MaxLines \in Nat

VARIABLES
  proc,   \* what each process does
  line,   \* the shell's buf
  nlines, \* lines read
  lost    \* history: a second fork of a pipeline failed, and left the first child alone

vars == <<proc, line, nlines, lost>>

Procs == 1 .. NPROC
Sh == 1
FDs == 0 .. 4

Closed == <<"none", 0>>
Console == <<"console", 0>>

NoCmd == <<"NONE">>

Free == [st |-> "free", pc |-> "none", cmd |-> NoCmd, fd |-> [k \in FDs |-> Closed],
         p |-> <<0, 0>>, parent |-> 0, bg |-> FALSE, want |-> <<Closed, Closed>>]

\* main, once three descriptors are open
Prompt == [Free EXCEPT !.st = "run", !.pc = "prompt",
                       !.fd = [k \in FDs |-> IF k < 3 THEN Console ELSE Closed],
                       !.want = <<Console, Console>>]

Init ==
  /\ proc = [q \in Procs |-> IF q = Sh THEN Prompt ELSE Free]
  /\ line = << >>
  /\ nlines = 0
  /\ lost = FALSE

At(q, l) == proc[q].st = "run" /\ proc[q].pc = l
Running(q, type) == At(q, "runcmd") /\ proc[q].cmd[1] = type
Become(q, r) == proc' = [proc EXCEPT ![q] = r]

----------------------------------------------------------------------------
\* The system calls

close(fd, k) == [fd EXCEPT ![k] = Closed]
Lowest(fd) == Min({k \in FDs : fd[k] = Closed})
dup(fd, k) == [fd EXCEPT ![Lowest(fd)] = fd[k]]

\* q exits; its children go to init, which waits for them.
Exit(q) ==
  proc' = [r \in Procs |->
             IF r = q THEN (IF proc[q].parent = 0 THEN Free
                            ELSE [Free EXCEPT !.st = "zombie", !.parent = proc[q].parent])
             ELSE IF proc[r].parent # q THEN proc[r]
             ELSE IF proc[r].st = "zombie" THEN Free
             ELSE [proc[r] EXCEPT !.parent = 0]]

\* fork1: q goes on as parent; child is the copy's difference.
Fork(q, child, parent) ==
  \E c \in {Min({NPROC + 1} \cup {k \in Procs \ {Sh} : proc[k].st = "free"})} \cap Procs :
    proc' = [proc EXCEPT ![c] = [child EXCEPT !.parent = q], ![q] = parent]

\* wait: a zombie child is reaped and q goes on as next.  Without a child wait would
\* return -1; every wait of the shell is for a child it has, or PromptReturns fails.
Wait(q, next) ==
  \E c \in Procs : /\ proc[c].parent = q /\ proc[c].st = "zombie"
                   /\ proc' = [proc EXCEPT ![c] = Free, ![q] = next]

----------------------------------------------------------------------------
\* main

Panic == <<"PANIC">>
Parsed(l) == IF parsecmd(l) = {} THEN {Panic} ELSE parsecmd(l)

\* getcmd and fork1; if that fails the shell is gone.  What the child will find in the
\* line is a function of it, and stands in its cmd at once.
ReadCmd ==
  /\ At(Sh, "prompt") /\ nlines < MaxLines
  /\ \E l \in IF nlines = 0 THEN FirstLines ELSE LaterLines :
       \/ /\ \E cmd \in Parsed(l) : Fork(Sh, [proc[Sh] EXCEPT !.pc = "parsecmd", !.cmd = cmd],
                                           [proc[Sh] EXCEPT !.pc = "wait"])
          /\ line' = l
       \/ Exit(Sh) /\ UNCHANGED line
  /\ nlines' = nlines + 1
  /\ UNCHANGED lost

\* The end of the input.
Eof == At(Sh, "prompt") /\ Exit(Sh) /\ UNCHANGED <<line, nlines, lost>>

\* init starts the next shell.
Restart == proc[Sh].st = "free" /\ Become(Sh, Prompt) /\ UNCHANGED <<line, nlines, lost>>

MainWait ==
  /\ At(Sh, "wait")
  /\ Wait(Sh, [proc[Sh] EXCEPT !.pc = "prompt"])
  /\ UNCHANGED <<line, nlines, lost>>

\* The child parses the line.
Parse(q) ==
  /\ At(q, "parsecmd")
  /\ IF proc[q].cmd = Panic THEN Exit(q) ELSE Become(q, [proc[q] EXCEPT !.pc = "runcmd"])
  /\ line' = << >>
  /\ UNCHANGED <<nlines, lost>>

----------------------------------------------------------------------------
\* runcmd

RunExec(q) ==
  /\ Running(q, "EXEC")
  /\ \/ Exit(q)                                   \* no arguments, or exec fails
     \/ /\ proc[q].cmd[2] # << >>
        /\ Become(q, [proc[q] EXCEPT !.st = "program", !.pc = "none", !.cmd = NoCmd])
  /\ UNCHANGED <<line, nlines, lost>>

RunRedir(q) ==
  LET cmd == proc[q].cmd  fd == close(proc[q].fd, cmd[5])  file == <<"file", cmd[3]>> IN
  /\ Running(q, "REDIR")
  /\ \/ Exit(q)
     \/ Become(q, [proc[q] EXCEPT !.fd = [fd EXCEPT ![Lowest(fd)] = file], !.cmd = cmd[2],
                                  !.want[cmd[5] + 1] = file])
  /\ UNCHANGED <<line, nlines, lost>>

RunList(q) ==
  LET me == proc[q] IN
  /\ Running(q, "LIST")
  /\ \/ Exit(q)
     \/ Fork(q, [me EXCEPT !.cmd = @[2]], [me EXCEPT !.pc = "listwait"])
  /\ UNCHANGED <<line, nlines, lost>>

ListWait(q) ==
  /\ At(q, "listwait")
  /\ Wait(q, [proc[q] EXCEPT !.pc = "runcmd", !.cmd = @[3]])
  /\ UNCHANGED <<line, nlines, lost>>

RunBack(q) ==
  LET me == proc[q] IN
  /\ Running(q, "BACK")
  /\ \/ Exit(q)
     \/ Fork(q, [me EXCEPT !.cmd = @[2], !.bg = TRUE], [me EXCEPT !.pc = "exit", !.cmd = NoCmd])
  /\ UNCHANGED <<line, nlines, lost>>

PipeIds == 1 .. NPROC
Holders(end) == {q \in Procs : \E k \in FDs : proc[q].fd[k] = end}

RunPipe(q) ==
  LET me == proc[q]
      id == Min({i \in PipeIds : Holders(<<"r", i>>) \cup Holders(<<"w", i>>) = {}})
      p0 == Lowest(me.fd)
      p1 == Lowest([me.fd EXCEPT ![p0] = Console])
  IN
  /\ Running(q, "PIPE")
  /\ \/ Exit(q)
     \/ Become(q, [me EXCEPT !.fd = [@ EXCEPT ![p0] = <<"r", id>>, ![p1] = <<"w", id>>],
                             !.p = <<p0, p1>>, !.pc = "left"])
  /\ UNCHANGED <<line, nlines, lost>>

PipeLeft(q) ==
  LET me == proc[q] IN
  /\ At(q, "left")
  /\ \/ Exit(q)
     \/ Fork(q, [me EXCEPT !.pc = "wire1", !.cmd = @[2], !.want[2] = me.fd[me.p[2]]],
                [me EXCEPT !.pc = "right"])
  /\ UNCHANGED <<line, nlines, lost>>

PipeRight(q) ==
  LET me == proc[q] IN
  /\ At(q, "right")
  /\ \/ Exit(q) /\ lost' = TRUE
     \/ /\ Fork(q, [me EXCEPT !.pc = "wire0", !.cmd = @[3], !.want[1] = me.fd[me.p[1]]],
                   [me EXCEPT !.pc = "closepipe"])
        /\ UNCHANGED lost
  /\ UNCHANGED <<line, nlines>>

\* Faulty variant: the child keeps the end of the pipe it has duplicated.
WireKeeps(q, end) ==
  LET me == proc[q]  fd == dup(close(me.fd, end), me.p[end + 1]) IN
  /\ At(q, IF end = 1 THEN "wire1" ELSE "wire0")
  /\ Become(q, [me EXCEPT !.fd = close(fd, me.p[2 - end]), !.p = <<0, 0>>, !.pc = "runcmd"])
  /\ UNCHANGED <<line, nlines, lost>>

\* The left child's output becomes the pipe, and the right child's input.
Wire(q, end) ==
  LET me == proc[q]  fd == dup(close(me.fd, end), me.p[end + 1]) IN
  /\ At(q, IF end = 1 THEN "wire1" ELSE "wire0")
  /\ Become(q, [me EXCEPT !.fd = close(close(fd, me.p[1]), me.p[2]), !.p = <<0, 0>>,
                          !.pc = "runcmd"])
  /\ UNCHANGED <<line, nlines, lost>>

\* Faulty variant: the shell keeps p[1].
PipeCloseOne(q) ==
  LET me == proc[q] IN
  /\ At(q, "closepipe")
  /\ Become(q, [me EXCEPT !.fd = close(@, me.p[1]), !.p = <<0, 0>>, !.cmd = NoCmd, !.pc = "wait1"])
  /\ UNCHANGED <<line, nlines, lost>>

PipeClose(q) ==
  LET me == proc[q] IN
  /\ At(q, "closepipe")
  /\ Become(q, [me EXCEPT !.fd = close(close(@, me.p[1]), me.p[2]), !.p = <<0, 0>>,
                          !.cmd = NoCmd, !.pc = "wait1"])
  /\ UNCHANGED <<line, nlines, lost>>

\* Faulty variant: one wait for two children.
PipeWaitOnce(q) ==
  At(q, "wait1") /\ Wait(q, [proc[q] EXCEPT !.pc = "exit"]) /\ UNCHANGED <<line, nlines, lost>>

PipeWait1(q) ==
  At(q, "wait1") /\ Wait(q, [proc[q] EXCEPT !.pc = "wait2"]) /\ UNCHANGED <<line, nlines, lost>>
PipeWait2(q) ==
  At(q, "wait2") /\ Wait(q, [proc[q] EXCEPT !.pc = "exit"]) /\ UNCHANGED <<line, nlines, lost>>

RunExit(q) == At(q, "exit") /\ Exit(q) /\ UNCHANGED <<line, nlines, lost>>

\* A program that reads a pipe reads to its end, when nobody can write to it.
ProgramExit(q) ==
  LET in == proc[q].fd[0] IN
  /\ proc[q].st = "program"
  /\ in[1] = "r" => Holders(<<"w", in[2]>>) = {}
  /\ Exit(q)
  /\ UNCHANGED <<line, nlines, lost>>

----------------------------------------------------------------------------

Step(q) ==
  \/ Parse(q) \/ RunExec(q) \/ RunRedir(q) \/ RunList(q) \/ ListWait(q) \/ RunBack(q)
  \/ RunPipe(q) \/ PipeLeft(q) \/ PipeRight(q) \/ Wire(q, 0) \/ Wire(q, 1) \/ PipeClose(q)
  \/ PipeWait1(q) \/ PipeWait2(q) \/ RunExit(q) \/ ProgramExit(q)

Next ==
  \/ ReadCmd \/ Eof \/ Restart \/ MainWait
  \/ \E q \in Procs : Step(q)

Spec == Init /\ [][Next]_vars

\* Processes run, and programs end.
FairSpec == Spec /\ WF_vars(MainWait) /\ \A q \in Procs : WF_vars(Step(q))

----------------------------------------------------------------------------

\* The parser builds the one command that the grammar gives the line, with the words
\* of the line as strings, and refuses a line that has none (parsecmd).
ParserExact ==
  \A q \in Procs : At(q, "parsecmd") =>
    Lines[Tokens(line)] = {proc[q].cmd} \ {Panic}

\* A program starts with the input and output its place in the command says: the
\* pipes and files around it, the innermost last, and no other descriptor of the shell,
\* in particular no other end of a pipe (runcmd).
ExecWired ==
  \A q \in Procs : proc[q].st = "program" =>
    proc[q].fd = [k \in FDs |-> IF k < 2 THEN proc[q].want[k + 1]
                                ELSE IF k = 2 THEN Console ELSE Closed]

\* At the prompt nothing of a command is running any more but what was sent to the
\* background, or lost in a pipeline whose second fork failed.
PromptWaits ==
  At(Sh, "prompt") /\ ~lost =>
    \A q \in Procs \ {Sh} : proc[q].st \in {"run", "program"} => proc[q].bg

\* The prompt comes back: no process of a command keeps an end of a pipe that others
\* wait to see closed, and every wait has a child to wait for.
PromptReturns == At(Sh, "wait") ~> ~At(Sh, "wait")
============================================================================
