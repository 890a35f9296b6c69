----------------------------- MODULE ShellParser ---------------------------
(***************************************************************************)
(* The command line parser of sh.c as operators, and the grammar it        *)
(* implements as a reference.                                              *)
(*                                                                         *)
(* A line is a sequence of characters: a space, the symbols of the shell,  *)
(* and one letter for all others.  A position is an index into the line,   *)
(* es is one behind its end, where C has the NUL.  Commands are tuples     *)
(* that begin with their type; a word in them is <<q, eq>> until           *)
(* nulterminate has made it a string.                                      *)
(***************************************************************************)
EXTENDS Integers, Sequences, SequencesExt, FiniteSetsExt

CONSTANT MAXARGS     \* size of argv, with the 0 that ends it

ASSUME ArgsAssumption == MAXARGS \in Nat \ {0}

Letter == "a"
Space == " "
NUL == "0"
symbols == {"<", "|", ">", "&", ";", "(", ")"}

es(buf) == Len(buf) + 1
Char(buf, s) == IF s <= Len(buf) THEN buf[s] ELSE NUL

\* Constructors
execcmd(argv) == <<"EXEC", argv>>
redircmd(cmd, file, mode, fd) == <<"REDIR", cmd, file, mode, fd>>
pipecmd(left, right) == <<"PIPE", left, right>>
listcmd(left, right) == <<"LIST", left, right>>
backcmd(cmd) == <<"BACK", cmd>>

----------------------------------------------------------------------------
\* Tokens

\* while(s < es && strchr(whitespace, *s)) s++
SkipSpace(buf, s) == Min({k \in s .. es(buf) : Char(buf, k) # Space})
SkipWord(buf, s) == Min({k \in s .. es(buf) : Char(buf, k) # Letter})

gettoken(buf, s) ==
  LET q == SkipSpace(buf, s)  c == Char(buf, q)
      twice == c = ">" /\ Char(buf, q + 1) = ">"
      eq == IF c = NUL THEN q ELSE IF twice THEN q + 2
            ELSE IF c \in symbols THEN q + 1 ELSE SkipWord(buf, q)
  IN  [ret |-> IF twice THEN "+" ELSE c, word |-> <<q, eq>>, s |-> SkipSpace(buf, eq)]

\* The tokens in the order in which gettoken and peek come to them, the last for NUL.
scan(buf) ==
  LET f[s \in Nat] == LET tok == gettoken(buf, s) IN
                      IF tok.ret = NUL THEN <<tok>> ELSE <<tok>> \o f[tok.s]
  IN  f[1]

peek(toks, s, set) == toks[s].ret \in set

----------------------------------------------------------------------------
\* The recursive descent over the tokens.  Each returns what it found and the place s
\* behind it, as a set: a panic is the empty one.  What stands inside parseline is
\* given it as line.

\* The redirections in their order.
parseredirs(toks, start) ==
  LET redir(s) == IF toks[s].ret = "<" THEN <<toks[s + 1].word, "O_RDONLY", 0>>
                  ELSE <<toks[s + 1].word, "O_WRONLY|O_CREATE", 1>>
      f[s \in Nat] ==
        IF ~peek(toks, s, {"<", ">", "+"}) THEN {[redirs |-> << >>, s |-> s]}
        ELSE IF ~peek(toks, s + 1, {Letter}) THEN {}
        ELSE {[rest EXCEPT !.redirs = <<redir(s)>> \o @] : rest \in f[s + 2]}
  IN  f[start]

\* The first redirection is the innermost.
Wrap(cmd, redirs) == FoldLeft(LAMBDA c, r : redircmd(c, r[1], r[2], r[3]), cmd, redirs)

\* Arguments and redirections as they come; n is argc.
parseexec(toks, start) ==
  LET f[s \in Nat, n \in Nat] ==
        UNION {IF peek(toks, r.s, {"|", ")", "&", ";", NUL})
               THEN {[argv |-> << >>, redirs |-> r.redirs, s |-> r.s]}
               ELSE IF ~peek(toks, r.s, {Letter}) \/ n + 1 >= MAXARGS THEN {}
               ELSE {[argv |-> <<toks[r.s].word>> \o rest.argv,
                      redirs |-> r.redirs \o rest.redirs, s |-> rest.s] :
                       rest \in f[r.s + 1, n + 1]} :
               r \in parseredirs(toks, s)}
  IN  {[cmd |-> Wrap(execcmd(r.argv), r.redirs), s |-> r.s] : r \in f[start, 0]}

parseblock(toks, line, s) ==
  UNION {{[cmd |-> Wrap(in.cmd, r.redirs), s |-> r.s] : r \in parseredirs(toks, in.s + 1)} :
         in \in {x \in line[s + 1] : peek(toks, x.s, {")"})}}

\* Faulty variant: the right side of a bar takes a whole line.
parsepipeLine(toks, line, s) ==
  UNION {IF ~peek(toks, left.s, {"|"}) THEN {left}
         ELSE {[cmd |-> pipecmd(left.cmd, right.cmd), s |-> right.s] :
                 right \in line[left.s + 1]} :
         left \in IF peek(toks, s, {"("}) THEN parseblock(toks, line, s) ELSE parseexec(toks, s)}

parsepipe(toks, line, start) ==
  LET f[s \in Nat] ==
        UNION {IF ~peek(toks, left.s, {"|"}) THEN {left}
               ELSE {[cmd |-> pipecmd(left.cmd, right.cmd), s |-> right.s] :
                       right \in f[left.s + 1]} :
               left \in IF peek(toks, s, {"("}) THEN parseblock(toks, line, s)
                        ELSE parseexec(toks, s)}
  IN  f[start]

\* end is behind the ampersands of a pipeline, each of which wraps it.
parseline(toks) ==
  LET end[s \in Nat] == IF peek(toks, s, {"&"}) THEN end[s + 1] ELSE s
      Left(pipe) == LET w[s \in Nat] == IF s = pipe.s THEN pipe.cmd ELSE backcmd(w[s - 1])
                    IN  w[end[pipe.s]]
      f[s \in Nat] ==
        UNION {IF ~peek(toks, end[pipe.s], {";"}) THEN {[cmd |-> Left(pipe), s |-> end[pipe.s]]}
               ELSE {[cmd |-> listcmd(Left(pipe), right.cmd), s |-> right.s] :
                       right \in f[end[pipe.s] + 1]} :
               pipe \in parsepipe(toks, f, s)}
  IN  f[1]

\* The ends eq of the words of a command, where nulterminate writes a NUL.
RECURSIVE nulterminate(_)
nulterminate(cmd) ==
  CASE cmd[1] = "EXEC" -> {cmd[2][i][2] : i \in 1 .. Len(cmd[2])}
    [] cmd[1] = "REDIR" -> nulterminate(cmd[2]) \cup {cmd[3][2]}
    [] cmd[1] = "BACK" -> nulterminate(cmd[2])
    [] OTHER -> nulterminate(cmd[2]) \cup nulterminate(cmd[3])

\* The command with its words as the strings that then start at q.
RECURSIVE Strings(_, _, _)
Strings(buf, nuls, cmd) ==
  LET String(w) == SubSeq(buf, w[1], Min({k \in nuls \cup {es(buf)} : k >= w[1]}) - 1) IN
  CASE cmd[1] = "EXEC" -> execcmd([i \in 1 .. Len(cmd[2]) |-> String(cmd[2][i])])
    [] cmd[1] = "REDIR" -> redircmd(Strings(buf, nuls, cmd[2]), String(cmd[3]), cmd[4], cmd[5])
    [] cmd[1] = "BACK" -> backcmd(Strings(buf, nuls, cmd[2]))
    [] OTHER -> <<cmd[1], Strings(buf, nuls, cmd[2]), Strings(buf, nuls, cmd[3])>>

parsecmd(buf) ==
  UNION {{Strings(buf, nulterminate(line.cmd), line.cmd) :
            line \in {x \in parseline(toks) : peek(toks, x.s, {NUL})}} : toks \in {scan(buf)}}

----------------------------------------------------------------------------
(***************************************************************************)
(* The reference: which commands a line stands for, by the grammar          *)
(*   line ::= pipe "&"* [";" line]     pipe ::= exec ["|" pipe]             *)
(*   exec ::= "(" line ")" redir*  |  (word | redir)*                       *)
(*   redir ::= ("<" | ">" | ">>") word                                      *)
(* read as sets, over all the ways to divide the tokens of the line.        *)
(***************************************************************************)

\* A set of positions in their order.
InOrder(S) == SelectSeq([k \in 1 .. Max(S \cup {0}) |-> k], LAMBDA k : k \in S)

\* Where tokens start: a run of letters is one, and ">"s go in pairs from the left.
Starts(line) ==
  LET Run(k) == Max({0} \cup {j \in 1 .. k : line[j] # ">"})
  IN  {k \in 1 .. Len(line) :
         /\ line[k] # Space
         /\ line[k] = Letter /\ k > 1 => line[k - 1] # Letter
         /\ line[k] = ">" => (k - Run(k)) % 2 = 1}

\* The tokens: a word is its letters, all others are strings of length one or two.
Tokens(line) ==
  LET start == InOrder(Starts(line))
      After(k) == Min({j \in Starts(line) \cup {es(line)} : j > k})
      Black(k) == Max({j \in k .. After(k) - 1 : line[j] # Space})
  IN  [i \in 1 .. Len(start) |-> SubSeq(line, start[i], Black(start[i]))]

IsWord(tok) == tok[1] = Letter
IsRedir(tok) == tok[1] \in {"<", ">"}

\* The redirections of a list of tokens, and its other words, in their order.
RedirsOf(ts) ==
  LET at == InOrder({i \in 1 .. Len(ts) : IsRedir(ts[i])})
  IN  [i \in 1 .. Len(at) |-> <<ts[at[i] + 1],
         IF ts[at[i]][1] = "<" THEN "O_RDONLY" ELSE "O_WRONLY|O_CREATE",
         IF ts[at[i]][1] = "<" THEN 0 ELSE 1>>]
ArgsOf(ts) ==
  LET at == InOrder({i \in 1 .. Len(ts) : IsWord(ts[i]) /\ (i > 1 => ~IsRedir(ts[i - 1]))})
  IN  [i \in 1 .. Len(at) |-> ts[at[i]]]
WordsAndRedirs(ts) ==
  \A i \in 1 .. Len(ts) : \/ IsWord(ts[i])
                          \/ IsRedir(ts[i]) /\ i < Len(ts) /\ IsWord(ts[i + 1])

Before(ts, i) == SubSeq(ts, 1, i - 1)
Behind(ts, i) == SubSeq(ts, i + 1, Len(ts))
Where(ts, c) == {i \in 1 .. Len(ts) : ts[i] = <<c>>}

\* Each takes the relation Lines that it is part of.
TokenSeqs == Seq(Seq(STRING))

Execs(lines, ts) ==
  (IF WordsAndRedirs(ts) /\ Len(ArgsOf(ts)) < MAXARGS
   THEN {Wrap(execcmd(ArgsOf(ts)), RedirsOf(ts))} ELSE {})
  \cup
  UNION {LET r == Behind(ts, i) IN
         IF ts[1] # <<"(">> \/ ~WordsAndRedirs(r) \/ ArgsOf(r) # << >> THEN {}
         ELSE {Wrap(c, RedirsOf(r)) : c \in lines[SubSeq(ts, 2, i - 1)]} : i \in Where(ts, ")")}

Pipes(lines, all) ==
  LET f[ts \in TokenSeqs] ==
        Execs(lines, ts) \cup
        UNION {{pipecmd(l, r) : l \in Execs(lines, Before(ts, i)), r \in f[Behind(ts, i)]} :
                 i \in Where(ts, "|")}
  IN  f[all]

Backs(lines, all) ==
  LET f[ts \in TokenSeqs] ==
        Pipes(lines, ts) \cup
        (IF Len(ts) \in Where(ts, "&") THEN {backcmd(c) : c \in f[Before(ts, Len(ts))]} ELSE {})
  IN  f[all]

Lines[ts \in TokenSeqs] ==
  Backs(Lines, ts) \cup
  UNION {{listcmd(l, r) : l \in Backs(Lines, Before(ts, i)), r \in Lines[Behind(ts, i)]} :
           i \in Where(ts, ";")}
============================================================================
