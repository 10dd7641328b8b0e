-------------------------------- MODULE Shell --------------------------------
(***************************************************************************)
(* The shell, user/sh.c: its parser, over the tokens gettoken() finds, and *)
(* the processes that runcmd() makes, with their file descriptors.         *)
(*                                                                         *)
(* A process is named by the path of children that leads to it from the    *)
(* shell <<>>; it keeps to itself between the system calls fork(), wait(), *)
(* exec() and exit(), which are the steps.                                 *)
(***************************************************************************)
EXTENDS Integers, Sequences, FiniteSets, FiniteSetsExt, SequencesExt, TLC

CONSTANTS
  Lines,      \* the lines typed, as sequences of tokens
  MAXARGS,
  MaxTyped    \* bound on the lines typed before all that they started has ended

VARIABLES
  line,       \* the line the user types, again and again
  procs,      \* the processes
  failed      \* who panicked, or exited, as a system call failed

vars == <<line, procs, failed>>

-----------------------------------------------------------------------------
(* The parser.  It takes the tokens left and returns them with a command, or   *)
(* panics.  ">>" is the token "+"; words are "a".                              *)

Panic == [ok |-> FALSE]
Parsed(cmd, rest) == [ok |-> TRUE, cmd |-> cmd, rest |-> rest]
Exec(argc) == [type |-> "EXEC", argc |-> argc]
Redir(fd, cmd) == [type |-> "REDIR", fd |-> fd, cmd |-> cmd]
Pair(type, left, right) == [type |-> type, left |-> left, right |-> right]
Back(cmd) == [type |-> "BACK", cmd |-> cmd]

peek(ts, toks) == ts # <<>> /\ Head(ts) \in toks
RedirToks == {"<", ">", "+"}
FdOf(tok) == IF tok = "<" THEN 0 ELSE 1

RECURSIVE parseredirs(_, _)
parseredirs(cmd, ts) ==
  IF ~peek(ts, RedirToks) THEN Parsed(cmd, ts)
  ELSE IF ~peek(Tail(ts), {"a"}) THEN Panic
  ELSE parseredirs(Redir(FdOf(Head(ts)), cmd), SubSeq(ts, 3, Len(ts)))

\* The execcmd that parseexec() fills in is at the bottom of the redirections.
RECURSIVE WithArgs(_, _)
WithArgs(cmd, argc) ==
  IF cmd.type = "EXEC" THEN Exec(argc) ELSE Redir(cmd.fd, WithArgs(cmd.cmd, argc))

RECURSIVE Args(_, _, _)
Args(ret, argc, ts) ==
  IF ts = <<>> \/ peek(ts, {"|", ")", "&", ";"}) THEN Parsed(WithArgs(ret, argc), ts)
  ELSE IF Head(ts) # "a" \/ argc + 1 >= MAXARGS THEN Panic
  ELSE LET r == parseredirs(ret, Tail(ts))
       IN IF r.ok THEN Args(r.cmd, argc + 1, r.rest) ELSE Panic

RECURSIVE parseline(_), parsepipe(_), parseexec(_), Backs(_, _)

parseblock(ts) ==
  LET inner == parseline(Tail(ts))
  IN IF inner.ok /\ peek(inner.rest, {")"})
     THEN parseredirs(inner.cmd, Tail(inner.rest))
     ELSE Panic

parseexec(ts) ==
  IF peek(ts, {"("}) THEN parseblock(ts)
  ELSE LET r == parseredirs(Exec(0), ts) IN IF r.ok THEN Args(r.cmd, 0, r.rest) ELSE Panic

\* A command of two, l and the result r of parsing what follows its operator.
Joined(type, l, r) == IF r.ok THEN Parsed(Pair(type, l, r.cmd), r.rest) ELSE Panic

parsepipe(ts) ==
  LET l == parseexec(ts)
  IN IF l.ok /\ peek(l.rest, {"|"}) THEN Joined("PIPE", l.cmd, parsepipe(Tail(l.rest))) ELSE l

Backs_One(cmd, ts) == IF peek(ts, {"&"}) THEN Parsed(Back(cmd), Tail(ts)) ELSE Parsed(cmd, ts)

Backs(cmd, ts) == IF peek(ts, {"&"}) THEN Backs(Back(cmd), Tail(ts)) ELSE Parsed(cmd, ts)

parseline(ts) ==
  LET p == parsepipe(ts)
      l == IF p.ok THEN Backs(p.cmd, p.rest) ELSE Panic
  IN IF l.ok /\ peek(l.rest, {";"}) THEN Joined("LIST", l.cmd, parseline(Tail(l.rest))) ELSE l

parsecmd(ts) ==
  LET p == parseline(ts) IN IF p.ok /\ p.rest = <<>> THEN p ELSE Panic

-----------------------------------------------------------------------------
(* Running a command *)

NFD == 0..6
File(kind, pipe) == [kind |-> kind, pipe |-> pipe]
None == File("none", <<>>)
Console3 == [fd \in NFD |-> IF fd < 3 THEN File("console", <<>>) ELSE None]
Closed(fds, fd) == [fds EXCEPT ![fd] = None]

\* open(), dup() and pipe() take the lowest descriptor.
Lowest(fds) == Min({fd \in NFD : fds[fd] = None})
Opened(fds, f) == [fds EXCEPT ![Lowest(fds)] = f]

Process(at, cmd, fds, back) ==
  [at |-> at, cmd |-> cmd, fds |-> fds, back |-> back, kids |-> 0]

Prompting == <<>> :> Process("prompt", Exec(0), Console3, FALSE)

Init ==
  /\ line \in Lines
  /\ procs = Prompting
  /\ failed = {}

Running(p, type) == procs[p].at = "run" /\ procs[p].cmd.type = type

\* p becomes q and has a child.
Forks(p, q, child) ==
  procs' = (Append(p, q.kids + 1) :> child) @@ [procs EXCEPT ![p] = [q EXCEPT !.kids = @ + 1]]

HasParent(p) == Front(p) \in DOMAIN procs /\ procs[Front(p)].at # "zombie"

\* exit(): p is a zombie until its parent waits, and init gets p's children; init
\* reaps who has no other parent.
exit(p) ==
  LET reaped == {q \in DOMAIN procs : q # <<>> /\ Front(q) = p /\ procs[q].at = "zombie"}
                \cup (IF HasParent(p) THEN {} ELSE {p})
  IN procs' = [q \in DOMAIN procs \ reaped |->
                 IF q = p THEN Process("zombie", Exec(0), [fd \in NFD |-> None], procs[p].back)
                 ELSE procs[q]]

\* main() reads the line, and a child runs it unless it changes directory, whatever
\* still runs in the background.  Names are used again when all have ended.  (When its
\* own fork fails the shell exits and init starts another, which prompts as this one.)
main ==
  LET alone == DOMAIN procs = {<<>>}
      n == IF alone THEN 1 ELSE procs[<<>>].kids + 1
  IN /\ procs[<<>>].at = "prompt" /\ n <= MaxTyped
     /\ failed' = IF alone THEN {} ELSE failed
     /\ IF Head(line) = "cd" THEN UNCHANGED procs
        ELSE procs' = (<<n>> :> Process("parse", Exec(0), Console3, FALSE))
                      @@ [procs EXCEPT ![<<>>].at = "wait", ![<<>>].kids = n]
     /\ UNCHANGED line

parse(p) ==
  /\ procs[p].at = "parse"
  /\ LET r == parsecmd(line)
     IN IF r.ok THEN procs' = [procs EXCEPT ![p].at = "run", ![p].cmd = r.cmd] ELSE exit(p)
  /\ UNCHANGED <<line, failed>>

\* runcmd(), EXEC: the program runs, or there is none.
exec(p) ==
  /\ Running(p, "EXEC")
  /\ IF procs[p].cmd.argc > 0
     THEN procs' = [procs EXCEPT ![p].at = "program"] \/ exit(p)
     ELSE exit(p)
  /\ UNCHANGED <<line, failed>>

redir(p) ==
  /\ Running(p, "REDIR")
  /\ LET cmd == procs[p].cmd
     IN procs' = [procs EXCEPT ![p].fds = Opened(Closed(@, cmd.fd), File("file", <<>>)),
                               ![p].cmd = cmd.cmd]
  /\ UNCHANGED <<line, failed>>

list(p) ==
  /\ Running(p, "LIST")
  /\ LET q == procs[p]
     IN Forks(p, [q EXCEPT !.at = "wait"], Process("run", q.cmd.left, q.fds, q.back))
  /\ UNCHANGED <<line, failed>>

back(p) ==
  /\ Running(p, "BACK")
  /\ LET q == procs[p]
     IN Forks(p, [q EXCEPT !.at = "exit"], Process("run", q.cmd.cmd, q.fds, TRUE))
  /\ UNCHANGED <<line, failed>>

\* A child of a pipe: end becomes its descriptor fd, and p[0] and p[1] are closed.
Plumbed_KeepsEnd(fds, fd, end, p0, p1) == Closed(Opened(Closed(fds, fd), end), p0)

Plumbed(fds, fd, end, p0, p1) == Closed(Closed(Opened(Closed(fds, fd), end), p0), p1)

\* The pipe of process p is at the two lowest free descriptors.
pipe(p, fds) ==
  LET p0 == Lowest(fds)
      f0 == Opened(fds, File("read", p))
  IN [p0 |-> p0, p1 |-> Lowest(f0), fds |-> Opened(f0, File("write", p))]

\* The parent has both ends open between its forks.
pipe_left(p) ==
  /\ Running(p, "PIPE")
  /\ LET q == procs[p]
         s == pipe(p, q.fds)
     IN Forks(p, [q EXCEPT !.at = "pipe", !.fds = s.fds],
              Process("run", q.cmd.left, Plumbed(s.fds, 1, File("write", p), s.p0, s.p1), q.back))
  /\ UNCHANGED <<line, failed>>

\* It closes both when the second child runs.
pipe_right(p) ==
  /\ procs[p].at = "pipe"
  /\ LET q == procs[p]
         fdOf(kind) == CHOOSE fd \in NFD : q.fds[fd] = File(kind, p)
         rd == fdOf("read")
         wr == fdOf("write")
     IN Forks(p, [q EXCEPT !.at = "wait2", !.fds = Closed(Closed(@, rd), wr)],
              Process("run", q.cmd.right, Plumbed(q.fds, 0, File("read", p), rd, wr), q.back))
  /\ UNCHANGED <<line, failed>>

AfterWait_Once(p, q) ==
  CASE p = <<>> -> [q EXCEPT !.at = "prompt"]
    [] p # <<>> /\ q.at = "wait" -> [q EXCEPT !.at = "run", !.cmd = q.cmd.right]
    [] OTHER -> [q EXCEPT !.at = "exit"]

\* The shell prompts again, a list goes on, a pipe waits twice.
AfterWait(p, q) ==
  CASE p = <<>> -> [q EXCEPT !.at = "prompt"]
    [] p # <<>> /\ q.at = "wait" -> [q EXCEPT !.at = "run", !.cmd = q.cmd.right]
    [] q.at = "wait2" -> [q EXCEPT !.at = "wait1"]
    [] OTHER -> [q EXCEPT !.at = "exit"]

wait(p) ==
  /\ procs[p].at \in {"wait", "wait2", "wait1"}
  /\ \E child \in DOMAIN procs \ {<<>>} :
       /\ Front(child) = p /\ procs[child].at = "zombie"
       /\ procs' = [q \in DOMAIN procs \ {child} |-> IF q = p THEN AfterWait(p, procs[p]) ELSE procs[q]]
  /\ UNCHANGED <<line, failed>>

\* The end of runcmd().
exit0(p) == procs[p].at = "exit" /\ exit(p) /\ UNCHANGED <<line, failed>>

\* A program reads to the end of its input: of a pipe, when none can write to it.
program(p) ==
  /\ procs[p].at = "program"
  /\ procs[p].fds[0].kind = "read" =>
       \A q \in DOMAIN procs : \A fd \in NFD : procs[q].fds[fd] # File("write", procs[p].fds[0].pipe)
  /\ exit(p)
  /\ UNCHANGED <<line, failed>>

\* fork(), pipe() or open() fails, and the process panics or exits: between the forks
\* of a pipe too, when its left side runs on.  A bound: one process fails at a time.
fails(p) ==
  /\ failed = {}
  /\ procs[p].at = "pipe" \/ (procs[p].at = "run" /\ procs[p].cmd.type # "EXEC")
  /\ exit(p)
  /\ failed' = {p}
  /\ UNCHANGED line

Next ==
  \/ main
  \/ \E p \in DOMAIN procs :
       \/ parse(p) \/ exec(p) \/ redir(p) \/ list(p) \/ back(p)
       \/ pipe_left(p) \/ pipe_right(p) \/ wait(p) \/ exit0(p) \/ program(p) \/ fails(p)

Spec == Init /\ [][Next]_vars

-----------------------------------------------------------------------------
(* A reference for the parser: it splits a line at its operators. *)

Depth(ts, i) == Cardinality({j \in 1..i : ts[j] = "("}) - Cardinality({j \in 1..i : ts[j] = ")"})
Top(ts, op) == {i \in 1..Len(ts) : ts[i] = op /\ Depth(ts, i) = 0}
Balanced(ts) == (\A i \in 1..Len(ts) : Depth(ts, i) >= 0) /\ (ts = <<>> \/ Depth(ts, Len(ts)) = 0)
Before(ts, i) == SubSeq(ts, 1, i - 1)
After(ts, i) == SubSeq(ts, i + 1, Len(ts))
Error == [type |-> "ERROR"]

\* The positions of the words that are files.
Files(ts) == {i \in 2..Len(ts) : ts[i - 1] \in RedirToks}

\* cmd with the redirections of ts, the last outermost.
RECURSIVE Redirected(_, _)
Redirected(cmd, ts) ==
  IF Files(ts) = {} THEN cmd
  ELSE LET last == Max(Files(ts))
       IN Redir(FdOf(ts[last - 1]), Redirected(cmd, Before(ts, last - 1)))

Simple(ts) ==
  LET words == Cardinality({i \in 1..Len(ts) : ts[i] = "a"}) - Cardinality(Files(ts))
  IN IF /\ \A i \in 1..Len(ts) : ts[i] \in RedirToks => i < Len(ts) /\ ts[i + 1] = "a"
        /\ \A i \in 1..Len(ts) : ts[i] \in RedirToks \cup {"a"}
        /\ words < MAXARGS
     THEN Redirected(Exec(words), ts) ELSE Error

RECURSIVE Split(_)
Split(ts) ==
  LET Two(type, at) ==
        LET l == Split(Before(ts, at)) r == Split(After(ts, at))
        IN IF Error \in {l, r} THEN Error ELSE Pair(type, l, r)
      close == {i \in 1..Len(ts) : ts[i] = ")" /\ Depth(ts, i) = 0}
  IN IF Top(ts, ";") # {} THEN Two("LIST", Min(Top(ts, ";")))
     ELSE IF ts # <<>> /\ Last(ts) = "&"
     THEN LET l == Split(Front(ts)) IN IF l = Error THEN Error ELSE Back(l)
     ELSE IF Top(ts, "&") # {} THEN Error
     ELSE IF Top(ts, "|") # {} THEN Two("PIPE", Min(Top(ts, "|")))
     ELSE IF ts # <<>> /\ Head(ts) = "("
     THEN LET inner == Split(SubSeq(ts, 2, Min(close) - 1))
              rest == After(ts, Min(close))
          IN IF inner = Error \/ Simple(rest) = Error
                \/ Redirected(Exec(0), rest) # Simple(rest)
             THEN Error ELSE Redirected(inner, rest)
     ELSE Simple(ts)

-----------------------------------------------------------------------------
(* Properties *)

\* The recursive descent of parsecmd() gives the command that splitting the line at
\* its operators gives, with ; before & before | before redirections, and refuses
\* what that refuses.
ParsesAsSplit ==
  LET reference == IF Balanced(line) THEN Split(line) ELSE Error
      parsed == parsecmd(line)
  IN IF parsed.ok THEN parsed.cmd = reference ELSE reference = Error

\* A program starts with its three descriptors and nothing else, whatever pipes the
\* shell's processes had open, and so does every process of the shell but one between
\* the forks of its pipe; so every reader of a pipe comes to its end.
ProgramsClean ==
  \A p \in DOMAIN procs :
    /\ procs[p].at = "program" =>
         /\ procs[p].fds[0].kind \in {"console", "file", "read"}
         /\ procs[p].fds[1].kind \in {"console", "file", "write"}
         /\ procs[p].fds[2].kind = "console"
    /\ procs[p].at # "pipe" => \A fd \in NFD : fd > 2 => procs[p].fds[fd] = None

\* When wait() lets the shell prompt or a list go on, what came before has ended, and
\* it is never another child that was waited for.  Two things may still run: what was
\* put in the background, by this line or an earlier one, and what a process had
\* started that panicked at a failing fork, the left side of its pipe.
InOrder ==
  \A p \in DOMAIN procs \cap DOMAIN procs' :
    procs[p].at = "wait" /\ procs'[p].at # "wait" =>
      \A q \in DOMAIN procs' : IsStrictPrefix(p, q) =>
        procs'[q].back \/ \E r \in failed : IsStrictPrefix(r, q)
=============================================================================
