-------------------------------- MODULE Shell --------------------------------
(***************************************************************************)
(* The shell sh.c: a line of tokens is parsed by recursive descent and the *)
(* command tree run by processes that pass pipe ends to each other through *)
(* fork, dup and close.  Words are all alike (the k-th token stands for    *)
(* the k-th word); a program reads its standard input to the end and       *)
(* exits.  Characters, the memory of the tree and cd are left out.         *)
(***************************************************************************)
EXTENDS Integers, Sequences, FiniteSets, SequencesExt

CONSTANTS
    Lines,       \* the lines that may be typed
    MAXARGS,
    NProc        \* size of the process table: fork() fails beyond it

ASSUME ShellAssumption == MAXARGS \in Nat \ {0} /\ NProc \in Nat \ {0, 1}

-----------------------------------------------------------------------------
(* Parsing.  A parser takes the place i of the next token and returns the  *)
(* command, the place it stopped at, and whether it called panic().        *)

Nothing == [type |-> "none"]
ExecCmd(argv)     == [type |-> "EXEC", argv |-> argv]
RedirCmd(c, f, d) == [type |-> "REDIR", cmd |-> c, file |-> f, fd |-> d]
PipeCmd(l, r)     == [type |-> "PIPE", left |-> l, right |-> r]
ListCmd(l, r)     == [type |-> "LIST", left |-> l, right |-> r]
BackCmd(c)        == [type |-> "BACK", cmd |-> c]

Peek(t, i, S) == i <= Len(t) /\ t[i] \in S
Failed(i)     == [cmd |-> Nothing, at |-> i, bad |-> TRUE]
Ok(c, i)      == [cmd |-> c, at |-> i, bad |-> FALSE]

(* Each redirection goes around the command parsed so far. *)
RECURSIVE parseredirs(_, _, _)
parseredirs(t, c, i) ==
    IF ~Peek(t, i, {"<", ">", ">>"}) THEN Ok(c, i)
    ELSE IF ~Peek(t, i + 1, {"a"}) THEN Failed(i)
    ELSE parseredirs(t, RedirCmd(c, i + 1, IF t[i] = "<" THEN 0 ELSE 1), i + 2)

(* The words of a simple command; the redirections among them are kept in  *)
(* w.cmd around a hole, which the words fill at the end.                   *)
RECURSIVE Fill(_, _)
Fill(c, argv) == IF c.type = "REDIR" THEN [c EXCEPT !.cmd = Fill(@, argv)] ELSE ExecCmd(argv)

RECURSIVE Words(_, _, _)
Words(t, w, argv) ==
    IF w.bad \/ w.at > Len(t) \/ Peek(t, w.at, {"|", ")", "&", ";"})
      THEN IF w.bad THEN w ELSE Ok(Fill(w.cmd, argv), w.at)
    ELSE IF t[w.at] # "a" \/ Len(argv) + 1 >= MAXARGS THEN Failed(w.at)
    ELSE Words(t, parseredirs(t, w.cmd, w.at + 1), Append(argv, w.at))

RECURSIVE parseline(_, _), parsepipe(_, _), parseexec(_, _), Backs(_, _)

parseblock(t, i) ==
    LET x == parseline(t, i + 1) IN
    IF x.bad \/ ~Peek(t, x.at, {")"}) THEN Failed(x.at) ELSE parseredirs(t, x.cmd, x.at + 1)

parseexec(t, i) ==
    IF Peek(t, i, {"("}) THEN parseblock(t, i) ELSE Words(t, parseredirs(t, ExecCmd(<<>>), i), <<>>)

BugPipe(l, r) == PipeCmd(r, l)
Pipe(l, r) == PipeCmd(l, r)

parsepipe(t, i) ==
    LET x == parseexec(t, i)
        y == parsepipe(t, x.at + 1)
    IN IF x.bad \/ ~Peek(t, x.at, {"|"}) THEN x
       ELSE IF y.bad THEN y ELSE Ok(Pipe(x.cmd, y.cmd), y.at)

Backs(t, x) == IF ~x.bad /\ Peek(t, x.at, {"&"}) THEN Backs(t, Ok(BackCmd(x.cmd), x.at + 1)) ELSE x

parseline(t, i) ==
    LET x == Backs(t, parsepipe(t, i))
        y == parseline(t, x.at + 1)
    IN IF x.bad \/ ~Peek(t, x.at, {";"}) THEN x
       ELSE IF y.bad THEN y ELSE Ok(ListCmd(x.cmd, y.cmd), y.at)

(* parsecmd(): nothing may be left over. *)
parsecmd(t) == LET x == parseline(t, 1) IN IF x.bad \/ x.at <= Len(t) THEN Failed(x.at) ELSE x

-----------------------------------------------------------------------------
(* Running.                                                                *)

VARIABLES
    line,   \* the line typed
    tree,   \* what parsecmd() makes of it
    procs,  \* procs[p]: parent, what it does, its descriptors, children to wait for
    shell   \* the main loop: "prompt", "wait" or "done"

svars == <<line, tree, procs, shell>>

Slots   == 1 .. NProc
Main    == 1
Init1   == 0
NoProc  == [does |-> "unused"]
Console == [kind |-> "console"]
End(k, c) == [kind |-> k, pipe |-> c]   \* an end of the pipe made for command c

Put(g, x, y) == [z \in DOMAIN g \cup {x} |-> IF z = x THEN y ELSE g[z]]
Del(g, x) == [z \in DOMAIN g \ {x} |-> g[z]]
LowestFd(fds) == CHOOSE d \in 0 .. 9 : d \notin DOMAIN fds /\ \A x \in 0 .. d - 1 : x \in DOMAIN fds

Live == {p \in Slots : procs[p].does # "unused"}
FreeSlot == CHOOSE p \in Slots : procs[p] = NoProc /\ \A q \in Slots : procs[q] = NoProc => p <= q

ShellInit ==
    /\ line \in Lines /\ tree = parsecmd(line) /\ shell = "prompt"
    /\ procs = [p \in Slots |-> IF p = Main
                 THEN [does |-> "main", parent |-> Init1, cmd |-> Nothing, fds |-> [d \in 0 .. 2 |-> Console],
                       waits |-> 0, pipe |-> <<>>]
                 ELSE NoProc]

(* exit() closes the descriptors; the children go to init. *)
Exited(ps, p) == [q \in Slots |->
    IF q = p THEN IF ps[p].parent = Init1 THEN NoProc ELSE [ps[p] EXCEPT !.does = "zombie", !.fds = [d \in {} |-> Console]]
    ELSE IF ps[q] # NoProc /\ ps[q].parent = p
           THEN IF ps[q].does = "zombie" THEN NoProc ELSE [ps[q] EXCEPT !.parent = Init1]
         ELSE ps[q]]

(* fork1(): a child that runs command c with descriptors fds. *)
Forked(ps, p, c, fds) ==
    [ps EXCEPT ![FreeSlot] = [does |-> "run", parent |-> p, cmd |-> c, fds |-> fds, waits |-> 0, pipe |-> <<>>]]

CanFork == \E p \in Slots : procs[p] = NoProc

(* main(): the child parses and runs the line, or exits at panic(). *)
ReadLine ==
    /\ shell = "prompt"
    /\ procs' = Forked(procs, Main, IF tree.bad THEN ExecCmd(<<>>) ELSE tree.cmd, procs[Main].fds)
    /\ shell' = "wait"
    /\ UNCHANGED <<line, tree>>

Zombies(p) == {q \in Slots : procs[q] # NoProc /\ procs[q].parent = p /\ procs[q].does = "zombie"}

MainWaits ==
    /\ shell = "wait"
    /\ \E q \in Zombies(Main) : procs' = [procs EXCEPT ![q] = NoProc]
    /\ shell' = "done"
    /\ UNCHANGED <<line, tree>>

Runs(p, type) == procs[p].does = "run" /\ procs[p].cmd.type = type

(* EXEC: an empty command exits; a program starts, or exec() fails. *)
RunExec(p) ==
    /\ Runs(p, "EXEC")
    /\ \/ /\ procs[p].cmd.argv # <<>>
          /\ procs' = [procs EXCEPT ![p].does = "program"]
       \/ procs' = Exited(procs, p)
    /\ UNCHANGED <<line, tree, shell>>

(* The program ends when it has read everything: the console's input at    *)
(* once, a pipe's when nobody can write to it.  Or it does not read.       *)
Writers(e) == {q \in Live : \E d \in DOMAIN procs[q].fds :
                 procs[q].fds[d].kind = "write" /\ procs[q].fds[d].pipe = e.pipe}
ProgramEnds(p) ==
    /\ procs[p].does = "program"
    /\ procs[p].fds[0].kind = "read" => Writers(procs[p].fds[0]) = {}
    /\ procs' = Exited(procs, p)
    /\ UNCHANGED <<line, tree, shell>>

(* REDIR: close() and open(), which takes the lowest descriptor. *)
RunRedir(p) ==
    LET c == procs[p].cmd
        closed == Del(procs[p].fds, c.fd)
    IN
    /\ Runs(p, "REDIR")
    /\ \/ procs' = [procs EXCEPT ![p].fds = Put(closed, LowestFd(closed), [kind |-> "file", at |-> c.file]),
                                 ![p].cmd = c.cmd]
       \/ procs' = Exited(procs, p)     \* open() failed
    /\ UNCHANGED <<line, tree, shell>>

(* LIST: a child runs the left side; after wait() this one runs the right. *)
RunList(p) ==
    /\ Runs(p, "LIST")
    /\ procs' = IF CanFork
         THEN [Forked(procs, p, procs[p].cmd.left, procs[p].fds) EXCEPT ![p].does = "list"]
         ELSE Exited(procs, p)
    /\ UNCHANGED <<line, tree, shell>>

ListWaits(p) ==
    /\ procs[p].does = "list"
    /\ \E q \in Zombies(p) :
         procs' = [procs EXCEPT ![q] = NoProc, ![p].does = "run", ![p].cmd = procs[p].cmd.right]
    /\ UNCHANGED <<line, tree, shell>>

(* PIPE: the pipe, the left child, the right child, the two close() and    *)
(* the two wait().                                                         *)
MakePipe(p) ==
    LET r == LowestFd(procs[p].fds)
        f1 == Put(procs[p].fds, r, End("read", procs[p].cmd))
        w == LowestFd(f1)
    IN
    /\ Runs(p, "PIPE")
    /\ \/ procs' = [procs EXCEPT ![p].does = "left", ![p].pipe = <<r, w>>,
                                 ![p].fds = Put(f1, w, End("write", procs[p].cmd))]
       \/ procs' = Exited(procs, p)     \* pipe() failed
    /\ UNCHANGED <<line, tree, shell>>

(* close(fd); dup(end); close(p[0]); close(p[1]). *)
Plumbed(fds, fd, end, pr) ==
    LET closed == Del(fds, fd)
        duped == Put(closed, LowestFd(closed), closed[end])
    IN Del(Del(duped, pr[1]), pr[2])

BugRightFds(fds, pr) == Put(Plumbed(fds, 0, pr[1], pr), pr[2], fds[pr[2]])
RightFds(fds, pr) == Plumbed(fds, 0, pr[1], pr)

ForkLeft(p) ==
    LET me == procs[p] IN
    /\ me.does = "left"
    /\ procs' = IF CanFork
         THEN [Forked(procs, p, me.cmd.left, Plumbed(me.fds, 1, me.pipe[2], me.pipe)) EXCEPT ![p].does = "right"]
         ELSE Exited(procs, p)
    /\ UNCHANGED <<line, tree, shell>>

ForkRight(p) ==
    LET me == procs[p] IN
    /\ me.does = "right"
    /\ procs' = IF CanFork
         THEN [Forked(procs, p, me.cmd.right, RightFds(me.fds, me.pipe)) EXCEPT
                 ![p].does = "pipe", ![p].waits = 2, ![p].fds = Del(Del(me.fds, me.pipe[1]), me.pipe[2])]
         ELSE Exited(procs, p)
    /\ UNCHANGED <<line, tree, shell>>

PipeWaits(p) ==
    /\ procs[p].does = "pipe" /\ procs[p].waits > 0
    /\ \E q \in Zombies(p) : procs' = [procs EXCEPT ![q] = NoProc, ![p].waits = @ - 1]
    /\ UNCHANGED <<line, tree, shell>>

PipeDone(p) ==
    /\ procs[p].does = "pipe" /\ procs[p].waits = 0
    /\ procs' = Exited(procs, p)
    /\ UNCHANGED <<line, tree, shell>>

(* BACK: the child is left to init. *)
RunBack(p) ==
    /\ Runs(p, "BACK")
    /\ procs' = Exited(IF CanFork THEN Forked(procs, p, procs[p].cmd.cmd, procs[p].fds) ELSE procs, p)
    /\ UNCHANGED <<line, tree, shell>>

ShellStep(p) ==
    \/ RunExec(p) \/ ProgramEnds(p) \/ RunRedir(p) \/ RunList(p) \/ ListWaits(p)
    \/ MakePipe(p) \/ ForkLeft(p) \/ ForkRight(p) \/ PipeWaits(p) \/ PipeDone(p) \/ RunBack(p)

ShellNext == ReadLine \/ MainWaits \/ \E p \in Slots : ShellStep(p)

-----------------------------------------------------------------------------
(* The grammar, over the spans i .. j - 1 of the line. *)
Redirect == {"<", ">", ">>"}
IsFile(t, k) == k > 1 /\ t[k] = "a" /\ t[k - 1] \in Redirect
IsRedirs(t, i, j) == (j - i) % 2 = 0 /\ \A k \in i .. j - 1 : IF (k - i) % 2 = 0 THEN t[k] \in Redirect ELSE t[k] = "a"
IsSimple(t, i, j) ==
    /\ \A k \in i .. j - 1 : t[k] \in Redirect \cup {"a"}
    /\ \A k \in i .. j - 1 : t[k] \in Redirect => k + 1 < j /\ t[k + 1] = "a"
    /\ Cardinality({k \in i .. j - 1 : t[k] = "a" /\ ~IsFile(t, k)}) < MAXARGS
RECURSIVE IsLine(_, _, _), IsPipe(_, _, _), IsExec(_, _, _)
IsExec(t, i, j) ==
    \/ IsSimple(t, i, j)
    \/ i < j /\ t[i] = "(" /\ \E k \in i + 1 .. j - 1 : t[k] = ")" /\ IsLine(t, i + 1, k) /\ IsRedirs(t, k + 1, j)
IsPipe(t, i, j) ==
    \/ IsExec(t, i, j)
    \/ \E k \in i .. j - 1 : t[k] = "|" /\ IsExec(t, i, k) /\ IsPipe(t, k + 1, j)
IsLine(t, i, j) ==
    \E m \in i .. j : \E k \in m .. j :
      /\ IsPipe(t, i, m) /\ \A l \in m .. k - 1 : t[l] = "&"
      /\ k = j \/ (t[k] = ";" /\ IsLine(t, k + 1, j))
RECURSIVE WordsOf(_)
WordsOf(c) ==
    CASE c.type = "EXEC" -> c.argv
      [] c.type \in {"REDIR", "BACK"} -> WordsOf(c.cmd)
      [] OTHER -> WordsOf(c.left) \o WordsOf(c.right)

(* The parser accepts exactly the lines of the grammar                      *)
(*   line ::= pipe '&'* [';' line]       pipe ::= exec ['|' pipe]           *)
(*   exec ::= '(' line ')' redir* | (word | redir)*                         *)
(* with fewer than MAXARGS words in a command, stated here over the spans   *)
(* i .. j - 1 of the line, and it loses, repeats or moves no word.          *)
ParserMatchesGrammar ==
    shell = "prompt" =>
      /\ ~tree.bad <=> IsLine(line, 1, Len(line) + 1)
      /\ ~tree.bad => WordsOf(tree.cmd) = SelectSeq([k \in 1 .. Len(line) |-> k], LAMBDA k : line[k] = "a" /\ ~IsFile(line, k))

(* Each program of command c with the input and output its place calls for. *)
RECURSIVE Wires(_, _, _)
Wires(c, in, out) ==
    CASE c.type = "EXEC" -> {<<c.argv, in, out>>}
      [] c.type = "REDIR" -> LET f == [kind |-> "file", at |-> c.file] IN
                             Wires(c.cmd, IF c.fd = 0 THEN f ELSE in, IF c.fd = 1 THEN f ELSE out)
      [] c.type = "BACK" -> Wires(c.cmd, in, out)
      [] c.type = "LIST" -> Wires(c.left, in, out) \cup Wires(c.right, in, out)
      [] c.type = "PIPE" -> Wires(c.left, in, End("write", c)) \cup Wires(c.right, End("read", c), out)

(* A program starts with the input and output its place in the command     *)
(* calls for and with no other pipe end: what fork, close and dup pass on  *)
(* through several processes is what the tree says.                        *)
ProgramsPlumbed ==
    \A p \in Live : procs[p].does = "program" =>
      /\ <<procs[p].cmd.argv, procs[p].fds[0], procs[p].fds[1]>> \in Wires(tree.cmd, Console, Console)
      /\ DOMAIN procs[p].fds = 0 .. 2

(* Every line ends: each program of a pipeline gets to the end of its      *)
(* input because nobody keeps a writing end open, also when fork() or      *)
(* open() fails half way; no wait() is for a child that does not come; and *)
(* the shell comes back.                                                   *)
LineEnds == <>(shell = "done" /\ Live = {Main})
=============================================================================
