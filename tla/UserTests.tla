----------------------------- MODULE UserTests -----------------------------
(***************************************************************************)
(* The clients of module Files: the file system tests of usertests.c and a *)
(* few programs, each a script of system calls with the results it expects,*)
(* and one client, "any", that makes any calls of the set Calls.  A script *)
(* is a sequence of items for each process.  Loops of a test are cut to    *)
(* two or three turns, four processes to two, and a buffer of bytes is one *)
(* or two numbers.                                                         *)
(***************************************************************************)
EXTENDS Files

CONSTANTS
    Tests,     \* the tests to run
    Calls,     \* what the client "any" may call
    MaxCalls   \* how often, fork() and exit() included

VARIABLES
    test,
    prog,    \* prog[p]: the items p has still to run
    want,    \* want[p]: the item p runs or has run last
    ncalls

tvars == <<test, prog, want, ncalls>>
allvars == <<vars, tvars>>

-----------------------------------------------------------------------------
(* System calls and items.                                                 *)

Rel(elems) == Path(FALSE, elems)
Abs(elems) == Path(TRUE, elems)

mkdir(path)   == [op |-> "mkdir", path |-> path]
mknod(path)   == [op |-> "mknod", path |-> path]
chdir(path)   == [op |-> "chdir", path |-> path]
unlink(path)  == [op |-> "unlink", path |-> path]
link(old, new) == [op |-> "link", path |-> old, new |-> new]
open(path, mode)  == [op |-> "open", path |-> path, mode |-> mode]
creat(path, mode) == [op |-> "creat", path |-> path, mode |-> mode]
write(fd, data)   == [op |-> "write", fd |-> fd, data |-> data]
read(fd, n)   == [op |-> "read", fd |-> fd, n |-> n]
close(fd)     == [op |-> "close", fd |-> fd]
dup(fd)       == [op |-> "dup", fd |-> fd]
fstat(fd)     == [op |-> "fstat", fd |-> fd]
exit          == [op |-> "exit"]
fork(q)       == [op |-> "fork", child |-> q]
wait(q)       == [op |-> "wait", child |-> q]

(* The call and what its result may be; data is {} if nobody looks. *)
MaxRet == 99
Expect(c, lo, hi, data) == [call |-> c, lo |-> lo, hi |-> hi, data |-> data]
Do(c)      == Expect(c, -1, MaxRet, {})
Ok(c)       == Expect(c, 0, MaxRet, {})
Fails(c)    == Expect(c, -1, -1, {})
Gives(c, n) == Expect(c, n, n, {})
Reads(fd, s) == Expect(read(fd, Len(s)), Len(s), Len(s), {s})
AtEnd(fd)   == Gives(read(fd, 1), 0)

(* A test of one process; of a parent and its children. *)
Single(s) == {<<s>>}
f(n) == Rel(<<n>>)

-----------------------------------------------------------------------------
(* usertests.c                                                             *)

iputtest == Single(<<Ok(mkdir(f("iputdir"))), Ok(chdir(f("iputdir"))),
                     Ok(unlink(Rel(<<"..", "iputdir">>))), Ok(chdir(Abs(<<>>)))>>)

exitiputtest == {<< <<Ok(fork(2)), Ok(wait(2))>>,
                    <<Ok(mkdir(f("iputdir"))), Ok(chdir(f("iputdir"))),
                      Ok(unlink(Rel(<<"..", "iputdir">>))), Do(exit)>> >>}

openiputtest == {<< <<Ok(mkdir(f("oidir"))), Ok(fork(2)), Gives(unlink(f("oidir")), 0), Ok(wait(2))>>,
                    <<Fails(open(f("oidir"), O_RDWR)), Do(exit)>> >>}

opentest == Single(<<Ok(open(f("README"), O_RDONLY)), Do(close(0)),
                     Fails(open(f("doesnotexist"), O_RDONLY))>>)

writetest == Single(<<Ok(creat(f("small"), O_RDWR)),
                      Gives(write(0, <<1>>), 1), Gives(write(0, <<2>>), 1),
                      Gives(write(0, <<1>>), 1), Gives(write(0, <<2>>), 1), Do(close(0)),
                      Ok(open(f("small"), O_RDONLY)), Gives(read(0, 4), 4), Do(close(0)),
                      Ok(unlink(f("small")))>>)

writetest1 == Single(<<Ok(creat(f("big"), O_RDWR))>>
                     \o [i \in 1 .. MAXFILE |-> Gives(write(0, <<i>>), 1)]
                     \o <<Do(close(0)), Ok(open(f("big"), O_RDONLY))>>
                     \o [i \in 1 .. MAXFILE |-> Reads(0, <<i>>)]
                     \o <<AtEnd(0), Do(close(0)), Ok(unlink(f("big")))>>)

createtest == Single(<<Do(creat(f("a0"), O_RDWR)), Do(close(0)),
                       Do(creat(f("a1"), O_RDWR)), Do(close(0)),
                       Do(unlink(f("a0"))), Do(unlink(f("a1")))>>)

dirtest == Single(<<Ok(mkdir(f("dir0"))), Ok(chdir(f("dir0"))), Ok(chdir(f(".."))),
                    Ok(unlink(f("dir0")))>>)

(* Two processes share one offset: nothing is overwritten. *)
sharedfd ==
    LET W(b) == <<Gives(write(0, <<b, b>>), 2), Gives(write(0, <<b>>), 1)>>
        Mixed == {s \in [1 .. 6 -> {1, 2}] : Cardinality({k \in 1 .. 6 : s[k] = 1}) = 3}
    IN {<< <<Do(unlink(f("sharedfd"))), Ok(creat(f("sharedfd"), O_RDWR)), Ok(fork(2))>>
             \o W(1)
             \o <<Ok(wait(2)), Do(close(0)), Ok(open(f("sharedfd"), O_RDONLY)),
                  Expect(read(0, 7), 6, 6, Mixed), AtEnd(0), Do(close(0)),
                  Do(unlink(f("sharedfd")))>>,
           W(2) \o <<Do(exit)>> >>}

fourfiles ==
    LET Child(n, b) == <<Ok(creat(f(n), O_RDWR)), Gives(write(0, <<b>>), 1),
                         Gives(write(0, <<b, b>>), 2), Do(exit)>>
        Check(n, b) == <<Do(open(f(n), O_RDONLY)), Reads(0, <<b, b, b>>), AtEnd(0),
                         Do(close(0)), Do(unlink(f(n)))>>
    IN {<< <<Do(unlink(f("f0"))), Ok(fork(2)), Do(unlink(f("f1"))), Ok(fork(3)),
             Ok(wait(2)), Ok(wait(3))>> \o Check("f0", 1) \o Check("f1", 2),
           Child("f0", 1), Child("f1", 2)>>}

createdelete ==
    LET Child(a, b, c) == <<Ok(creat(f(a), O_RDWR)), Do(close(0)), Ok(creat(f(b), O_RDWR)), Do(close(0)),
                            Ok(creat(f(c), O_RDWR)), Do(close(0)), Ok(unlink(f(b))), Do(exit)>>
        Exists(n)  == <<Gives(open(f(n), O_RDONLY), 0), Do(close(0))>>
        Deleted(n) == <<Fails(open(f(n), O_RDONLY))>>
    IN {<< <<Ok(fork(2)), Ok(fork(3)), Ok(wait(2)), Ok(wait(3))>>
             \o Exists("p0") \o Exists("q0") \o Deleted("p1") \o Deleted("q1")
             \o Exists("p2") \o Exists("q2") \o <<Do(unlink(f("p0"))), Do(unlink(f("q0")))>>,
           Child("p0", "p1", "p2"), Child("q0", "q1", "q2")>>}

(* An unlinked file can still be read and written. *)
unlinkread == Single(<<Ok(creat(f("unlinkread"), O_RDWR)), Do(write(0, <<1>>)), Do(close(0)),
                       Ok(open(f("unlinkread"), O_RDWR)), Gives(unlink(f("unlinkread")), 0),
                       Do(creat(f("unlinkread"), O_RDWR)), Do(write(1, <<2, 2>>)), Do(close(1)),
                       Expect(read(0, 3), 1, 1, {<<1>>}), Gives(write(0, <<3, 3>>), 2), Do(close(0)),
                       Do(unlink(f("unlinkread")))>>)

linktest == Single(<<Do(unlink(f("lf1"))), Do(unlink(f("lf2"))),
                     Ok(creat(f("lf1"), O_RDWR)), Gives(write(0, <<1>>), 1), Do(close(0)),
                     Ok(link(f("lf1"), f("lf2"))), Do(unlink(f("lf1"))),
                     Fails(open(f("lf1"), O_RDONLY)),
                     Ok(open(f("lf2"), O_RDONLY)), Gives(read(0, 2), 1), Do(close(0)),
                     Fails(link(f("lf2"), f("lf2"))), Do(unlink(f("lf2"))),
                     Fails(link(f("lf2"), f("lf1"))), Fails(link(f("."), f("lf1")))>>)

(* Parent and child create or link the same file, then open and unlink it. *)
concreate ==
    LET C(n)    == <<Ok(creat(f(n), O_RDWR)), Do(close(0))>>
        L(n)    == <<Do(link(f("C0"), f(n)))>>
        Open(n) == <<Do(open(f(n), O_RDONLY)), Do(close(0)), Do(open(f(n), O_RDONLY)), Do(close(0))>>
        Unl(n)  == <<Do(unlink(f(n))), Do(unlink(f(n)))>>
        Round(n, s) == <<Do(unlink(f(n))), Do(fork(2))>> \o s \o <<Do(wait(2))>>
        Look(n) == <<Ok(open(f(n), O_RDONLY)), Do(close(0))>>
        Race(s) == <<Ok(fork(2))>> \o s \o <<Do(wait(2))>>
    IN {<< Round("C0", C("C0")) \o Round("C1", L("C1")) \o Round("C2", C("C2"))
             \o Look("C0") \o Look("C1") \o Look("C2")
             \o Race(Unl("C0")) \o Race(Open("C1")) \o Race(Unl("C2")),
           C("C0") \o <<Do(exit)>> \o L("C1") \o <<Do(exit)>> \o C("C2") \o <<Do(exit)>>
             \o Open("C0") \o <<Do(exit)>> \o Unl("C1") \o <<Do(exit)>> \o Unl("C2") \o <<Do(exit)>> >>}

(* Parent and child each create, link or unlink "x" at random. *)
linkunlink ==
    LET Choice == {<<Do(creat(f("x"), O_RDWR)), Do(close(0))>>,
                   <<Do(link(f("README"), f("x")))>>, <<Do(unlink(f("x")))>>}
    IN {<< <<Do(unlink(f("x"))), Ok(fork(2))>> \o a \o b \o <<Do(wait(2))>>, c \o d \o <<Do(exit)>> >>
          : a, b, c, d \in Choice}

bigdir == Single(<<Do(unlink(f("bd"))), Ok(creat(f("bd"), O_RDONLY)), Do(close(0)),
                   Gives(link(f("bd"), f("x0")), 0), Gives(link(f("bd"), f("x1")), 0),
                   Do(unlink(f("bd"))),
                   Gives(unlink(f("x0")), 0), Gives(unlink(f("x1")), 0)>>)

subdir ==
    LET ff == <<"dd", "ff">>  dd == <<"dd", "dd">> IN
    Single(<<Do(unlink(f("ff"))), Gives(mkdir(f("dd")), 0),
             Ok(creat(Rel(ff), O_RDWR)), Do(write(0, <<1, 1>>)), Do(close(0)),
             Fails(unlink(f("dd"))), Gives(mkdir(Abs(dd)), 0),
             Ok(creat(Rel(dd \o <<"ff">>), O_RDWR)), Do(write(0, <<2, 2>>)), Do(close(0)),
             Ok(open(Rel(dd \o <<"..", "ff">>), O_RDONLY)), Expect(read(0, 5), 2, 2, {<<1, 1>>}), Do(close(0)),
             Gives(link(Rel(dd \o <<"ff">>), Rel(dd \o <<"ffff">>)), 0),
             Gives(unlink(Rel(dd \o <<"ff">>)), 0), Fails(open(Rel(dd \o <<"ff">>), O_RDONLY)),
             Gives(chdir(f("dd")), 0), Gives(chdir(Rel(<<"dd", "..", "..", "dd">>)), 0),
             Gives(chdir(Rel(<<"dd", "..", "..", "..", "dd">>)), 0), Gives(chdir(Rel(<<".", "..">>)), 0),
             Ok(open(Rel(dd \o <<"ffff">>), O_RDONLY)), Gives(read(0, 5), 2), Do(close(0)),
             Fails(open(Rel(dd \o <<"ff">>), O_RDONLY)),
             Fails(creat(Rel(ff \o <<"ff">>), O_RDWR)), Fails(creat(Rel(<<"dd", "xx", "ff">>), O_RDWR)),
             Fails(creat(f("dd"), O_RDONLY)), Fails(open(f("dd"), O_RDWR)), Fails(open(f("dd"), O_WRONLY)),
             Fails(link(Rel(ff \o <<"ff">>), Rel(dd \o <<"xx">>))),
             Fails(link(Rel(<<"dd", "xx", "ff">>), Rel(dd \o <<"xx">>))),
             Fails(link(Rel(ff), Rel(dd \o <<"ffff">>))),
             Fails(mkdir(Rel(ff \o <<"ff">>))), Fails(mkdir(Rel(<<"dd", "xx", "ff">>))),
             Fails(mkdir(Rel(dd \o <<"ffff">>))),
             Fails(unlink(Rel(<<"dd", "xx", "ff">>))), Fails(unlink(Rel(ff \o <<"ff">>))),
             Fails(chdir(Rel(ff))), Fails(chdir(Rel(<<"dd", "xx">>))),
             Gives(unlink(Rel(dd \o <<"ffff">>)), 0), Gives(unlink(Rel(ff)), 0),
             Fails(unlink(f("dd"))), Ok(unlink(Rel(dd))), Ok(unlink(f("dd")))>>)

(* Writes longer than one operation of the log takes. *)
bigwrite ==
    LET Turn(s) == <<Ok(creat(f("bigwrite"), O_RDWR)), Gives(write(0, s), Len(s)), Gives(write(0, s), Len(s)),
                     Do(close(0)), Do(unlink(f("bigwrite")))>>
    IN Single(<<Do(unlink(f("bigwrite")))>> \o Turn(<<1>>) \o Turn(<<1, 2>>) \o Turn(<<1, 2, 3>>))

bigfile == Single(<<Do(unlink(f("bigfile"))), Ok(creat(f("bigfile"), O_RDWR)),
                    Gives(write(0, <<0, 0>>), 2), Gives(write(0, <<1, 1>>), 2), Do(close(0)),
                    Ok(open(f("bigfile"), O_RDONLY)),
                    Reads(0, <<0>>), Reads(0, <<0>>), Reads(0, <<1>>), Reads(0, <<1>>), AtEnd(0),
                    Do(close(0)), Do(unlink(f("bigfile")))>>)

(* Names are the same if their first DIRSIZ characters are. *)
fourteen ==
    LET n14 == "12345678901234"  n15 == "123456789012345" IN
    Single(<<Gives(mkdir(f(n14)), 0), Gives(mkdir(Rel(<<n14, n15>>)), 0),
             Ok(creat(Rel(<<n15, n15, n15>>), O_RDONLY)), Do(close(0)),
             Ok(open(Rel(<<n14, n14, n14>>), O_RDONLY)), Do(close(0)),
             Fails(mkdir(Rel(<<n14, n14>>))), Fails(mkdir(Rel(<<n15, n14>>)))>>)

rmdot == Single(<<Gives(mkdir(f("dots")), 0), Gives(chdir(f("dots")), 0),
                  Fails(unlink(f("."))), Fails(unlink(f(".."))), Gives(chdir(Abs(<<>>)), 0),
                  Fails(unlink(Rel(<<"dots", ".">>))), Fails(unlink(Rel(<<"dots", "..">>))),
                  Gives(unlink(f("dots")), 0)>>)

dirfile ==
    LET xx == Rel(<<"dirfile", "xx">>) IN
    Single(<<Ok(creat(f("dirfile"), O_RDONLY)), Do(close(0)), Fails(chdir(f("dirfile"))),
             Fails(open(xx, O_RDONLY)), Fails(creat(xx, O_RDONLY)), Fails(mkdir(xx)), Fails(unlink(xx)),
             Fails(link(f("README"), xx)), Gives(unlink(f("dirfile")), 0),
             Fails(open(f("."), O_RDWR)), Do(open(f("."), O_RDONLY)), Fails(write(0, <<1>>)),
             Do(close(0))>>)

(* The empty path: nameiparent() fails and must drop its reference. *)
iref ==
    LET Turn == <<Gives(mkdir(f("irefd")), 0), Gives(chdir(f("irefd")), 0), Do(mkdir(Rel(<<>>))),
                  Do(link(f("README"), Rel(<<>>))), Do(creat(Rel(<<>>), O_RDONLY)), Do(close(0)),
                  Do(creat(f("xx"), O_RDONLY)), Do(close(0)), Do(unlink(f("xx")))>>
    IN Single(Turn \o Turn \o Turn \o <<Do(chdir(Abs(<<>>)))>>)

(* stressfs.c and the descriptors of init.c *)
stressfs ==
    LET Body(n) == <<Do(creat(f(n), O_RDWR)), Do(write(0, <<1>>)), Do(write(0, <<1>>)), Do(close(0)),
                     Do(open(f(n), O_RDONLY)), Reads(0, <<1>>), Reads(0, <<1>>), Do(close(0))>>
    IN {<< <<Ok(fork(2))>> \o Body("stressfs0") \o <<Do(wait(2))>>, Body("stressfs1") \o <<Do(exit)>> >>}

initmain == Single(<<Do(open(f("console"), O_RDWR)), Do(mknod(f("console"))),
                     Gives(open(f("console"), O_RDWR), 0), Gives(dup(0), 1), Gives(dup(0), 2),
                     Ok(fork(2))>>)

(* Not a test of usertests.c: link("..") from a directory that was removed *)
(* together with its parent, beside a process that creates a file.         *)
orphan == {<< <<Ok(mkdir(f("d"))), Ok(mkdir(Rel(<<"d", "e">>))), Ok(chdir(Rel(<<"d", "e">>))),
                Ok(unlink(Abs(<<"d", "e">>))), Ok(unlink(Abs(<<"d">>))), Ok(fork(2)),
                Do(link(f(".."), Abs(<<"w">>))), Do(wait(2))>>,
              <<Do(creat(Abs(<<"z">>), O_RDWR)), Do(exit)>> >>}

(* Two processes that share an open file, then do as they like. *)
anyclient == Single(<<Do(open(f("README"), O_RDWR)), Do(fork(2))>>)

Scripts(t) ==
    CASE t = "iputtest" -> iputtest [] t = "exitiputtest" -> exitiputtest
      [] t = "openiputtest" -> openiputtest [] t = "opentest" -> opentest
      [] t = "writetest" -> writetest [] t = "writetest1" -> writetest1
      [] t = "createtest" -> createtest [] t = "dirtest" -> dirtest
      [] t = "sharedfd" -> sharedfd [] t = "fourfiles" -> fourfiles
      [] t = "createdelete" -> createdelete [] t = "unlinkread" -> unlinkread
      [] t = "linktest" -> linktest [] t = "concreate" -> concreate
      [] t = "linkunlink" -> linkunlink [] t = "bigdir" -> bigdir
      [] t = "subdir" -> subdir [] t = "bigwrite" -> bigwrite
      [] t = "bigfile" -> bigfile [] t = "fourteen" -> fourteen
      [] t = "rmdot" -> rmdot [] t = "dirfile" -> dirfile [] t = "iref" -> iref
      [] t = "stressfs" -> stressfs [] t = "initmain" -> initmain
      [] t = "orphan" -> orphan [] t = "any" -> anyclient

(* The calls of the clients: the scripts are sequences of system calls. *)
ScriptCalls == SystemCalls \cup {"fork", "wait"}

ASSUME ScriptsAssumption ==
    /\ \A c \in Calls : c.op \in ScriptCalls
    /\ \A t \in Tests : \A s \in Scripts(t) : \A p \in DOMAIN s :
         s[p] \in Seq(ToSet(s[p])) /\ \A x \in ToSet(s[p]) : x.call.op \in ScriptCalls

-----------------------------------------------------------------------------
(* Running them.                                                           *)

Idle == Do(exit)

(* mkfs puts one more file, README, into the root. *)
TInit ==
    /\ InitWith(<<"README">>)
    /\ test \in Tests
    /\ \E s \in Scripts(test) : prog = [p \in Procs |-> IF p \in DOMAIN s THEN s[p] ELSE <<>>]
    /\ want = [p \in Procs |-> Idle]
    /\ ncalls = 0

Call(p, c) ==
    \/ c.op \notin {"fork", "wait"} /\ Syscall(p, c)
    \/ c.op = "fork" /\ c.child \in Procs /\ Fork(p, c.child)
    \/ /\ c.op = "wait" /\ cwd[c.child] = None
       /\ cwd[p] # None /\ todo[p] = <<>>
       /\ ret' = [ret EXCEPT ![p] = [r |-> c.child, data |-> <<>>]]
       /\ UNCHANGED <<dinode, inode, file, ofile, cwd, op, todo, reg, panic>>

RunItem(p) ==
    /\ prog[p] # <<>>
    /\ Call(p, Head(prog[p]).call)
    /\ prog' = [prog EXCEPT ![p] = Tail(@)]
    /\ want' = [want EXCEPT ![p] = Head(prog[p])]
    /\ UNCHANGED <<test, ncalls>>

RunAny(p) ==
    /\ test = "any" /\ prog[1] = <<>> /\ ncalls < MaxCalls
    /\ \E c \in Calls : Call(p, c)
    /\ ncalls' = ncalls + 1
    /\ UNCHANGED <<test, prog, want>>

TNext == \E p \in Procs : \/ RunItem(p) \/ RunAny(p)
                          \/ (Step(p) \/ Panic(p)) /\ UNCHANGED tvars

TSpec == TInit /\ [][TNext]_allvars

(* Every test gets the results it expects, whatever the interleaving. *)
ExpectedResults ==
    test # "any" => ~panic /\ \A p \in Procs : todo[p] = <<>> =>
        /\ want[p].lo <= ret[p].r /\ ret[p].r <= want[p].hi
        /\ want[p].data # {} => ret[p].data \in want[p].data
=============================================================================
