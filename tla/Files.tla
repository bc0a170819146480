------------------------------- MODULE Files -------------------------------
(***************************************************************************)
(* Inodes, directories, path names, open files and the system calls on     *)
(* them: fs.c from ialloc() up, file.c and sysfile.c.  Below are the log   *)
(* (module Log: here only who is inside an operation) and the blocks       *)
(* (module Blocks: here an inode has its content).                         *)
(*                                                                         *)
(* A process in a system call has an agenda, todo[p]: what is left of the  *)
(* call, one item for each stretch of code that runs without waiting.  An  *)
(* item takes at most one inode lock, at its start; a stretch that returns *)
(* with the lock held names it in lock.  Items stand for code, so the      *)
(* agenda is the stack of the process; reg[p] are its local variables.     *)
(***************************************************************************)
EXTENDS Integers, Sequences, SequencesExt, FiniteSets, FiniteSetsExt

CONSTANTS
    NProcs,    \* processes
    NInodes,   \* inodes on disk, sb.ninodes - 1
    NINODE,    \* entries of the inode cache
    NFILE,     \* open files in the system
    NOFILE,    \* open files of a process
    DIRSIZ,    \* characters of a name that count
    MAXFILE,   \* largest file
    WriteMax,  \* what filewrite() writes in one operation
    MaxOps     \* operations begin_op() admits

ASSUME FilesAssumption ==
    /\ {NProcs, NInodes, NINODE, NFILE, NOFILE, DIRSIZ, WriteMax, MaxOps} \subseteq Nat \ {0}
    /\ MAXFILE \in Nat

Procs   == 1 .. NProcs
Inums   == 1 .. NInodes
ROOTINO == 1
None    == 0            \* no inode, no file, no process
Fds     == 0 .. NOFILE - 1

T_FREE == 0
T_DIR  == 1
T_FILE == 2
T_DEV  == 3

VARIABLES
    dinode,   \* the inodes on disk: type, nlink and content
    inode,    \* the inode cache, by inode number: ref, lock, valid and the copy
    file,     \* ftable
    ofile,    \* ofile[p][fd]
    cwd,      \* cwd[p], None if there is no process p
    op,       \* the processes between begin_op() and end_op()
    todo, reg, ret,
    panic

fsvars == <<dinode, inode>>
pvars  == <<file, ofile, cwd>>
vars   == <<dinode, inode, file, ofile, cwd, op, todo, reg, ret, panic>>

(* The content of a directory maps names to inode numbers. *)
EmptyDir  == [s \in {} |-> None]
NewDir(ip, dp) == [s \in {".", ".."} |-> IF s = "." THEN ip ELSE dp]

FreeInode == [type |-> T_FREE, nlink |-> 0, data |-> <<>>]
FreeFile  == [ref |-> 0, ip |-> None, off |-> 0, readable |-> FALSE, writable |-> FALSE]
NoReg     == [call |-> [op |-> "none"], ip |-> None, dp |-> None, old |-> None,
              elems |-> <<>>, name |-> ""]

(* The file system as mkfs leaves it, with empty files of the given names  *)
(* in its root, and the first process.                                     *)
RootDir(names) ==
    [s \in {".", ".."} \cup ToSet(names) |->
        IF s \in {".", ".."} THEN ROOTINO ELSE ROOTINO + CHOOSE k \in DOMAIN names : names[k] = s]

InitWith(names) ==
    /\ dinode = [i \in Inums |->
                   IF i = ROOTINO THEN [type |-> T_DIR, nlink |-> 1, data |-> RootDir(names)]
                   ELSE IF i <= ROOTINO + Len(names) THEN [type |-> T_FILE, nlink |-> 1, data |-> <<>>]
                   ELSE FreeInode]
    /\ inode = [i \in Inums |-> [ref |-> IF i = ROOTINO THEN 1 ELSE 0, lock |-> None,
                                 valid |-> FALSE, type |-> T_FREE, nlink |-> 0, data |-> <<>>]]
    /\ file = [f \in 1 .. NFILE |-> FreeFile]
    /\ ofile = [p \in Procs |-> [fd \in Fds |-> None]]
    /\ cwd = [p \in Procs |-> IF p = 1 THEN ROOTINO ELSE None]
    /\ op = {}
    /\ todo = [p \in Procs |-> <<>>]
    /\ reg = [p \in Procs |-> NoReg]
    /\ ret = [p \in Procs |-> [r |-> 0, data |-> <<>>]]
    /\ panic = FALSE

-----------------------------------------------------------------------------
(* The agenda.                                                             *)

Item(l)   == <<l, None>>
Label(p)  == IF todo[p] = <<>> THEN "user" ELSE todo[p][1][1]
Arg(p)    == todo[p][1][2]

(* What remains is s; s and what followed the current item. *)
Only(p, s) == todo' = [todo EXCEPT ![p] = s]
Then(p, s) == todo' = [todo EXCEPT ![p] = s \o Tail(@)]

Set(p, r) == reg' = [reg EXCEPT ![p] = r]

(* The system call returns r. *)
Return(p, r, data) ==
    /\ Only(p, <<>>)
    /\ Set(p, NoReg)
    /\ ret' = [ret EXCEPT ![p] = [r |-> r, data |-> data]]

iput(i)      == <<"iput", i>>
iunlock(i)   == <<"iunlock", i>>
BugIunlockput(i) == <<iunlock(i)>>
iunlockput(i) == <<iunlock(i), iput(i)>>
end_op(r)    == <<"end_op", r>>

-----------------------------------------------------------------------------
(* The inode cache.                                                        *)

(* The cache with one more reference to inode i: iget(), idup(). *)
IgetIn(c, i) ==
    IF i = None THEN c
    ELSE [c EXCEPT ![i].ref = @ + 1, ![i].valid = @ /\ c[i].ref > 0]

(* The cached inode as ilock() leaves it: read from disk if not valid. *)
Ilocked(i) ==
    LET n == inode[i] IN
    IF n.valid THEN n
    ELSE [n EXCEPT !.valid = TRUE, !.type = dinode[i].type, !.nlink = dinode[i].nlink,
                   !.data = dinode[i].data]

(* What iupdate() and writei() put on disk of the cached inode n. *)
OnDisk(n) == [type |-> n.type, nlink |-> n.nlink, data |-> n.data]

Hold(n, p) == [n EXCEPT !.lock = p]

IsDir(n) == n.type = T_DIR

(* dirlookup(): the entry of name s, None if there is none. *)
dirlookup(n, s) == IF s \in DOMAIN n.data THEN n.data[s] ELSE None

(* dirlink() once it has found that there is no entry s, and its inverse   *)
(* in sys_unlink().                                                        *)
WithEntry(n, s, i) ==
    [n EXCEPT !.data = [t \in DOMAIN n.data \cup {s} |-> IF t = s THEN i ELSE n.data[t]]]
WithoutEntry(n, s) ==
    [n EXCEPT !.data = [t \in DOMAIN n.data \ {s} |-> n.data[t]]]

isdirempty(n) == DOMAIN n.data \subseteq {".", ".."}

(* A directory has a link for the ".." of each directory in it. *)
ParentLinks(type) == IF type = T_DIR THEN 1 ELSE 0

BugSkipelem(elems) == Head(elems)

(* skipelem() copies at most DIRSIZ characters of the next element. *)
skipelem(elems) == IF Len(Head(elems)) >= DIRSIZ THEN SubSeq(Head(elems), 1, DIRSIZ)
                   ELSE Head(elems)

(* iput(): take the lock and decide; free; drop the reference.             *)
BugMustFree(n) == n.valid /\ n.ref = 1
MustFree(n) == n.valid /\ n.nlink = 0 /\ n.ref = 1

Iput(p) ==
    /\ Label(p) = "iput"
    /\ LET i == Arg(p) IN
       IF MustFree(inode[i])
         THEN /\ inode' = [inode EXCEPT ![i].lock = p]
              /\ Then(p, << <<"ifree", i>> >>)
         ELSE /\ UNCHANGED inode
              /\ Then(p, << <<"deref", i>> >>)
    /\ UNCHANGED <<dinode, pvars, op, reg, ret>>

BugIfree(p) ==
    /\ Label(p) = "ifree"
    /\ LET i == Arg(p) IN
       /\ dinode' = [dinode EXCEPT ![i] = FreeInode]
       /\ inode' = [inode EXCEPT ![i] = [@ EXCEPT !.lock = None, !.type = T_FREE, !.data = <<>>]]
       /\ Then(p, << <<"deref", i>> >>)
    /\ UNCHANGED <<pvars, op, reg, ret>>

(* itrunc(), type = 0, iupdate(), valid = 0. *)
Ifree(p) ==
    /\ Label(p) = "ifree"
    /\ LET i == Arg(p) IN
       /\ dinode' = [dinode EXCEPT ![i] = FreeInode]
       /\ inode' = [inode EXCEPT ![i] = [@ EXCEPT !.lock = None, !.valid = FALSE,
                                                  !.type = T_FREE, !.data = <<>>]]
       /\ Then(p, << <<"deref", i>> >>)
    /\ UNCHANGED <<pvars, op, reg, ret>>

Deref(p) ==
    /\ Label(p) = "deref"
    /\ inode' = [inode EXCEPT ![Arg(p)].ref = @ - 1]
    /\ Then(p, <<>>)
    /\ UNCHANGED <<dinode, pvars, op, reg, ret>>

Iunlock(p) ==
    /\ Label(p) = "iunlock"
    /\ inode' = [inode EXCEPT ![Arg(p)].lock = None]
    /\ Then(p, <<>>)
    /\ UNCHANGED <<dinode, pvars, op, reg, ret>>

-----------------------------------------------------------------------------
(* Operations and paths.                                                   *)

MayBegin == Cardinality(op) < MaxOps

BeginOp(p) ==
    /\ Label(p) = "begin_op" /\ MayBegin
    /\ op' = op \cup {p}
    /\ Then(p, <<>>)
    /\ UNCHANGED <<fsvars, pvars, reg, ret>>

(* The last end_op() of a system call is followed by its return. *)
EndOp(p) ==
    /\ Label(p) = "end_op"
    /\ op' = op \ {p}
    /\ IF Len(todo[p]) = 1 THEN Return(p, Arg(p), <<>>)
                           ELSE Then(p, <<>>) /\ UNCHANGED <<reg, ret>>
    /\ UNCHANGED <<fsvars, pvars>>

(* namex() up to its loop: the directory the walk starts from. *)
StartOf(p, path) == IF path.abs THEN ROOTINO ELSE cwd[p]

Namex(p) ==
    /\ Label(p) \in {"namei", "nameiparent"}
    /\ LET ip == StartOf(p, Arg(p))
           es == Arg(p).elems
       IN /\ inode' = IgetIn(inode, ip)
          /\ IF es # <<>>
               THEN /\ Set(p, [reg[p] EXCEPT !.ip = ip, !.elems = es])
                    /\ Then(p, << <<"walk", Label(p) = "nameiparent">> >>)
             ELSE IF Label(p) = "namei"
               THEN Set(p, [reg[p] EXCEPT !.ip = ip]) /\ Then(p, <<>>)
               ELSE Set(p, [reg[p] EXCEPT !.ip = None]) /\ Then(p, <<iput(ip)>>)
    /\ UNCHANGED <<dinode, pvars, op, ret>>

(* One turn of namex()'s loop: lock, look up, unlock; the iput() follows.  *)
Walk(p) ==
    /\ Label(p) = "walk"
    /\ LET ip    == reg[p].ip
           n     == Ilocked(ip)
           es    == reg[p].elems
           name  == skipelem(es)
           stop  == Arg(p) /\ Len(es) = 1
           next  == IF IsDir(n) /\ ~stop THEN dirlookup(n, name) ELSE None
       IN /\ inode' = IgetIn([inode EXCEPT ![ip] = n], next)
          /\ \/ /\ IsDir(n) /\ stop
                /\ Set(p, [reg[p] EXCEPT !.name = name, !.elems = <<>>])
                /\ Then(p, <<>>)
             \/ /\ ~IsDir(n) \/ (~stop /\ next = None)
                /\ Set(p, [reg[p] EXCEPT !.ip = None, !.elems = <<>>])
                /\ Then(p, <<iput(ip)>>)
             \/ /\ next # None
                /\ Set(p, [reg[p] EXCEPT !.ip = next, !.elems = Tail(es)])
                /\ Then(p, <<iput(ip)>> \o IF Len(es) = 1 THEN <<>> ELSE <<todo[p][1]>>)
    /\ UNCHANGED <<dinode, pvars, op, ret>>

(* The lookup failed: leave the operation. *)
NoInode(p, l) ==
    /\ Label(p) = l /\ reg[p].ip = None
    /\ Only(p, <<end_op(-1)>>)
    /\ UNCHANGED <<fsvars, pvars, op, reg, ret>>

-----------------------------------------------------------------------------
(* sys_link(): raise nlink first, then write the entry, undo on failure.   *)

Link1(p) ==
    /\ Label(p) = "link1" /\ reg[p].ip # None
    /\ LET ip == reg[p].ip
           n  == Ilocked(ip)
           m  == [n EXCEPT !.nlink = @ + 1]
       IN IF IsDir(n)
            THEN /\ inode' = [inode EXCEPT ![ip] = n]
                 /\ Only(p, <<iput(ip), end_op(-1)>>)
                 /\ UNCHANGED <<dinode, reg>>
            ELSE /\ inode' = [inode EXCEPT ![ip] = m]
                 /\ dinode' = [dinode EXCEPT ![ip] = OnDisk(m)]
                 /\ Set(p, [reg[p] EXCEPT !.old = ip])
                 /\ Only(p, << <<"nameiparent", reg[p].call.new>>, Item("link2") >>)
    /\ UNCHANGED <<pvars, op, ret>>

(* dirlink(dp, name, ip->inum).  If there is an entry, dirlink() drops the *)
(* reference dirlookup() gave it, with dp locked.                          *)
Link2(p) ==
    /\ Label(p) = "link2" /\ reg[p].ip # None
    /\ LET dp == reg[p].ip
           n  == Ilocked(dp)
           e  == dirlookup(n, reg[p].name)
           m  == WithEntry(n, reg[p].name, reg[p].old)
       IN IF e # None
            THEN /\ inode' = IgetIn([inode EXCEPT ![dp] = Hold(n, p)], e)
                 /\ Only(p, <<iput(e)>> \o iunlockput(dp) \o <<Item("linkbad")>>)
                 /\ UNCHANGED dinode
            ELSE /\ inode' = [inode EXCEPT ![dp] = m]
                 /\ dinode' = [dinode EXCEPT ![dp] = OnDisk(m)]
                 /\ Only(p, <<iput(dp), iput(reg[p].old), end_op(0)>>)
    /\ UNCHANGED <<pvars, op, reg, ret>>

LinkNoDir(p) ==
    /\ Label(p) = "link2" /\ reg[p].ip = None
    /\ Only(p, <<Item("linkbad")>>)
    /\ UNCHANGED <<fsvars, pvars, op, reg, ret>>

LinkBad(p) ==
    /\ Label(p) = "linkbad"
    /\ LET ip == reg[p].old
           m  == [Ilocked(ip) EXCEPT !.nlink = @ - 1]
       IN /\ inode' = [inode EXCEPT ![ip] = m]
          /\ dinode' = [dinode EXCEPT ![ip] = OnDisk(m)]
          /\ Only(p, <<iput(ip), end_op(-1)>>)
    /\ UNCHANGED <<pvars, op, reg, ret>>

-----------------------------------------------------------------------------
(* sys_unlink(): the directory stays locked while the inode is locked.     *)

Unlinkable(name) == name \notin {".", ".."}

Unlink1(p) ==
    /\ Label(p) = "unlink1" /\ reg[p].ip # None
    /\ LET dp == reg[p].ip
           n  == Ilocked(dp)
           e  == IF Unlinkable(reg[p].name) THEN dirlookup(n, reg[p].name) ELSE None
       IN IF e = None
            THEN /\ inode' = [inode EXCEPT ![dp] = n]
                 /\ Only(p, <<iput(dp), end_op(-1)>>)
                 /\ UNCHANGED reg
            ELSE /\ inode' = IgetIn([inode EXCEPT ![dp] = Hold(n, p)], e)
                 /\ Set(p, [reg[p] EXCEPT !.dp = dp, !.ip = e])
                 /\ Only(p, <<Item("unlink2")>>)
    /\ UNCHANGED <<dinode, pvars, op, ret>>

Unlink2(p) ==
    /\ Label(p) = "unlink2"
    /\ LET ip == reg[p].ip
           dp == reg[p].dp
           n  == Ilocked(ip)
           d  == [WithoutEntry(inode[dp], reg[p].name) EXCEPT
                    !.lock = None, !.nlink = @ - ParentLinks(n.type)]
       IN IF IsDir(n) /\ ~isdirempty(n)
            THEN /\ inode' = [inode EXCEPT ![ip] = n]
                 /\ Only(p, <<iput(ip)>> \o iunlockput(dp) \o <<end_op(-1)>>)
                 /\ UNCHANGED dinode
            ELSE /\ inode' = [inode EXCEPT ![ip] = Hold(n, p), ![dp] = d]
                 /\ dinode' = [dinode EXCEPT ![dp] = OnDisk(d)]
                 /\ Only(p, <<iput(dp), Item("unlink3")>>)
    /\ UNCHANGED <<pvars, op, reg, ret>>

Unlink3(p) ==
    /\ Label(p) = "unlink3"
    /\ LET ip == reg[p].ip
           m  == [inode[ip] EXCEPT !.nlink = @ - 1, !.lock = None]
       IN /\ inode' = [inode EXCEPT ![ip] = m]
          /\ dinode' = [dinode EXCEPT ![ip] = OnDisk(m)]
          /\ Only(p, <<iput(ip), end_op(0)>>)
    /\ UNCHANGED <<pvars, op, reg, ret>>

-----------------------------------------------------------------------------
(* create(), which returns with the inode locked.  The argument of its     *)
(* items is the type.                                                      *)

FreeInums == {i \in Inums : dinode[i].type = T_FREE}

Create1(p) ==
    /\ Label(p) = "create" /\ reg[p].ip # None
    /\ LET dp == reg[p].ip
           n  == Ilocked(dp)
           e  == dirlookup(n, reg[p].name)
       IN IF e # None
            THEN /\ inode' = IgetIn([inode EXCEPT ![dp] = n], e)
                 /\ Set(p, [reg[p] EXCEPT !.ip = e])
                 /\ Then(p, <<iput(dp), <<"exists", Arg(p)>> >>)
            ELSE /\ inode' = [inode EXCEPT ![dp] = Hold(n, p)]
                 /\ Set(p, [reg[p] EXCEPT !.dp = dp])
                 /\ Then(p, << <<"ialloc", Arg(p)>> >>)
    /\ UNCHANGED <<dinode, pvars, op, ret>>

CreateNoDir(p) ==
    /\ Label(p) = "create" /\ reg[p].ip = None
    /\ Then(p, <<>>)
    /\ UNCHANGED <<fsvars, pvars, op, reg, ret>>

CreateExists(p) ==
    /\ Label(p) = "exists"
    /\ LET ip == reg[p].ip
           n  == Ilocked(ip)
       IN IF Arg(p) = T_FILE /\ n.type = T_FILE
            THEN /\ inode' = [inode EXCEPT ![ip] = Hold(n, p)]
                 /\ Then(p, <<>>)
                 /\ UNCHANGED reg
            ELSE /\ inode' = [inode EXCEPT ![ip] = n]
                 /\ Set(p, [reg[p] EXCEPT !.ip = None])
                 /\ Then(p, <<iput(ip)>>)
    /\ UNCHANGED <<dinode, pvars, op, ret>>

ialloc(p) ==
    /\ Label(p) = "ialloc"
    /\ LET i == Min(FreeInums) IN
       /\ dinode' = [dinode EXCEPT ![i] = [type |-> Arg(p), nlink |-> 0,
                                           data |-> IF Arg(p) = T_DIR THEN EmptyDir ELSE <<>>]]
       /\ inode' = IgetIn(inode, i)
       /\ Set(p, [reg[p] EXCEPT !.ip = i])
       /\ Then(p, << <<"newinode", Arg(p)>> >>)
    /\ UNCHANGED <<pvars, op, ret>>

CreateNew(p) ==
    /\ Label(p) = "newinode"
    /\ LET ip == reg[p].ip
           dp == reg[p].dp
           n  == [Ilocked(ip) EXCEPT !.nlink = 1, !.lock = p,
                                     !.data = IF Arg(p) = T_DIR THEN NewDir(ip, dp) ELSE @]
           d  == [WithEntry(inode[dp], reg[p].name, ip) EXCEPT
                    !.lock = None, !.nlink = @ + ParentLinks(Arg(p))]
       IN /\ inode' = [inode EXCEPT ![ip] = n, ![dp] = d]
          /\ dinode' = [dinode EXCEPT ![ip] = OnDisk(n), ![dp] = OnDisk(d)]
          /\ Then(p, <<iput(dp)>>)
    /\ UNCHANGED <<pvars, op, reg, ret>>

(* sys_mkdir() and sys_mknod() after create(). *)
Mkdir(p) ==
    /\ Label(p) = "mkdir" /\ reg[p].ip # None
    /\ Only(p, iunlockput(reg[p].ip) \o <<end_op(0)>>)
    /\ UNCHANGED <<fsvars, pvars, op, reg, ret>>

-----------------------------------------------------------------------------
(* sys_open() and sys_chdir() after the lookup.                            *)

(* O_RDONLY is 0, O_WRONLY 1, O_RDWR 2. *)
O_RDONLY == 0
O_WRONLY == 1
O_RDWR   == 2

Open1(p) ==
    /\ Label(p) = "open1" /\ reg[p].ip # None
    /\ LET ip == reg[p].ip
           n  == Ilocked(ip)
       IN IF IsDir(n) /\ reg[p].call.mode # O_RDONLY
            THEN /\ inode' = [inode EXCEPT ![ip] = n]
                 /\ Only(p, <<iput(ip), end_op(-1)>>)
            ELSE /\ inode' = [inode EXCEPT ![ip] = Hold(n, p)]
                 /\ Only(p, <<Item("open2")>>)
    /\ UNCHANGED <<dinode, pvars, op, reg, ret>>

(* filealloc() and fdalloc(): the first free ones. *)
FreeFiles  == {f \in 1 .. NFILE : file[f].ref = 0}
FreeFds(p) == {fd \in Fds : ofile[p][fd] = None}

Open2(p) ==
    /\ Label(p) = "open2" /\ reg[p].ip # None
    /\ LET ip == reg[p].ip
           f  == Min(FreeFiles)
           fd == Min(FreeFds(p))
           mode == reg[p].call.mode
       IN IF FreeFiles = {} \/ FreeFds(p) = {}
            THEN /\ Only(p, iunlockput(ip) \o <<end_op(-1)>>)
                 /\ UNCHANGED <<inode, file, ofile, op, reg, ret>>
            ELSE /\ inode' = [inode EXCEPT ![ip].lock = None]
                 /\ file' = [file EXCEPT ![f] = [ref |-> 1, ip |-> ip, off |-> 0,
                                                 readable |-> mode # O_WRONLY,
                                                 writable |-> mode \in {O_WRONLY, O_RDWR}]]
                 /\ ofile' = [ofile EXCEPT ![p][fd] = f]
                 /\ op' = op \ {p}
                 /\ Return(p, fd, <<>>)
    /\ UNCHANGED <<dinode, cwd>>

Chdir1(p) ==
    /\ Label(p) = "chdir1" /\ reg[p].ip # None
    /\ LET ip == reg[p].ip
           n  == Ilocked(ip)
       IN /\ inode' = [inode EXCEPT ![ip] = n]
          /\ Only(p, IF IsDir(n) THEN <<iput(cwd[p]), Item("chdir2")>>
                                 ELSE <<iput(ip), end_op(-1)>>)
    /\ UNCHANGED <<dinode, pvars, op, reg, ret>>

Chdir2(p) ==
    /\ Label(p) = "chdir2"
    /\ cwd' = [cwd EXCEPT ![p] = reg[p].ip]
    /\ op' = op \ {p}
    /\ Return(p, 0, <<>>)
    /\ UNCHANGED <<fsvars, file, ofile>>

-----------------------------------------------------------------------------
(* The calls on a descriptor.                                              *)

(* argfd() *)
argfd(p, fd) == IF fd \in Fds THEN ofile[p][fd] ELSE None

BadFd(p) ==
    /\ Label(p) \in {"close", "dup", "read", "write", "fstat"}
    /\ argfd(p, Arg(p)) = None
    /\ Return(p, -1, <<>>)
    /\ UNCHANGED <<fsvars, pvars, op>>

(* The last reference to a file is gone: put the inode in an operation. *)
BugCloseInode(i) == <<iput(i), Item("begin_op"), end_op(0)>>
CloseInode(i) == <<Item("begin_op"), iput(i), end_op(0)>>

(* fileclose(), in sys_close() or exit(). *)
Fileclose(p) ==
    /\ Label(p) = "close" /\ argfd(p, Arg(p)) # None
    /\ LET f == argfd(p, Arg(p)) IN
       /\ ofile' = [ofile EXCEPT ![p][Arg(p)] = None]
       /\ IF file[f].ref > 1
            THEN /\ file' = [file EXCEPT ![f].ref = @ - 1]
                 /\ IF Len(todo[p]) = 1 THEN Return(p, 0, <<>>)
                                        ELSE Then(p, <<>>) /\ UNCHANGED <<reg, ret>>
            ELSE /\ file' = [file EXCEPT ![f] = FreeFile]
                 /\ Then(p, CloseInode(file[f].ip))
                 /\ UNCHANGED <<reg, ret>>
    /\ UNCHANGED <<fsvars, cwd, op>>

Dup(p) ==
    /\ Label(p) = "dup" /\ argfd(p, Arg(p)) # None
    /\ LET f  == argfd(p, Arg(p))
           fd == Min(FreeFds(p))
       IN IF FreeFds(p) = {}
            THEN Return(p, -1, <<>>) /\ UNCHANGED <<file, ofile>>
            ELSE /\ ofile' = [ofile EXCEPT ![p][fd] = f]
                 /\ file' = [file EXCEPT ![f].ref = @ + 1]
                 /\ Return(p, fd, <<>>)
    /\ UNCHANGED <<fsvars, cwd, op>>

(* readi() of n bytes at off.  A device without a driver gives -1. *)
readi(m, off, n) == SubSeq(m.data, off + 1, Min({off + n, Len(m.data)}))

Read(p) ==
    /\ Label(p) = "read" /\ argfd(p, Arg(p)) # None
    /\ LET f == argfd(p, Arg(p))
           m == Ilocked(file[f].ip)
           s == readi(m, file[f].off, reg[p].call.n)
       IN \/ /\ ~file[f].readable
             /\ Return(p, -1, <<>>)
             /\ UNCHANGED <<inode, file>>
          \/ /\ file[f].readable /\ m.type # T_DEV
             /\ inode' = [inode EXCEPT ![file[f].ip] = m]
             /\ file' = [file EXCEPT ![f].off = @ + Len(s)]
             /\ Return(p, Len(s), s)
          \/ /\ file[f].readable /\ m.type = T_DEV
             /\ inode' = [inode EXCEPT ![file[f].ip] = m]
             /\ Return(p, -1, <<>>)
             /\ UNCHANGED file
    /\ UNCHANGED <<dinode, ofile, cwd, op>>

Fstat(p) ==
    /\ Label(p) = "fstat" /\ argfd(p, Arg(p)) # None
    /\ LET i == file[argfd(p, Arg(p))].ip
           m == Ilocked(i)
       IN /\ inode' = [inode EXCEPT ![i] = m]
          /\ Return(p, 0, <<m.type, m.nlink>>)
    /\ UNCHANGED <<dinode, pvars, op>>

(* filewrite() writes the bytes s of the call, WriteMax of them in one     *)
(* operation; the argument of item "writei" is how many are written.       *)
Write(p) ==
    /\ Label(p) = "write" /\ argfd(p, Arg(p)) # None
    /\ IF file[argfd(p, Arg(p))].writable /\ reg[p].call.data # <<>>
         THEN /\ Only(p, <<Item("begin_op"), <<"writei", 0>> >>)
              /\ UNCHANGED <<reg, ret>>
         ELSE Return(p, IF file[argfd(p, Arg(p))].writable THEN 0 ELSE -1, <<>>)
    /\ UNCHANGED <<fsvars, pvars, op>>

(* writei(): data with the bytes s from off on; not beyond MAXFILE. *)
Overwritten(data, off, s) ==
    [k \in 1 .. Max({Len(data), off + Len(s)}) |->
        IF k > off /\ k <= off + Len(s) THEN s[k - off] ELSE data[k]]
CanWrite(m, off, n) == m.type # T_DEV /\ off <= Len(m.data) /\ off + n <= MAXFILE

Writei(p) ==
    /\ Label(p) = "writei"
    /\ LET c  == reg[p].call
           f  == argfd(p, c.fd)
           i  == file[f].ip
           m  == Ilocked(i)
           n1 == Min({Len(c.data) - Arg(p), WriteMax})
           s  == SubSeq(c.data, Arg(p) + 1, Arg(p) + n1)
           w  == [m EXCEPT !.data = Overwritten(m.data, file[f].off, s)]
       IN IF CanWrite(m, file[f].off, n1)
            THEN /\ inode' = [inode EXCEPT ![i] = w]
                 /\ dinode' = [dinode EXCEPT ![i] = OnDisk(w)]
                 /\ file' = [file EXCEPT ![f].off = @ + n1]
                 /\ IF Arg(p) + n1 = Len(c.data)
                      THEN Return(p, Len(c.data), <<>>)
                      ELSE /\ Only(p, <<Item("begin_op"), <<"writei", Arg(p) + n1>> >>)
                           /\ UNCHANGED <<reg, ret>>
            ELSE /\ inode' = [inode EXCEPT ![i] = m]
                 /\ Return(p, -1, <<>>)
                 /\ UNCHANGED <<dinode, file>>
    /\ op' = op \ {p}
    /\ UNCHANGED <<ofile, cwd>>

(* The end of exit()'s work on files: end_op() and cwd = 0. *)
Dead(p) ==
    /\ Label(p) = "dead"
    /\ cwd' = [cwd EXCEPT ![p] = None]
    /\ op' = op \ {p}
    /\ Return(p, 0, <<>>)
    /\ UNCHANGED <<fsvars, file, ofile>>

-----------------------------------------------------------------------------
(* System calls.  A path is a record: whether it begins with a slash, and  *)
(* its elements.                                                           *)

Path(abs, elems) == [abs |-> abs, elems |-> elems]

(* The open descriptors, in the order exit() closes them. *)
OpenFds(p) ==
    LET Open == {fd \in Fds : ofile[p][fd] # None} IN
    CHOOSE s \in [1 .. Cardinality(Open) -> Open] : \A j, k \in DOMAIN s : j < k => s[j] < s[k]

SystemCalls == {"link", "unlink", "open", "creat", "mkdir", "mknod", "chdir", "exit",
                "close", "dup", "read", "write", "fstat"}

Agenda(p, c) ==
    LET In(s) == <<Item("begin_op")>> \o s
        Create(type, l) == In(<< <<"nameiparent", c.path>>, <<"create", type>>, Item(l) >>)
    IN CASE c.op = "link"   -> In(<< <<"namei", c.path>>, Item("link1") >>)
         [] c.op = "unlink" -> In(<< <<"nameiparent", c.path>>, Item("unlink1") >>)
         [] c.op = "open"   -> In(<< <<"namei", c.path>>, Item("open1") >>)
         [] c.op = "creat"  -> Create(T_FILE, "open2")
         [] c.op = "mkdir"  -> Create(T_DIR, "mkdir")
         [] c.op = "mknod"  -> Create(T_DEV, "mkdir")
         [] c.op = "chdir"  -> In(<< <<"namei", c.path>>, Item("chdir1") >>)
         [] c.op = "exit"   -> [k \in 1 .. Len(OpenFds(p)) |-> <<"close", OpenFds(p)[k]>>]
                                 \o In(<<iput(cwd[p]), Item("dead")>>)
         [] OTHER           -> << <<c.op, c.fd>> >>

(* Reading a directory as bytes is left out. *)
ReadsDir(p, c) == /\ c.op = "read" /\ argfd(p, c.fd) # None
                  /\ Ilocked(file[argfd(p, c.fd)].ip).type = T_DIR

(* Process p enters system call c. *)
Syscall(p, c) ==
    /\ ~panic /\ cwd[p] # None /\ todo[p] = <<>>
    /\ ~ReadsDir(p, c)
    /\ Only(p, Agenda(p, c))
    /\ Set(p, [NoReg EXCEPT !.call = c])
    /\ UNCHANGED <<fsvars, pvars, op, ret, panic>>

(* fork(): q shares the open files and the current directory of p. *)
Fork(p, q) ==
    /\ ~panic /\ cwd[p] # None /\ todo[p] = <<>> /\ cwd[q] = None
    /\ ofile' = [ofile EXCEPT ![q] = ofile[p]]
    /\ file' = [f \in 1 .. NFILE |->
                  [file[f] EXCEPT !.ref = @ + Cardinality({fd \in Fds : ofile[p][fd] = f})]]
    /\ cwd' = [cwd EXCEPT ![q] = cwd[p]]
    /\ inode' = IgetIn(inode, cwd[p])
    /\ ret' = [ret EXCEPT ![p] = [r |-> q, data |-> <<>>], ![q] = [r |-> 0, data |-> <<>>]]
    /\ UNCHANGED <<dinode, op, todo, reg, panic>>

-----------------------------------------------------------------------------
(* Steps.                                                                  *)

(* The inode the next item of p locks first, None if it locks none. *)
Wants(p) ==
    LET l == Label(p) IN
    CASE l = "iput" -> Arg(p)
      [] l \in {"walk", "link1", "link2", "unlink1", "unlink2", "create", "exists", "newinode",
                "open1", "chdir1"} -> reg[p].ip
      [] l = "linkbad" -> reg[p].old
      [] l \in {"read", "fstat"} /\ argfd(p, Arg(p)) # None -> file[argfd(p, Arg(p))].ip
      [] l = "writei" -> file[argfd(p, reg[p].call.fd)].ip
      [] OTHER -> None

(* The processes whose next move p waits for: the holder of the lock it    *)
(* wants, itself perhaps, or those that keep begin_op() from returning.    *)
WaitsFor(p) ==
    IF Label(p) = "begin_op" THEN IF MayBegin THEN {} ELSE op
    ELSE IF Wants(p) # None /\ inode[Wants(p)].lock # None THEN {inode[Wants(p)].lock}
    ELSE {}

(* The inode the next item passes to iget(). *)
Igets(p) ==
    LET l == Label(p)
        Entry(s) == IF Wants(p) # None /\ IsDir(Ilocked(Wants(p)))
                      THEN dirlookup(Ilocked(Wants(p)), s) ELSE None
    IN CASE l \in {"namei", "nameiparent"} -> StartOf(p, Arg(p))
         [] l = "walk" -> Entry(skipelem(reg[p].elems))
         [] l \in {"link2", "unlink1", "create"} -> Entry(reg[p].name)
         [] l = "ialloc" -> IF FreeInums = {} THEN None ELSE Min(FreeInums)
         [] OTHER -> None

(* ilock() finds a free inode; sys_unlink() one without links; ialloc() no *)
(* free inode; iget() no cache entry.                                      *)
NoType(p)  == /\ Wants(p) # None /\ Label(p) # "iput"
              /\ Ilocked(Wants(p)).type = T_FREE /\ ~inode[Wants(p)].valid
NoLink(p)  == Label(p) = "unlink2" /\ Ilocked(reg[p].ip).nlink < 1
NoFree(p)  == Label(p) = "ialloc" /\ FreeInums = {}
NoEntry(p) == /\ Igets(p) # None /\ inode[Igets(p)].ref = 0
              /\ Cardinality({i \in Inums : inode[i].ref > 0}) >= NINODE

Panics(p) == NoType(p) \/ NoLink(p) \/ NoFree(p) \/ NoEntry(p)

Panic(p) ==
    /\ todo[p] # <<>> /\ WaitsFor(p) = {} /\ Panics(p) /\ ~panic
    /\ panic' = TRUE
    /\ UNCHANGED <<fsvars, pvars, op, todo, reg, ret>>

Step(p) ==
    /\ todo[p] # <<>> /\ WaitsFor(p) = {} /\ ~panic
    /\ ~Panics(p)
    /\ \/ Iput(p) \/ Ifree(p) \/ Deref(p) \/ Iunlock(p) \/ BeginOp(p) \/ EndOp(p)
       \/ Namex(p) \/ Walk(p)
       \/ \E l \in {"link1", "unlink1", "mkdir", "open1", "open2", "chdir1"} : NoInode(p, l)
       \/ Link1(p) \/ Link2(p) \/ LinkNoDir(p) \/ LinkBad(p)
       \/ Unlink1(p) \/ Unlink2(p) \/ Unlink3(p)
       \/ Create1(p) \/ CreateNoDir(p) \/ CreateExists(p) \/ ialloc(p) \/ CreateNew(p) \/ Mkdir(p)
       \/ Open1(p) \/ Open2(p) \/ Chdir1(p) \/ Chdir2(p)
       \/ BadFd(p) \/ Fileclose(p) \/ Dup(p) \/ Read(p) \/ Fstat(p) \/ Write(p) \/ Writei(p)
       \/ Dead(p)
    /\ UNCHANGED panic

-----------------------------------------------------------------------------
(* Properties.                                                             *)

Quiet == \A p \in Procs : todo[p] = <<>>

(* Between system calls the reference counts are exact: an inode has one   *)
(* for each current directory and open file, a file one for each           *)
(* descriptor.  A missing or a second iput() or fileclose() shows here.    *)
RefsExact ==
    Quiet =>
      /\ \A i \in Inums :
           inode[i].ref = Cardinality({p \in Procs : cwd[p] = i})
                          + Cardinality({g \in 1 .. NFILE : file[g].ref > 0 /\ file[g].ip = i})
      /\ \A g \in 1 .. NFILE :
           file[g].ref = Cardinality({x \in Procs \X Fds : ofile[x[1]][x[2]] = g})
      /\ \A i \in Inums : inode[i].lock = None
      /\ op = {}

(* The directory entries that name inode i. *)
Names(i) == UNION {{<<d, s>> : s \in {t \in DOMAIN dinode[d].data : Unlinkable(t) /\ dinode[d].data[t] = i}}
                     : d \in {j \in Inums : IsDir(dinode[j])}}

(* At any moment an inode has at least as many links as names: no inode    *)
(* with a name is freed or given to another file.  A client that links     *)
(* ".." in a removed directory breaks it, script "orphan" of UserTests.    *)
NamesHaveLinks ==
    \A i \in Inums : /\ Cardinality(Names(i)) <= dinode[i].nlink
                     /\ Names(i) # {} => dinode[i].type # T_FREE

(* A cached inode that is valid and not being changed is the one on disk,  *)
(* also after its number was freed and allocated again.                    *)
WriteThrough ==
    \A i \in Inums : inode[i].ref > 0 /\ inode[i].valid /\ inode[i].lock = None
                       => OnDisk(inode[i]) = dinode[i]

(* No set of processes each waits for another of the set. *)
NoDeadlock ==
    \A S \in SUBSET Procs \ {{}} : ~ \A p \in S : WaitsFor(p) # {} /\ WaitsFor(p) \subseteq S

(* What is on disk changes only inside an operation of the log. *)
InsideOperation ==
    [][\A p \in Procs : todo'[p] # todo[p] /\ dinode' # dinode => p \in op]_vars
=============================================================================
