-------------------------------- MODULE Pipe --------------------------------
(***************************************************************************)
(* A pipe (pipe.c), the two struct files it is reached through (file.c)    *)
(* and the system calls of the processes that share it: pipe, read, write, *)
(* close, fork and exit, with kill() at any moment.  The page of the pipe  *)
(* is freed when both ends are closed, and may become a pipe again.        *)
(*                                                                         *)
(* What pipewrite and piperead do with p->lock held is one step, except    *)
(* that kill() does not take p->lock and may come between the test of      *)
(* killed and the sleep.  A process has at most one descriptor of an end:  *)
(* dup() is left out.                                                      *)
(***************************************************************************)
EXTENDS Integers, Sequences, FiniteSets, FiniteSetsExt

CONSTANTS
    NProcs,     \* processes that may share the pipe
    PIPESIZE,   \* bytes it holds
    Wrap,       \* the counters are unsigned: they wrap at 2^32, a multiple of PIPESIZE
    Bytes,      \* what is written
    Junk,       \* the byte kfree() fills a page with
    MaxN        \* bound on the n of read() and write()

ASSUME PipeAssumption ==
    /\ NProcs \in Nat \ {0} /\ PIPESIZE \in Nat \ {0} /\ MaxN \in Nat
    /\ Junk \in Bytes
    /\ \E k \in 2 .. Wrap : Wrap = k * PIPESIZE

Procs  == 1 .. NProcs
Free   == 0
Ends   == {"r", "w"}
Index  == 0 .. PIPESIZE - 1

VARIABLES
    allocated,                                \* whether the page is a pipe
    data, nread, nwrite, readopen, writeopen, \* struct pipe
    lock,     \* p->lock while its holder is about to sleep
    ref,      \* f->ref of the file of each end
    ofile,    \* ofile[p]: the ends p has a descriptor for
    pc, killed,
    buf,      \* buf[p]: the bytes p still has to write
    todo,     \* todo[p]: the ends p is closing, in order
    exiting,  \* p closes its files in exit()
    got,      \* the bytes piperead() has copied in the last step
    stranded  \* history: bytes were put in beside a sleeping reader, and not announced

pipevars == <<allocated, data, nread, nwrite, readopen, writeopen>>
vars == <<pipevars, lock, ref, ofile, pc, killed, buf, todo, exiting, got, stranded>>

(* write, read        in pipewrite or piperead, about to acquire p->lock   *)
(* towrite, toread    holding p->lock, about to sleep                      *)
(* wsleep, rsleep     asleep on &p->nwrite, &p->nread                      *)
(* newpipe            in sys_pipe, before fdalloc                          *)
(* close, pclose, kfree   in fileclose; in pipeclose; after its release    *)

Init ==
    /\ allocated = FALSE
    /\ data = [i \in Index |-> Junk]
    /\ nread = 0 /\ nwrite = 0 /\ readopen = FALSE /\ writeopen = FALSE
    /\ lock = Free
    /\ ref = [e \in Ends |-> 0]
    /\ ofile = [p \in Procs |-> {}]
    /\ pc = [p \in Procs |-> IF p = 1 THEN "user" ELSE "dead"]
    /\ killed = [p \in Procs |-> FALSE]
    /\ buf = [p \in Procs |-> <<>>]
    /\ todo = [p \in Procs |-> <<>>]
    /\ exiting = [p \in Procs |-> FALSE]
    /\ got = <<>>
    /\ stranded = FALSE

Goto(p, l) == pc' = [pc EXCEPT ![p] = l]

(* wakeup(&p->nread) and wakeup(&p->nwrite). *)
BugWakeReaders(pcs) == pcs
WakeReaders(pcs) == [q \in Procs |-> IF pcs[q] = "rsleep" THEN "read" ELSE pcs[q]]
WakeWriters(pcs) == [q \in Procs |-> IF pcs[q] = "wsleep" THEN "write" ELSE pcs[q]]

(* A process starts a system call only if it has not been killed. *)
Syscall(p) == pc[p] = "user" /\ ~killed[p]

-----------------------------------------------------------------------------
(* The ring.                                                               *)

Count == (nwrite - nread) % Wrap

(* The free places; none if nwrite == nread + PIPESIZE. *)
BugRoom == PIPESIZE + 1 - Count
Room == PIPESIZE - Count

(* data with the bytes of s written from nwrite on. *)
Filled(s) ==
    [i \in Index |-> IF \E j \in 1 .. Len(s) : (nwrite + j - 1) % PIPESIZE = i
                       THEN s[CHOOSE j \in 1 .. Len(s) : (nwrite + j - 1) % PIPESIZE = i]
                       ELSE data[i]]

(* The n oldest bytes. *)
Oldest(n) == [i \in 1 .. n |-> data[(nread + i - 1) % PIPESIZE]]

-----------------------------------------------------------------------------
(* sys_pipe().                                                             *)

(* pipealloc(): two files and the page, which is not cleared. *)
pipealloc(p) ==
    /\ Syscall(p) /\ ~allocated
    /\ allocated' = TRUE /\ readopen' = TRUE /\ writeopen' = TRUE
    /\ nread' = 0 /\ nwrite' = 0
    /\ ref' = [e \in Ends |-> 1]
    /\ Goto(p, "newpipe")
    /\ stranded' = FALSE
    /\ UNCHANGED <<data, lock, ofile, killed, buf, todo, exiting>>

FdAlloc(p) ==
    /\ pc[p] = "newpipe"
    /\ ofile' = [ofile EXCEPT ![p] = Ends]
    /\ Goto(p, "user")
    /\ UNCHANGED <<pipevars, lock, ref, killed, buf, todo, exiting>>

(* No descriptor is left: fileclose(rf), fileclose(wf). *)
FdAllocFails(p) ==
    /\ pc[p] = "newpipe"
    /\ todo' = [todo EXCEPT ![p] = <<"r", "w">>]
    /\ Goto(p, "close")
    /\ UNCHANGED <<pipevars, lock, ref, ofile, killed, buf, exiting>>

-----------------------------------------------------------------------------
(* pipewrite().                                                            *)

sys_write(p, s) ==
    /\ Syscall(p) /\ "w" \in ofile[p]
    /\ buf' = [buf EXCEPT ![p] = s]
    /\ Goto(p, "write")
    /\ UNCHANGED <<pipevars, lock, ref, ofile, killed, todo, exiting>>

(* As many bytes as fit. *)
CopyIn(p) ==
    LET k == Min({Len(buf[p]), Room}) IN
    /\ pc[p] = "write" /\ lock = Free
    /\ data' = Filled(SubSeq(buf[p], 1, k))
    /\ nwrite' = (nwrite + k) % Wrap
    /\ UNCHANGED <<allocated, nread, readopen, writeopen, ref, ofile, killed, todo, exiting>>

WriteDone(p) ==
    /\ CopyIn(p) /\ Len(buf[p]) <= Room
    /\ buf' = [buf EXCEPT ![p] = <<>>]
    /\ pc' = WakeReaders([pc EXCEPT ![p] = "user"])
    /\ stranded' = FALSE
    /\ UNCHANGED lock

(* Full, and nobody will read or the writer is killed: return -1, without  *)
(* a wakeup for the bytes that did fit.                                    *)
WriteGivesUp(p) ==
    /\ CopyIn(p) /\ Len(buf[p]) > Room
    /\ ~readopen \/ killed[p]
    /\ buf' = [buf EXCEPT ![p] = <<>>]
    /\ Goto(p, "user")
    /\ stranded' = (stranded \/ (Room > 0 /\ \E q \in Procs : pc[q] = "rsleep"))
    /\ UNCHANGED lock

WriteBlocks(p) ==
    /\ CopyIn(p) /\ Len(buf[p]) > Room
    /\ readopen /\ ~killed[p]
    /\ buf' = [buf EXCEPT ![p] = SubSeq(@, Room + 1, Len(@))]
    /\ pc' = WakeReaders([pc EXCEPT ![p] = "towrite"])
    /\ lock' = p
    /\ stranded' = FALSE

-----------------------------------------------------------------------------
(* piperead().                                                             *)

sys_read(p) ==
    /\ Syscall(p) /\ "r" \in ofile[p]
    /\ Goto(p, "read")
    /\ UNCHANGED <<pipevars, lock, ref, ofile, killed, buf, todo, exiting>>

MustWait == nread = nwrite /\ writeopen

ReadDone(p, n) ==
    LET k == Min({n, Count}) IN
    /\ pc[p] = "read" /\ lock = Free /\ ~MustWait
    /\ got' = Oldest(k)
    /\ nread' = (nread + k) % Wrap
    /\ pc' = WakeWriters([pc EXCEPT ![p] = "user"])
    /\ stranded' = (stranded /\ k < Count)
    /\ UNCHANGED <<allocated, data, nwrite, readopen, writeopen, lock, ref, ofile, killed, buf,
                   todo, exiting>>

ReadBlocks(p) ==
    /\ pc[p] = "read" /\ lock = Free /\ MustWait
    /\ IF killed[p] THEN Goto(p, "user") /\ UNCHANGED lock
                    ELSE Goto(p, "toread") /\ lock' = p
    /\ UNCHANGED <<pipevars, ref, ofile, killed, buf, todo, exiting>>

(* sleep(..., &p->lock). *)
Sleep(p) ==
    /\ pc[p] \in {"towrite", "toread"}
    /\ Goto(p, IF pc[p] = "towrite" THEN "wsleep" ELSE "rsleep")
    /\ lock' = Free
    /\ UNCHANGED <<pipevars, ref, ofile, killed, buf, todo, exiting>>

-----------------------------------------------------------------------------
(* close(), exit(), fork() and kill().                                     *)

sys_close(p, e) ==
    /\ Syscall(p) /\ e \in ofile[p]
    /\ ofile' = [ofile EXCEPT ![p] = @ \ {e}]
    /\ todo' = [todo EXCEPT ![p] = <<e>>]
    /\ Goto(p, "close")
    /\ UNCHANGED <<pipevars, lock, ref, killed, buf, exiting>>

(* exit() closes the descriptors by number, whichever end that is; nobody  *)
(* else looks at ofile[p].                                                 *)
exit(p) ==
    /\ pc[p] = "user"
    /\ \E s \in {<<>>, <<"r">>, <<"w">>, <<"r", "w">>, <<"w", "r">>} :
        /\ {s[i] : i \in 1 .. Len(s)} = ofile[p]
        /\ todo' = [todo EXCEPT ![p] = s]
    /\ ofile' = [ofile EXCEPT ![p] = {}]
    /\ exiting' = [exiting EXCEPT ![p] = TRUE]
    /\ Goto(p, "close")
    /\ UNCHANGED <<pipevars, lock, ref, killed, buf>>

(* fileclose()'s critical section; the last reference goes on to pipeclose. *)
fileclose(p) ==
    LET e == Head(todo[p]) IN
    /\ pc[p] = "close" /\ todo[p] # <<>>
    /\ ref' = [ref EXCEPT ![e] = @ - 1]
    /\ IF ref[e] > 1 THEN todo' = [todo EXCEPT ![p] = Tail(@)] /\ UNCHANGED pc
                     ELSE Goto(p, "pclose") /\ UNCHANGED todo
    /\ UNCHANGED <<pipevars, lock, ofile, killed, buf, exiting>>

(* Nothing left to close; the parent's wait() clears killed. *)
CloseDone(p) ==
    /\ pc[p] = "close" /\ todo[p] = <<>>
    /\ Goto(p, IF exiting[p] THEN "dead" ELSE "user")
    /\ killed' = [killed EXCEPT ![p] = @ /\ ~exiting[p]]
    /\ exiting' = [exiting EXCEPT ![p] = FALSE]
    /\ UNCHANGED <<pipevars, lock, ref, ofile, buf, todo>>

(* The wakeup of pipeclose: readers if the write end closes, or writers. *)
BugCloseWakeup(e, pcs) == pcs
CloseWakeup(e, pcs) == IF e = "w" THEN WakeReaders(pcs) ELSE WakeWriters(pcs)

BugBothClosed == TRUE
BothClosed == ~readopen' /\ ~writeopen'

pipeclose(p) ==
    LET e == Head(todo[p]) IN
    /\ pc[p] = "pclose" /\ lock = Free
    /\ writeopen' = (writeopen /\ e # "w")
    /\ readopen' = (readopen /\ e # "r")
    /\ todo' = [todo EXCEPT ![p] = Tail(@)]
    /\ pc' = CloseWakeup(e, [pc EXCEPT ![p] = IF BothClosed THEN "kfree" ELSE "close"])
    /\ stranded' = (stranded /\ e # "w")
    /\ UNCHANGED <<allocated, data, nread, nwrite, lock, ref, ofile, killed, buf, exiting>>

(* kfree() after the release of p->lock overwrites the page; what the      *)
(* counters hold then is not used before pipealloc sets them.              *)
kfree(p) ==
    /\ pc[p] = "kfree"
    /\ allocated' = FALSE
    /\ data' = [i \in Index |-> Junk]
    /\ nread' = 0 /\ nwrite' = 0
    /\ Goto(p, "close")
    /\ UNCHANGED <<readopen, writeopen, lock, ref, ofile, killed, buf, todo, exiting>>

(* filedup() for each descriptor the child inherits. *)
Dup(p) == [e \in Ends |-> IF e \in ofile[p] THEN ref[e] + 1 ELSE ref[e]]

fork(p, q) ==
    /\ Syscall(p) /\ pc[q] = "dead"
    /\ ref' = Dup(p)
    /\ ofile' = [ofile EXCEPT ![q] = ofile[p]]
    /\ Goto(q, "user")
    /\ UNCHANGED <<pipevars, lock, killed, buf, todo, exiting>>

(* kill() wakes a sleeper, and only marks a process that is about to sleep. *)
kill(p) ==
    /\ pc[p] # "dead"
    /\ killed' = [killed EXCEPT ![p] = TRUE]
    /\ Goto(p, CASE pc[p] = "rsleep" -> "read" [] pc[p] = "wsleep" -> "write" [] OTHER -> pc[p])
    /\ UNCHANGED <<pipevars, lock, ref, ofile, buf, todo, exiting>>

Messages == UNION {[1 .. n -> Bytes] : n \in 0 .. MaxN}

(* The steps that put bytes in, or that may wake the readers. *)
Announce(p) ==
    pipealloc(p) \/ WriteDone(p) \/ WriteGivesUp(p) \/ WriteBlocks(p) \/ pipeclose(p)

Step(p) ==
    \/ FdAlloc(p) \/ FdAllocFails(p)
    \/ \E s \in Messages : sys_write(p, s)
    \/ sys_read(p) \/ ReadBlocks(p)
    \/ Sleep(p) \/ exit(p) \/ kill(p)
    \/ \E e \in Ends : sys_close(p, e)
    \/ fileclose(p) \/ CloseDone(p) \/ kfree(p)
    \/ \E q \in Procs : fork(p, q)

Next == \E p \in Procs :
    \/ Announce(p) /\ got' = <<>>
    \/ Step(p) /\ UNCHANGED stranded /\ got' = <<>>
    \/ \E n \in 0 .. MaxN : ReadDone(p, n)

Spec == Init /\ [][Next]_vars

-----------------------------------------------------------------------------
(* p can still reach the pipe: through a descriptor, or in a call that     *)
(* makes or closes one.                                                    *)
Reaches(p) == ofile[p] # {} \/ todo[p] # <<>> \/ pc[p] \in {"newpipe", "pclose", "kfree"}

(* The page is freed exactly when nobody can reach it any more: no process *)
(* reads, writes or closes a freed pipe, and none is leaked.               *)
PipeLifetime == allocated <=> \E p \in Procs : Reaches(p)

Full == nwrite = (nread + PIPESIZE) % Wrap

(* A reader sleeps only while somebody may still write and the pipe is     *)
(* empty, a writer only while the pipe is full and somebody may still      *)
(* read.  The one exception is named: bytes of a killed writer that found  *)
(* the pipe full returned -1 without a wakeup (pipe.c:88), while they are  *)
(* unread and nobody has written since.                                    *)
NoForgottenSleeper ==
    \A p \in Procs :
        /\ pc[p] = "rsleep" => writeopen /\ (nread = nwrite \/ stranded)
        /\ pc[p] = "wsleep" => Full /\ readopen

Contents == INSTANCE Fifo WITH
    Writers <- Procs, Alphabet <- Bytes, Capacity <- PIPESIZE, MaxMessage <- MaxN,
    queue <- IF allocated THEN Oldest(Count) ELSE <<>>,
    pending <- buf

(* The ring and its wrapping counters implement a bounded FIFO.            *)
FifoRefinement == Contents!FifoSpec
=============================================================================
