-------------------------------- MODULE Log --------------------------------
(***************************************************************************)
(* The write-ahead log of the file system (log.c): begin_op and end_op     *)
(* around every operation, log_write in it, the commit by the last         *)
(* operation to end, and recovery after a crash at any point, a crash      *)
(* during recovery included.                                               *)
(*                                                                         *)
(* Block numbers count from log.start: the header is block 0, the log's    *)
(* data blocks are 1 .. log.size - 1, and the file system's own blocks     *)
(* follow.  A disk write of one block is one step and happens entirely or  *)
(* not at all.  The buffer cache is what bread() and bwrite() make of it:  *)
(* a buffer that is neither B_DIRTY nor locked may be recycled any time.   *)
(***************************************************************************)
EXTENDS Integers, Sequences, FiniteSets

CONSTANTS
    NThreads,     \* processes that make file-system calls
    MAXOPBLOCKS,  \* blocks an operation may write
    NHome,        \* blocks of the file system proper
    Values        \* contents of a block

ASSUME ThreadAssumption == NThreads \in Nat \ {0}
ASSUME LogSizeAssumption == MAXOPBLOCKS \in Nat \ {0} /\ NHome \in Nat \ {0}
ASSUME ValueAssumption == 0 \in Values /\ Values \subseteq Nat

Threads    == 1 .. NThreads
InitThread == 1             \* the first process, which runs initlog() in forkret()
Nobody     == 0

LOGSIZE == MAXOPBLOCKS * 3
size    == LOGSIZE          \* log.size, the nlog of mkfs; it counts the header

LogData == 1 .. size - 1
Home    == size .. size + NHome - 1
Absent  == -1               \* the block is not in the cache

VARIABLES
    disk, hdr,                     \* the disk: data blocks, log header
    cache, dirty, holder,          \* per home block: its buffer, B_DIRTY, b->lock
    lh, outstanding, committing,   \* struct log
    pc, tail,                      \* per thread: location, loop index in commit()
    wset                           \* per thread: blocks this operation has written

diskvars == <<disk, hdr>>
bufvars  == <<cache, dirty, holder>>
logvars  == <<lh, outstanding, committing>>
vars     == <<diskvars, bufvars, logvars, pc, tail, wset>>

RecoveryLocs == {"rhead", "rinstall", "rclear"}
CommitLocs   == {"wlog", "whead", "install", "clear", "done"}

(* A file system made by mkfs, before the first process runs initlog(). *)
Init ==
    /\ disk = [b \in LogData \cup Home |-> 0]
    /\ hdr = <<>>
    /\ cache = [b \in Home |-> Absent]
    /\ dirty = [b \in Home |-> FALSE]
    /\ holder = [b \in Home |-> Nobody]
    /\ lh = <<>> /\ outstanding = 0 /\ committing = FALSE
    /\ pc = [t \in Threads |-> IF t = InitThread THEN "rhead" ELSE "idle"]
    /\ tail = [t \in Threads |-> 0]
    /\ wset = [t \in Threads |-> {}]

Goto(t, l) == pc' = [pc EXCEPT ![t] = l]

(* No other process exists before initlog() is done. *)
Up == pc[InitThread] \notin RecoveryLocs

-----------------------------------------------------------------------------
(* The buffer cache as log.c uses it.                                      *)

(* The data of the buffer bread(b) returns. *)
bread(b) == IF b \in Home /\ cache[b] # Absent THEN cache[b] ELSE disk[b]

(* bwrite(): the buffer and the disk hold v, and B_DIRTY is clear. *)
bwrite(b, v) ==
    /\ disk' = [disk EXCEPT ![b] = v]
    /\ cache' = IF b \in Home THEN [cache EXCEPT ![b] = v] ELSE cache
    /\ dirty' = IF b \in Home THEN [dirty EXCEPT ![b] = FALSE] ELSE dirty

(* bget() recycles the buffer for another block. *)
Recycle(b) ==
    /\ cache[b] # Absent /\ ~dirty[b] /\ holder[b] = Nobody
    /\ cache' = [cache EXCEPT ![b] = Absent]
    /\ UNCHANGED <<diskvars, dirty, holder, logvars, pc, tail, wset>>

(* wakeup(&log): the sleepers go back to the top of begin_op's loop. *)
wakeup(pcs) == [t \in Threads |-> IF pcs[t] = "asleep" THEN "begin" ELSE pcs[t]]

-----------------------------------------------------------------------------
(* One file-system operation.                                              *)

BugReserve == ~committing /\ Len(lh) + outstanding * MAXOPBLOCKS <= LOGSIZE
MayBegin == ~committing /\ Len(lh) + (outstanding + 1) * MAXOPBLOCKS <= LOGSIZE

begin_op(t) ==
    /\ Up /\ pc[t] \in {"idle", "begin"}
    /\ IF MayBegin
         THEN outstanding' = outstanding + 1 /\ Goto(t, "in")
         ELSE UNCHANGED outstanding /\ Goto(t, "asleep")
    /\ UNCHANGED <<diskvars, bufvars, lh, committing, tail, wset>>

(* bread(), the change of b->data, and the checks log_write() makes before *)
(* it acquires log.lock.  The buffer stays locked.                         *)
Modify(t, b, v) ==
    /\ pc[t] = "in" /\ holder[b] = Nobody
    /\ Cardinality(wset[t] \cup {b}) <= MAXOPBLOCKS
    /\ cache' = [cache EXCEPT ![b] = v]
    /\ holder' = [holder EXCEPT ![b] = t]
    /\ wset' = [wset EXCEPT ![t] = @ \cup {b}]
    /\ Goto(t, IF Len(lh) >= LOGSIZE \/ Len(lh) >= size - 1 \/ outstanding < 1
                 THEN "panic" ELSE "checked")
    /\ UNCHANGED <<diskvars, dirty, logvars, tail>>

Logged(b) == \E i \in 1 .. Len(lh) : lh[i] = b

(* log_write()'s critical section, then brelse(). *)
BugLogWrite(t, b) ==
    /\ pc[t] = "checked" /\ holder[b] = t
    /\ lh' = IF Logged(b) THEN lh ELSE Append(lh, b)
    /\ holder' = [holder EXCEPT ![b] = Nobody]
    /\ Goto(t, "in")
    /\ UNCHANGED <<diskvars, cache, dirty, outstanding, committing, tail, wset>>

log_write(t, b) ==
    /\ pc[t] = "checked" /\ holder[b] = t
    /\ lh' = IF Logged(b) THEN lh ELSE Append(lh, b)
    /\ dirty' = [dirty EXCEPT ![b] = TRUE]
    /\ holder' = [holder EXCEPT ![b] = Nobody]
    /\ Goto(t, "in")
    /\ UNCHANGED <<diskvars, cache, outstanding, committing, tail, wset>>

(* end_op(), up to commit(). *)
BugEndOp(t) ==
    /\ pc[t] = "in"
    /\ outstanding' = outstanding - 1
    /\ pc' = wakeup([pc EXCEPT ![t] = "idle"])
    /\ wset' = [wset EXCEPT ![t] = {}]
    /\ UNCHANGED <<diskvars, bufvars, lh, committing, tail>>

end_op(t) ==
    LET last == outstanding = 1 IN
    /\ pc[t] = "in"
    /\ outstanding' = outstanding - 1
    /\ committing' = (committing \/ last)
    /\ tail' = [tail EXCEPT ![t] = 0]
    /\ wset' = [wset EXCEPT ![t] = {}]
    /\ pc' = IF committing THEN [pc EXCEPT ![t] = "panic"]
             ELSE IF last THEN [pc EXCEPT ![t] = IF lh = <<>> THEN "done" ELSE "wlog"]
             ELSE wakeup([pc EXCEPT ![t] = "idle"])
    /\ UNCHANGED <<diskvars, bufvars, lh>>

-----------------------------------------------------------------------------
(* commit(), one disk write per step.                                      *)

(* The loops of write_log() and install_trans(): copy block by block, then *)
(* go on with the next function.                                           *)
CopyLoop(t, from, to, next) ==
    IF tail[t] < Len(lh)
      THEN /\ bwrite(to, bread(from))
           /\ tail' = [tail EXCEPT ![t] = @ + 1]
           /\ UNCHANGED <<hdr, pc>>
      ELSE /\ tail' = [tail EXCEPT ![t] = 0]
           /\ Goto(t, next)
           /\ UNCHANGED <<diskvars, cache, dirty>>

write_log(t) ==
    /\ pc[t] = "wlog"
    /\ CopyLoop(t, lh[tail[t] + 1], tail[t] + 1, "whead")
    /\ UNCHANGED <<holder, logvars, wset>>

write_head(t) ==
    /\ pc[t] = "whead"
    /\ hdr' = lh
    /\ Goto(t, "install")
    /\ UNCHANGED <<disk, bufvars, logvars, tail, wset>>

install_trans(t, here, next) ==
    /\ pc[t] = here
    /\ CopyLoop(t, tail[t] + 1, lh[tail[t] + 1], next)
    /\ UNCHANGED <<holder, logvars, wset>>

(* log.lh.n = 0; write_head(). *)
ClearHead(t, here, next) ==
    /\ pc[t] = here
    /\ lh' = <<>> /\ hdr' = <<>>
    /\ Goto(t, next)
    /\ UNCHANGED <<disk, bufvars, outstanding, committing, tail, wset>>

(* The rest of end_op(). *)
BugCommitDone(t) ==
    /\ pc[t] = "done"
    /\ committing' = FALSE
    /\ pc' = [pc EXCEPT ![t] = "idle"]
    /\ UNCHANGED <<diskvars, bufvars, lh, outstanding, tail, wset>>

CommitDone(t) ==
    /\ pc[t] = "done"
    /\ committing' = FALSE
    /\ pc' = wakeup([pc EXCEPT ![t] = "idle"])
    /\ UNCHANGED <<diskvars, bufvars, lh, outstanding, tail, wset>>

commit(t) ==
    \/ write_log(t) \/ write_head(t)
    \/ install_trans(t, "install", "clear") \/ ClearHead(t, "clear", "done")
    \/ CommitDone(t)

-----------------------------------------------------------------------------
(* Crash and recovery.                                                     *)

read_head(t) ==
    /\ pc[t] = "rhead"
    /\ lh' = hdr
    /\ Goto(t, "rinstall")
    /\ UNCHANGED <<diskvars, bufvars, outstanding, committing, tail, wset>>

recover_from_log(t) ==
    \/ read_head(t) \/ install_trans(t, "rinstall", "rclear")
    \/ ClearHead(t, "rclear", "idle")

(* The machine stops and is booted again: only the disk survives. *)
Crash ==
    /\ cache' = [b \in Home |-> Absent]
    /\ dirty' = [b \in Home |-> FALSE]
    /\ holder' = [b \in Home |-> Nobody]
    /\ lh' = <<>> /\ outstanding' = 0 /\ committing' = FALSE
    /\ pc' = [t \in Threads |-> IF t = InitThread THEN "rhead" ELSE "idle"]
    /\ tail' = [t \in Threads |-> 0]
    /\ wset' = [t \in Threads |-> {}]
    /\ UNCHANGED diskvars

Operation(t) == \E b \in Home : log_write(t, b) \/ \E v \in Values : Modify(t, b, v)

Next ==
    \/ Crash
    \/ \E b \in Home : Recycle(b)
    \/ \E t \in Threads :
        begin_op(t) \/ Operation(t) \/ end_op(t) \/ commit(t) \/ recover_from_log(t)

Spec == Init /\ [][Next]_vars

-----------------------------------------------------------------------------
InOp(t) == pc[t] \in {"in", "checked", "panic"}

(* "The logging system only commits when there are no FS system calls      *)
(* active": while one thread commits no other commits, no operation is     *)
(* open, and no buffer the commit copies is being changed.                 *)
CommitAlone ==
    \A t \in Threads : pc[t] \in CommitLocs =>
        /\ committing
        /\ \A u \in Threads \ {t} : pc[u] \notin CommitLocs /\ ~InOp(u)
        /\ \A b \in Home : holder[b] = Nobody

(* begin_op's reservation is enough: whatever the open operations still    *)
(* write, lh.block[] does not overflow.                                    *)
ReservationHolds ==
    Len(lh) + outstanding * MAXOPBLOCKS
        - Cardinality({w \in Threads \X Home : w[2] \in wset[w[1]] /\ Logged(w[2])}) <= LOGSIZE

(* What begin_op's one condition gives: an operation never runs beside a   *)
(* commit, and the blocks of the admitted operations fit lh.block[].  The  *)
(* log on disk has one block fewer: log_write() may still panic (Modify),  *)
(* and of several operations at once some may get past its check (LogFits). *)
AdmissionSafe == CommitAlone /\ ReservationHolds

(* When no operation is open and no commit is under way, everything that   *)
(* was written is on the disk.                                             *)
QuietIsDurable ==
    Up /\ outstanding = 0 /\ ~committing =>
        hdr = <<>> /\ \A b \in Home : bread(b) = disk[b]

(* Every block lh names has a data block of its own in the log, as the     *)
(* check of log_write() and the comment on LOGSIZE have it.                *)
LogFits == Len(lh) <= size - 1

(* No wakeup is missed: a process that sleeps in begin_op could not begin  *)
(* now, and there is an open operation or a commit whose end will wake it. *)
NoForgottenWaiter ==
    \A t \in Threads : pc[t] = "asleep" =>
        /\ ~MayBegin
        /\ \E u \in Threads : InOp(u) \/ pc[u] \in CommitLocs

-----------------------------------------------------------------------------
(* The refinement mapping to LogSpec.                                      *)

(* What recovery would find: the last logged copy, if the header has it. *)
OnDisk(b) ==
    IF \E i \in 1 .. Len(hdr) : hdr[i] = b
      THEN disk[CHOOSE i \in 1 .. Len(hdr) : hdr[i] = b] ELSE disk[b]

Abstract == INSTANCE LogSpec WITH
    Operations <- Threads, Blocks <- Home, Contents <- Values, Blank <- 0,
    active  <- {t \in Threads : InOp(t)},
    current <- [b \in Home |-> IF Up THEN bread(b) ELSE OnDisk(b)],
    durable <- [b \in Home |-> OnDisk(b)]

(* The log implements atomic group commit, whatever the interleaving and   *)
(* wherever the machine crashes.                                           *)
CrashAtomicity == Abstract!LogSpecification
=============================================================================
