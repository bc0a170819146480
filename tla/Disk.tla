-------------------------------- MODULE Disk --------------------------------
(***************************************************************************)
(* The buffer cache (bio.c), its sleeplocks (sleeplock.c) and the disk     *)
(* driver with its interrupt (ide.c), under processes that each have at    *)
(* most one buffer: they read it, write it through (bwrite) or leave it    *)
(* dirty in the cache, as log_write() does.  The disk itself is external:  *)
(* it executes one command and then raises its interrupt.                  *)
(***************************************************************************)
EXTENDS Integers, Sequences, SequencesExt, FiniteSets, FiniteSetsExt

CONSTANTS
    NProcs,      \* processes
    NBUF,        \* buffers
    Blocks,      \* block numbers
    Values,      \* what a block may hold
    MaxPinned    \* dirty buffers nobody has: what log.c keeps in the cache

NoBlock == "none"   \* of a buffer never used: its dev is 0, no device

ASSUME DiskAssumption ==
    /\ NProcs \in Nat \ {0} /\ NBUF \in Nat \ {0} /\ MaxPinned \in Nat
    /\ Blocks # {} /\ NoBlock \notin Blocks /\ Values # {}

Procs == 1 .. NProcs
Bufs  == 1 .. NBUF
None  == 0
Nothing == 2 ^ 16   \* no value

VARIABLES
    buf,      \* struct buf: blockno, flags, refcnt, the holder of lock, data
    mru,      \* bcache.head: the buffers, most recently used first
    idequeue,
    store,    \* the blocks on disk
    device,   \* the command the disk executes, or NoCommand
    irq,      \* whether it has finished it
    pc, cur,  \* where p is, and its buffer
    seen,     \* seen[p]: what p found in its buffer when bread() returned
    panic

vars == <<buf, mru, idequeue, store, device, irq, pc, cur, seen, panic>>

NoCommand == [blockno |-> NoBlock]

(* acq, lksleep   in acquiresleep(), asleep on the buffer's lock           *)
(* locked         has the lock, about to look at B_VALID                   *)
(* rsleep, wsleep asleep on the buffer in iderw(), for bread(), bwrite()   *)
(* rwoken, wwoken woken there                                              *)
(* have           bread() or bwrite() has returned                         *)
(* rel            in brelse() after releasesleep()                         *)
(* binit(): each buffer is put in front of the ones before it. *)
Init ==
    /\ \E v \in Values :
         /\ buf = [b \in Bufs |-> [blockno |-> NoBlock, valid |-> FALSE, dirty |-> FALSE, refcnt |-> 0,
                                   lock |-> None, data |-> v]]
         /\ store = [k \in Blocks |-> v]
    /\ mru = [i \in Bufs |-> NBUF + 1 - i]
    /\ idequeue = <<>>
    /\ device = NoCommand /\ irq = FALSE
    /\ pc = [p \in Procs |-> "user"]
    /\ seen = [p \in Procs |-> Nothing]
    /\ cur = [p \in Procs |-> None]
    /\ panic = FALSE

Goto(p, l) == pc' = [pc EXCEPT ![p] = l]

-----------------------------------------------------------------------------
(* bget() under bcache.lock.                                               *)

Cached(k) == {i \in Bufs : buf[mru[i]].blockno = k}
BugUnused == {i \in Bufs : buf[mru[i]].refcnt = 0}
Unused == {i \in Bufs : buf[mru[i]].refcnt = 0 /\ ~buf[mru[i]].dirty}

bgetHit(p, k) ==
    /\ pc[p] = "user" /\ Cached(k) # {}
    /\ LET b == mru[Min(Cached(k))] IN
       /\ buf' = [buf EXCEPT ![b].refcnt = @ + 1]
       /\ cur' = [cur EXCEPT ![p] = b]
    /\ Goto(p, "acq")
    /\ UNCHANGED <<mru, idequeue, store, device, irq, seen, panic>>

bgetRecycle(p, k) ==
    /\ pc[p] = "user" /\ Cached(k) = {} /\ Unused # {}
    /\ LET b == mru[Max(Unused)] IN
       /\ buf' = [buf EXCEPT ![b] = [@ EXCEPT !.blockno = k, !.valid = FALSE, !.dirty = FALSE,
                                              !.refcnt = 1]]
       /\ cur' = [cur EXCEPT ![p] = b]
    /\ Goto(p, "acq")
    /\ UNCHANGED <<mru, idequeue, store, device, irq, seen, panic>>

bgetPanics(p, k) ==
    /\ pc[p] = "user" /\ Cached(k) = {} /\ Unused = {}
    /\ panic' = TRUE
    /\ UNCHANGED <<buf, mru, idequeue, store, device, irq, pc, cur, seen>>

-----------------------------------------------------------------------------
(* sleeplock.c                                                             *)

acquiresleep(p) ==
    /\ pc[p] = "acq"
    /\ IF buf[cur[p]].lock = None
         THEN buf' = [buf EXCEPT ![cur[p]].lock = p] /\ Goto(p, "locked")
         ELSE UNCHANGED buf /\ Goto(p, "lksleep")
    /\ UNCHANGED <<mru, idequeue, store, device, irq, cur, seen, panic>>

(* wakeup(lk) and wakeup(b): every process asleep on that channel. *)
Woken(pcs, b, to) ==
    [q \in Procs |-> IF cur[q] = b /\ pcs[q] \in DOMAIN to THEN to[pcs[q]] ELSE pcs[q]]

-----------------------------------------------------------------------------
(* ide.c                                                                   *)

(* idestart(): the command registers and, for a write, the data. *)
idestart(b, bufs) ==
    /\ device' = [blockno |-> bufs[b].blockno, write |-> bufs[b].dirty,
                  data |-> IF bufs[b].dirty THEN bufs[b].data ELSE Nothing]
    /\ irq' = FALSE

(* iderw() up to its sleep: append the buffer, start the disk if idle. *)
iderw(p, bufs, l) ==
    LET b == cur[p] IN
    /\ idequeue' = Append(idequeue, b)
    /\ IF idequeue = <<>> THEN idestart(b, bufs) ELSE UNCHANGED <<device, irq>>
    /\ Goto(p, l)

(* The flags iderw() waits for. *)
Finished(b) == buf[b].valid /\ ~buf[b].dirty

(* It sleeps again unless they are as it wants them. *)
IoWoken(p) ==
    /\ pc[p] \in {"rwoken", "wwoken"}
    /\ IF Finished(cur[p])
         THEN /\ Goto(p, "have")
              /\ seen' = IF pc[p] = "rwoken" THEN [seen EXCEPT ![p] = buf[cur[p]].data] ELSE seen
         ELSE /\ Goto(p, IF pc[p] = "rwoken" THEN "rsleep" ELSE "wsleep")
              /\ UNCHANGED seen
    /\ UNCHANGED <<buf, mru, idequeue, store, device, irq, cur, panic>>

(* The disk has executed its command. *)
DeviceDone ==
    /\ device # NoCommand /\ ~irq
    /\ store' = IF device.write THEN [store EXCEPT ![device.blockno] = device.data] ELSE store
    /\ irq' = TRUE
    /\ UNCHANGED <<buf, mru, idequeue, device, pc, cur, seen, panic>>

BugNextRequest == device' = NoCommand /\ irq' = FALSE

(* What ideintr() does after it has taken b off the queue. *)
NextRequest ==
    IF Tail(idequeue) # <<>> THEN idestart(Head(Tail(idequeue)), buf)
                             ELSE device' = NoCommand /\ irq' = FALSE

ideintr ==
    /\ irq /\ idequeue # <<>>
    /\ LET b == Head(idequeue) IN
       /\ buf' = [buf EXCEPT ![b] = [@ EXCEPT !.data = IF buf[b].dirty THEN buf[b].data ELSE store[device.blockno],
                                              !.valid = TRUE, !.dirty = FALSE]]
       /\ pc' = Woken(pc, b, [rsleep |-> "rwoken", wsleep |-> "wwoken"])
    /\ idequeue' = Tail(idequeue)
    /\ NextRequest
    /\ UNCHANGED <<mru, store, cur, seen, panic>>

-----------------------------------------------------------------------------
(* bread(), bwrite() and brelse().                                         *)

bread(p) ==
    /\ pc[p] = "locked"
    /\ IF buf[cur[p]].valid
         THEN /\ Goto(p, "have")
              /\ seen' = [seen EXCEPT ![p] = buf[cur[p]].data]
              /\ UNCHANGED <<idequeue, device, irq>>
         ELSE iderw(p, buf, "rsleep") /\ UNCHANGED seen
    /\ UNCHANGED <<buf, mru, store, cur, panic>>

bwrite(p, v) ==
    /\ pc[p] = "have"
    /\ buf' = [buf EXCEPT ![cur[p]] = [@ EXCEPT !.data = v, !.dirty = TRUE]]
    /\ iderw(p, buf', "wsleep")
    /\ UNCHANGED <<mru, store, cur, seen, panic>>

(* log_write(): the buffer is changed and stays dirty. *)
Pinned == {b \in Bufs : buf[b].dirty}
Pin(p, v) ==
    /\ pc[p] = "have" /\ Cardinality(Pinned \cup {cur[p]}) <= MaxPinned
    /\ buf' = [buf EXCEPT ![cur[p]] = [@ EXCEPT !.data = v, !.dirty = TRUE]]
    /\ UNCHANGED <<mru, idequeue, store, device, irq, pc, cur, seen, panic>>

(* releasesleep() *)
releasesleep(p) ==
    /\ pc[p] = "have"
    /\ buf' = [buf EXCEPT ![cur[p]].lock = None]
    /\ pc' = [Woken(pc, cur[p], [lksleep |-> "acq"]) EXCEPT ![p] = "rel"]
    /\ seen' = [seen EXCEPT ![p] = Nothing]
    /\ UNCHANGED <<mru, idequeue, store, device, irq, cur, panic>>

(* To the head of the MRU list; the buffers that were before it move down. *)
ToFront(b) ==
    LET at == CHOOSE i \in Bufs : mru[i] = b IN
    [i \in Bufs |-> IF i = 1 THEN b ELSE IF i <= at THEN mru[i - 1] ELSE mru[i]]

BugRefcntDown(b) == buf[b].refcnt
RefcntDown(b) == buf[b].refcnt - 1

brelse(p) ==
    /\ pc[p] = "rel"
    /\ LET b == cur[p] IN
       /\ buf' = [buf EXCEPT ![b].refcnt = RefcntDown(b)]
       /\ mru' = IF RefcntDown(b) = 0 THEN ToFront(b) ELSE mru
    /\ cur' = [cur EXCEPT ![p] = None]
    /\ Goto(p, "user")
    /\ UNCHANGED <<idequeue, store, device, irq, seen, panic>>

-----------------------------------------------------------------------------
Client(p) ==
    \/ \E k \in Blocks : bgetHit(p, k) \/ bgetRecycle(p, k) \/ bgetPanics(p, k)
    \/ \E v \in Values : bwrite(p, v) \/ Pin(p, v)

Inside(p) == acquiresleep(p) \/ bread(p) \/ IoWoken(p) \/ releasesleep(p) \/ brelse(p)

Running == ~panic /\ (DeviceDone \/ ideintr \/ \E p \in Procs : Client(p) \/ Inside(p))

Stopped == panic /\ UNCHANGED vars

Next == Running \/ Stopped

(* The disk finishes its command and its interrupt is taken.  Nothing is   *)
(* assumed of the processes: a scheduler that never ages need not run one. *)
Fairness == WF_vars(~panic /\ DeviceDone) /\ WF_vars(~panic /\ ideintr)

Spec == Init /\ [][Next]_vars /\ Fairness

-----------------------------------------------------------------------------
(* bget() finds no buffer only if each is in use by a process or kept for  *)
(* the log: no reference and no buffer of the list is lost, and NBUF can   *)
(* be chosen for the number of processes and the size of the log.          *)
BuffersSuffice ==
    /\ ToSet(mru) = Bufs
    /\ panic => \A b \in Bufs : buf[b].dirty \/ \E p \in Procs : cur[p] = b

(* The disk works on the first request of the queue, and each request has  *)
(* its process asleep on it, or about to look at it.                       *)
RequestsMatch ==
    /\ idequeue = <<>> <=> device = NoCommand
    /\ idequeue # <<>> => device.blockno = buf[Head(idequeue)].blockno
    /\ \A p \in Procs : pc[p] \in {"rsleep", "wsleep"}
                          <=> cur[p] \in ToSet(idequeue) /\ buf[cur[p]].lock = p

(* The process that bread() or bwrite() gave block k. *)
OwnerOf(k) == {p \in Procs : pc[p] \in {"have", "wsleep", "wwoken"} /\ buf[cur[p]].blockno = k}
Store == INSTANCE BlockStore WITH
    content <- [k \in Blocks |->
                  IF \E b \in Bufs : buf[b].blockno = k /\ buf[b].valid
                    THEN buf[CHOOSE b \in Bufs : buf[b].blockno = k /\ buf[b].valid].data
                    ELSE store[k]],
    owner <- [k \in Blocks |-> IF OwnerOf(k) = {} THEN None ELSE CHOOSE p \in OwnerOf(k) : TRUE]

(* The cache over the disk is a store of blocks: one process at a time has *)
(* a block and finds in it what was put there last, be it on disk, in the  *)
(* queue or dirty in a buffer.                                             *)
StoreRefinement == Store!Spec

(* A process asleep in iderw() is woken, and woken with its request done:  *)
(* each request in the queue reaches the disk, whoever is scheduled.       *)
IoCompletes == \A p \in Procs :
    pc[p] \in {"rsleep", "wsleep"}
        ~> (panic \/ (pc[p] \in {"rwoken", "wwoken"} /\ Finished(cur[p])))
=============================================================================
