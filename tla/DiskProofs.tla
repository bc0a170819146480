----------------------------- MODULE DiskProofs -----------------------------
(***************************************************************************)
(* The invariants of the buffer cache, its sleeplocks and the disk driver, *)
(* and their refinement of BlockStore, for any number of processes,        *)
(* buffers, blocks and contents.                                           *)
(***************************************************************************)
EXTENDS Disk, FiniteSetTheorems, WellFoundedInduction, TLAPS

Asleep  == {"rsleep", "wsleep"}
Holding == Asleep \cup {"locked", "rwoken", "wwoken", "have"}
Locs    == Holding \cup {"user", "acq", "lksleep", "rel"}

Buffers == [blockno : Blocks \cup {NoBlock}, valid : BOOLEAN, dirty : BOOLEAN, refcnt : Nat,
            lock : Procs \cup {None}, data : Values]

DiskTypeOK ==
    /\ buf \in [Bufs -> Buffers] /\ mru \in [Bufs -> Bufs] /\ idequeue \in Seq(Bufs)
    /\ store \in [Blocks -> Values] /\ irq \in BOOLEAN /\ panic \in BOOLEAN
    /\ pc \in [Procs -> Locs] /\ cur \in [Procs -> Bufs \cup {None}] /\ seen \in [Procs -> Values \cup {Nothing}]

(* Every buffer is in the list, and its references are the processes that  *)
(* have it; bget() gave up only when all were in use.                      *)
MruInv   == \A b \in Bufs : \E i \in Bufs : mru[i] = b
CountInv == \A b \in Bufs : buf[b].refcnt = Cardinality({p \in Procs : cur[p] = b})
PanicInv == panic => \A b \in Bufs : buf[b].dirty \/ \E p \in Procs : cur[p] = b

(* No block is in two buffers, and a buffer is in use for a block. *)
NameInv ==
    /\ \A p \in Procs : cur[p] = None <=> pc[p] = "user"
    /\ \A p \in Procs : pc[p] # "user" => buf[cur[p]].blockno # NoBlock
    /\ \A b, c \in Bufs : buf[b].blockno = buf[c].blockno /\ buf[b].blockno # NoBlock => b = c
    /\ \A b \in Bufs : (buf[b].valid => buf[b].blockno # NoBlock) /\ (buf[b].dirty => buf[b].valid)

(* The sleeplock, and what its holder knows of the flags. *)
LockInv == \A b \in Bufs, p \in Procs : buf[b].lock = p <=> (cur[p] = b /\ pc[p] \in Holding)
FlagInv == \A p \in Procs :
    /\ pc[p] = "rsleep" => ~buf[cur[p]].valid
    /\ pc[p] = "wsleep" => buf[cur[p]].dirty
    /\ pc[p] \in {"rwoken", "wwoken", "have"} => buf[cur[p]].valid
    /\ pc[p] \in {"rwoken", "wwoken"} => ~buf[cur[p]].dirty

(* The queue holds each buffer that somebody waits for once, and the disk  *)
(* works on the first.                                                     *)
Queued(b) == \E i \in 1 .. Len(idequeue) : idequeue[i] = b
QueueInv ==
    /\ \A i, j \in 1 .. Len(idequeue) : idequeue[i] = idequeue[j] => i = j
    /\ \A p \in Procs : pc[p] \in Asleep => Queued(cur[p])
    /\ \A b \in Bufs : Queued(b) => \E p \in Procs : cur[p] = b /\ pc[p] \in Asleep
CommandFor(b) == [blockno |-> b.blockno, write |-> b.dirty, data |-> IF b.dirty THEN b.data ELSE Nothing]
DeviceInv ==
    /\ device = IF idequeue = <<>> THEN NoCommand ELSE CommandFor(buf[Head(idequeue)])
    /\ irq => /\ idequeue # <<>>
              /\ device.write => store[device.blockno] = device.data

(* A clean buffer has what the disk has. *)
CleanInv == \A b \in Bufs : buf[b].valid /\ ~buf[b].dirty => buf[b].data = store[buf[b].blockno]

DiskInv ==
    /\ DiskTypeOK /\ MruInv /\ CountInv /\ PanicInv /\ NameInv /\ LockInv /\ FlagInv
    /\ QueueInv /\ DeviceInv /\ CleanInv

USE DEF Goto

(* What the assumption on the constants gives. *)
LEMMA Constants ==
  /\ None \notin Bufs /\ None \notin Procs /\ NoBlock \notin Blocks /\ Bufs \subseteq Nat
  /\ IsFiniteSet(Procs) /\ \E v \in Values : TRUE /\ NBUF \in Nat \ {0}
<1>1. NProcs \in Nat /\ NBUF \in Nat \ {0} BY DiskAssumption
<1>2. IsFiniteSet(1 .. NProcs) BY <1>1, FS_Interval
<1> QED BY <1>1, <1>2, DiskAssumption DEF Procs, Bufs, None

(* The empty queue is a queue. *)
LEMMA NoRequests == <<>> \in Seq(Bufs) /\ Len(<<>>) = 0
OBVIOUS

(* The fields of a buffer have their types. *)
LEMMA BufFields ==
  ASSUME DiskTypeOK, NEW b \in Bufs
  PROVE  /\ buf[b] \in Buffers /\ buf[b].blockno \in Blocks \cup {NoBlock} /\ buf[b].refcnt \in Nat
         /\ buf[b].valid \in BOOLEAN /\ buf[b].dirty \in BOOLEAN
         /\ buf[b].lock \in Procs \cup {None} /\ buf[b].data \in Values
BY DEF DiskTypeOK, Buffers

(* The empty cache of binit() satisfies the invariant. *)
LEMMA InitInv == Init => DiskInv
<1> SUFFICES ASSUME Init PROVE DiskInv OBVIOUS
<1> USE Constants DEF Init
<1>0. PICK v \in Values : /\ buf = [b \in Bufs |-> [blockno |-> NoBlock, valid |-> FALSE, dirty |-> FALSE, refcnt |-> 0,
                                                      lock |-> None, data |-> v]]
                          /\ store = [k \in Blocks |-> v]
  OBVIOUS
<1>1. buf \in [Bufs -> Buffers] BY <1>0 DEF Buffers
<1>2. mru \in [Bufs -> Bufs] /\ MruInv
  <2>1. \A i \in Bufs : NBUF + 1 - i \in Bufs /\ NBUF + 1 - (NBUF + 1 - i) = i BY DEF Bufs
  <2>2. mru \in [Bufs -> Bufs] BY <2>1
  <2>3. \A b \in Bufs : mru[NBUF + 1 - b] = b BY <2>1
  <2> QED BY <2>1, <2>2, <2>3 DEF MruInv
<1>3. store \in [Blocks -> Values] /\ cur \in [Procs -> Bufs \cup {None}] BY <1>0
<1>4. pc \in [Procs -> Locs] /\ seen \in [Procs -> Values \cup {Nothing}] BY DEF Locs
<1>5. DiskTypeOK BY <1>1, <1>2, <1>3, <1>4, NoRequests DEF DiskTypeOK
<1>6. CountInv
  <2>1. ASSUME NEW b \in Bufs PROVE buf[b].refcnt = Cardinality({p \in Procs : cur[p] = b})
    <3>1. {p \in Procs : cur[p] = b} = {} OBVIOUS
    <3>2. buf[b].refcnt = 0 BY <1>0
    <3> QED BY <3>1, <3>2, FS_EmptySet
  <2> QED BY <2>1 DEF CountInv
<1>7. NameInv BY <1>0 DEF NameInv
<1>8. LockInv BY <1>0 DEF LockInv
<1>9. FlagInv /\ QueueInv /\ DeviceInv /\ PanicInv BY NoRequests DEF FlagInv, QueueInv, DeviceInv, PanicInv, Queued, Asleep
<1>10. CleanInv BY <1>0 DEF CleanInv
<1> QED BY <1>2, <1>5, <1>6, <1>7, <1>8, <1>9, <1>10 DEF DiskInv

-----------------------------------------------------------------------------
(* The references after one was taken or given back. *)
Users(b) == {p \in Procs : cur[p] = b}

(* bget() adds one process to the users of a buffer. *)
LEMMA UserTakes ==
  ASSUME DiskTypeOK, CountInv, NEW p \in Procs, NEW b \in Bufs, cur[p] = None, cur' = [cur EXCEPT ![p] = b]
  PROVE  \A c \in Bufs : Cardinality(Users(c)') = IF c = b THEN buf[b].refcnt + 1 ELSE buf[c].refcnt
<1>1. ASSUME NEW c \in Bufs PROVE IsFiniteSet(Users(c)) /\ Users(c)' = IF c = b THEN Users(c) \cup {p} ELSE Users(c)
  <2>1. Users(c) \in SUBSET Procs BY DEF Users
  <2>2. IsFiniteSet(Users(c)) BY <2>1, Constants, FS_Subset
  <2>3. Users(c)' = IF c = b THEN Users(c) \cup {p} ELSE Users(c) BY Constants DEF Users, DiskTypeOK
  <2> QED BY <2>2, <2>3
<1>2. p \notin Users(b) BY Constants DEF Users
<1>3. \A c \in Bufs : Cardinality(Users(c)) = buf[c].refcnt BY DEF CountInv, Users
<1>4. Cardinality(Users(b) \cup {p}) = Cardinality(Users(b)) + 1 BY <1>1, <1>2, FS_AddElement
<1> QED BY <1>1, <1>3, <1>4

(* brelse() takes one away. *)
LEMMA UserLeaves ==
  ASSUME DiskTypeOK, CountInv, NEW p \in Procs, NEW b \in Bufs, cur[p] = b, cur' = [cur EXCEPT ![p] = None]
  PROVE  /\ buf[b].refcnt - 1 \in Nat
         /\ \A c \in Bufs : Cardinality(Users(c)') = IF c = b THEN buf[b].refcnt - 1 ELSE buf[c].refcnt
<1>1. ASSUME NEW c \in Bufs PROVE IsFiniteSet(Users(c)) /\ Users(c)' = IF c = b THEN Users(c) \ {p} ELSE Users(c)
  <2>1. Users(c) \in SUBSET Procs BY DEF Users
  <2>2. IsFiniteSet(Users(c)) BY <2>1, Constants, FS_Subset
  <2>3. Users(c)' = IF c = b THEN Users(c) \ {p} ELSE Users(c) BY Constants DEF Users, DiskTypeOK
  <2> QED BY <2>2, <2>3
<1>2. p \in Users(b) BY DEF Users
<1>3. \A c \in Bufs : Cardinality(Users(c)) = buf[c].refcnt BY DEF CountInv, Users
<1>4. Cardinality(Users(b) \ {p}) = Cardinality(Users(b)) - 1 BY <1>1, <1>2, FS_RemoveElement
<1>5. Cardinality(Users(b) \ {p}) \in Nat BY <1>1, FS_RemoveElement, FS_CardinalityType
<1> QED BY <1>1, <1>3, <1>4, <1>5

(* The steps that leave the buffers in use and their references alone. *)
LEMMA SameUsers ==
  ASSUME DiskInv, cur' = cur, mru' = mru, \A b \in Bufs : buf'[b].refcnt = buf[b].refcnt
  PROVE  MruInv' /\ CountInv'
BY DEF DiskInv, MruInv, CountInv

(* refcnt is 0 exactly when no process has the buffer. *)
LEMMA NoUsers ==
  ASSUME DiskTypeOK, CountInv, NEW b \in Bufs
  PROVE  buf[b].refcnt = 0 <=> \A p \in Procs : cur[p] # b
<1>1. Users(b) \in SUBSET Procs BY DEF Users
<1>2. IsFiniteSet(Users(b)) BY <1>1, Constants, FS_Subset
<1>3. buf[b].refcnt = Cardinality(Users(b)) BY DEF CountInv, Users
<1>4. Users(b) = {} <=> \A p \in Procs : cur[p] # b BY DEF Users
<1> QED BY <1>2, <1>3, <1>4, FS_EmptySet

-----------------------------------------------------------------------------
(* A set of naturals has a least element. *)
LEMMA LeastNat ==
  ASSUME NEW S, S \subseteq Nat, S # {}
  PROVE  \E x \in S : \A y \in S : x <= y
<1> DEFINE R == OpToRel(<, Nat)
<1>1. IsWellFoundedOn(R, Nat) BY NatLessThanWellFounded
<1>2. \E x \in S : \A y \in S : <<y, x>> \notin R
  <2> HIDE DEF R
  <2> QED BY <1>1, WFMin
<1>3. \E x \in S : \A y \in S : ~(y < x) BY <1>2 DEF OpToRel
<1> QED BY <1>3

(* bget()'s two searches of the list find what they look for. *)
LEMMA ListSearch ==
  ASSUME NEW S, S \subseteq Bufs, S # {}
  PROVE  Min(S) \in S /\ Max(S) \in S
<1>1. S \subseteq Nat /\ NBUF \in Nat /\ \A x \in S : x <= NBUF BY Constants DEF Bufs
<1>2. Min(S) \in S
  <2>1. \E x \in S : \A y \in S : x <= y BY <1>1, LeastNat
  <2> QED BY <2>1 DEF Min
<1>3. Max(S) \in S
  <2> DEFINE T == {NBUF - x : x \in S}
  <2>0. \A x \in S : NBUF - x \in Nat BY <1>1
  <2>1. T \subseteq Nat /\ T # {} BY <2>0
  <2>2. \E z \in T : \A y \in T : z <= y
    <3> HIDE DEF T
    <3> QED BY <2>1, LeastNat
  <2>3. PICK x \in S : \A y \in S : NBUF - x <= NBUF - y BY <2>2
  <2>4. \A y \in S : x \in Nat /\ y \in Nat /\ x >= y BY <1>1, <2>3
  <2> QED BY <2>4 DEF Max
<1> QED BY <1>2, <1>3

(* bget()'s first scan ends at a buffer of the block. *)
LEMMA HitFinds ==
  ASSUME DiskTypeOK, NEW k, Cached(k) # {}
  PROVE  mru[Min(Cached(k))] \in Bufs /\ buf[mru[Min(Cached(k))]].blockno = k
<1>1. Cached(k) \subseteq Bufs BY DEF Cached
<1>2. Min(Cached(k)) \in Cached(k) BY <1>1, ListSearch
<1> QED BY <1>2 DEF Cached, DiskTypeOK

(* bget()'s second scan ends at a buffer that is unused and clean. *)
LEMMA RecycleFinds ==
  ASSUME DiskTypeOK, Unused # {}
  PROVE  LET b == mru[Max(Unused)] IN b \in Bufs /\ buf[b].refcnt = 0 /\ ~buf[b].dirty
<1>1. Unused \subseteq Bufs BY DEF Unused
<1>2. Max(Unused) \in Unused BY <1>1, ListSearch
<1> QED BY <1>2 DEF Unused, DiskTypeOK

(* The steps that leave the queue and the disk alone. *)
LEMMA SameRequests ==
  ASSUME DiskInv, idequeue' = idequeue,
         \A q \in Procs : (pc'[q] \in Asleep <=> pc[q] \in Asleep) /\ (pc[q] \in Asleep => cur'[q] = cur[q])
  PROVE  QueueInv'
<1>1. \A b \in Bufs : Queued(b)' <=> Queued(b) BY DEF Queued
<1>2. \A q \in Procs : pc'[q] \in Asleep => Queued(cur[q])' BY DEF DiskInv, QueueInv, Queued
<1>3. \A b \in Bufs : Queued(b)' => \E p \in Procs : cur'[p] = b /\ pc'[p] \in Asleep BY <1>1 DEF DiskInv, QueueInv
<1> QED BY <1>2, <1>3 DEF QueueInv, DiskInv

(* The request the disk works on is that of a process asleep in iderw(). *)
LEMMA FirstQueued ==
  ASSUME DiskInv, idequeue # <<>>
  PROVE  /\ Head(idequeue) \in Bufs /\ Queued(Head(idequeue)) /\ Head(idequeue) = idequeue[1] /\ Len(idequeue) \in Nat \ {0}
         /\ \E p \in Procs : cur[p] = Head(idequeue) /\ pc[p] \in Asleep
<1>1. Head(idequeue) \in Bufs /\ Head(idequeue) = idequeue[1] /\ Len(idequeue) \in Nat \ {0} BY DEF DiskInv, DiskTypeOK
<1>2. Queued(Head(idequeue)) BY <1>1 DEF Queued
<1> QED BY <1>1, <1>2 DEF DiskInv, QueueInv

(* The command in the disk stays that of the first request. *)
LEMMA SameCommand ==
  ASSUME DiskInv, UNCHANGED <<idequeue, store, device, irq>>,
         \A b \in Bufs : Queued(b) => CommandFor(buf'[b]) = CommandFor(buf[b])
  PROVE  DeviceInv'
<1>1. idequeue # <<>> => CommandFor(buf'[Head(idequeue)]) = CommandFor(buf[Head(idequeue)]) BY FirstQueued
<1> QED BY <1>1 DEF DeviceInv, DiskInv

(* A clean buffer stays what is on disk when nothing of either changes. *)
LEMMA SameClean ==
  ASSUME CleanInv, store' = store,
         \A b \in Bufs : /\ buf'[b].blockno = buf[b].blockno /\ buf'[b].data = buf[b].data
                         /\ buf'[b].valid = buf[b].valid /\ buf'[b].dirty = buf[b].dirty
  PROVE  CleanInv'
BY DEF CleanInv

(* bget() finds the block cached. *)
LEMMA HitInv ==
  ASSUME DiskInv, NEW p \in Procs, NEW k \in Blocks, bgetHit(p, k), ~panic
  PROVE  DiskInv'
<1> USE Constants DEF DiskInv
<1>0. PICK b \in Bufs : /\ buf[b].blockno = k /\ buf' = [buf EXCEPT ![b].refcnt = @ + 1] /\ cur' = [cur EXCEPT ![p] = b]
  BY HitFinds DEF bgetHit
<1>1. /\ pc[p] = "user" /\ pc' = [pc EXCEPT ![p] = "acq"] /\ cur[p] = None
      /\ UNCHANGED <<mru, idequeue, store, device, irq, seen, panic>>
  BY DEF bgetHit, NameInv
<1>2. /\ buf'[b].refcnt = buf[b].refcnt + 1 /\ \A c \in Bufs \ {b} : buf'[c] = buf[c]
      /\ \A c \in Bufs : /\ buf'[c].blockno = buf[c].blockno /\ buf'[c].valid = buf[c].valid /\ buf'[c].dirty = buf[c].dirty
                         /\ buf'[c].lock = buf[c].lock /\ buf'[c].data = buf[c].data
  BY <1>0 DEF DiskTypeOK, Buffers
<1>3. DiskTypeOK'
  <2>0. [buf[b] EXCEPT !.refcnt = @ + 1] \in Buffers BY BufFields DEF Buffers
  <2>1. buf' \in [Bufs -> Buffers] BY <1>0, <2>0 DEF DiskTypeOK
  <2>2. pc' \in [Procs -> Locs] /\ cur' \in [Procs -> Bufs \cup {None}] BY <1>0, <1>1 DEF DiskTypeOK, Locs
  <2> QED BY <1>1, <2>1, <2>2 DEF DiskTypeOK
<1>4. CountInv'
  <2>1. \A c \in Bufs : Cardinality(Users(c)') = IF c = b THEN buf[b].refcnt + 1 ELSE buf[c].refcnt
    BY <1>0, <1>1, UserTakes
  <2> QED BY <1>2, <2>1 DEF CountInv, Users
<1>5. MruInv' /\ PanicInv' BY <1>1 DEF MruInv, PanicInv
<1> HIDE DEF DiskInv
<1> USE DEF DiskTypeOK
<1>6. \A q \in Procs \ {p} : pc'[q] = pc[q] /\ cur'[q] = cur[q] BY <1>0, <1>1 DEF DiskInv
<1>7. pc'[p] = "acq" /\ cur'[p] = b BY <1>0, <1>1 DEF DiskInv
<1>8. NameInv'
  <2>1. \A q \in Procs : cur'[q] = None <=> pc'[q] = "user" BY <1>6, <1>7 DEF NameInv, DiskInv
  <2>2. \A q \in Procs : pc'[q] # "user" => buf'[cur'[q]].blockno # NoBlock BY <1>0, <1>2, <1>6, <1>7 DEF NameInv, DiskInv
  <2> QED BY <1>2, <2>1, <2>2 DEF NameInv, DiskInv
<1>9. LockInv' BY <1>1, <1>2, <1>6, <1>7 DEF LockInv, DiskInv, Holding, Asleep
<1>10. FlagInv' BY <1>0, <1>1, <1>2, <1>6, <1>7 DEF FlagInv, DiskInv, NameInv
<1>11. QueueInv' BY <1>1, <1>6, <1>7, SameRequests DEF Asleep
<1>12. DeviceInv' BY <1>1, <1>2, SameCommand DEF CommandFor
<1>13. CleanInv'
  <2> HIDE DEF DiskTypeOK
  <2>1. CleanInv BY DEF DiskInv
  <2> QED BY <1>1, <1>2, <2>1 DEF CleanInv
<1> QED BY <1>3, <1>4, <1>5, <1>8, <1>9, <1>10, <1>11, <1>12, <1>13 DEF DiskInv

(* bget() recycles a buffer: no other buffer has the block. *)
LEMMA RecycleInv ==
  ASSUME DiskInv, NEW p \in Procs, NEW k \in Blocks, bgetRecycle(p, k), ~panic
  PROVE  DiskInv'
<1> USE Constants
<1>0. PICK b \in Bufs : /\ buf[b].refcnt = 0 /\ ~buf[b].dirty /\ cur' = [cur EXCEPT ![p] = b]
                        /\ buf' = [buf EXCEPT ![b] = [@ EXCEPT !.blockno = k, !.valid = FALSE, !.dirty = FALSE, !.refcnt = 1]]
  BY RecycleFinds DEF bgetRecycle, DiskInv
<1>1. /\ pc[p] = "user" /\ pc' = [pc EXCEPT ![p] = "acq"] /\ cur[p] = None /\ Cached(k) = {}
      /\ UNCHANGED <<mru, idequeue, store, device, irq, seen, panic>>
  BY DEF bgetRecycle, NameInv, DiskInv
<1>2. /\ \A c \in Bufs \ {b} : buf'[c] = buf[c]
      /\ buf'[b].refcnt = 1 /\ buf'[b].blockno = k /\ ~buf'[b].valid /\ ~buf'[b].dirty
      /\ buf'[b].lock = buf[b].lock /\ buf'[b].data = buf[b].data
  BY <1>0 DEF DiskTypeOK, Buffers, DiskInv
<1>3. DiskTypeOK'
  <2>0. [buf[b] EXCEPT !.blockno = k, !.valid = FALSE, !.dirty = FALSE, !.refcnt = 1] \in Buffers
    BY BufFields DEF Buffers, DiskInv
  <2>1. buf' \in [Bufs -> Buffers] BY <1>0, <2>0 DEF DiskTypeOK, DiskInv
  <2>2. pc' \in [Procs -> Locs] /\ cur' \in [Procs -> Bufs \cup {None}] BY <1>0, <1>1 DEF DiskTypeOK, Locs, DiskInv
  <2> QED BY <1>1, <2>1, <2>2 DEF DiskTypeOK, DiskInv
<1>4. CountInv'
  <2>1. \A c \in Bufs : Cardinality(Users(c)') = IF c = b THEN buf[b].refcnt + 1 ELSE buf[c].refcnt
    BY <1>0, <1>1, UserTakes DEF DiskInv
  <2> QED BY <1>0, <1>2, <2>1 DEF CountInv, Users
<1>5. MruInv' /\ PanicInv' BY <1>1 DEF MruInv, PanicInv, DiskInv
<1>6. \A q \in Procs \ {p} : pc'[q] = pc[q] /\ cur'[q] = cur[q] BY <1>0, <1>1 DEF DiskInv, DiskTypeOK
<1>7. pc'[p] = "acq" /\ cur'[p] = b BY <1>0, <1>1 DEF DiskInv, DiskTypeOK
<1>8. \A q \in Procs : cur[q] # b BY <1>0, NoUsers DEF DiskInv
<1>9. \A c \in Bufs : buf[c].blockno # k
  <2>1. ASSUME NEW c \in Bufs PROVE buf[c].blockno # k
    <3>1. PICK i \in Bufs : mru[i] = c BY DEF DiskInv, MruInv
    <3> QED BY <3>1, <1>1 DEF Cached
  <2> QED BY <2>1
<1>10. \A q \in Procs \ {p} : pc[q] # "user" => cur[q] \in Bufs \ {b} /\ buf'[cur[q]] = buf[cur[q]]
  BY <1>2, <1>8 DEF DiskInv, DiskTypeOK, NameInv
<1>11. NameInv'
  <2>1. \A q \in Procs : cur'[q] = None <=> pc'[q] = "user" BY <1>6, <1>7 DEF NameInv, DiskInv
  <2>2. \A q \in Procs : pc'[q] # "user" => buf'[cur'[q]].blockno # NoBlock
    BY <1>2, <1>6, <1>7, <1>10 DEF NameInv, DiskInv
  <2>3. ASSUME NEW c \in Bufs, NEW d \in Bufs, buf'[c].blockno = buf'[d].blockno, buf'[c].blockno # NoBlock, c # d
        PROVE  FALSE
    <3>1. CASE c = b \/ d = b BY <1>2, <1>9, <2>3, <3>1
    <3>2. CASE c # b /\ d # b
      <4>1. buf'[c].blockno = buf[c].blockno /\ buf'[d].blockno = buf[d].blockno BY <1>2, <3>2
      <4>2. buf[c].blockno = buf[d].blockno /\ buf[c].blockno # NoBlock BY <2>3, <4>1
      <4> QED BY <2>3, <4>2 DEF NameInv, DiskInv
    <3> QED BY <3>1, <3>2
  <2>4. \A c \in Bufs : (buf'[c].valid => buf'[c].blockno # NoBlock) /\ (buf'[c].dirty => buf'[c].valid)
    <3>1. ASSUME NEW c \in Bufs
          PROVE  (buf'[c].valid => buf'[c].blockno # NoBlock) /\ (buf'[c].dirty => buf'[c].valid)
      <4>1. CASE c = b BY <1>2, <4>1
      <4>2. CASE c # b
        <5>1. buf'[c] = buf[c] BY <1>2, <4>2
        <5>2. (buf[c].valid => buf[c].blockno # NoBlock) /\ (buf[c].dirty => buf[c].valid)
          BY DEF NameInv, DiskInv
        <5> QED BY <5>1, <5>2
      <4> QED BY <4>1, <4>2
    <3> QED BY <3>1
  <2> QED BY <2>1, <2>2, <2>3, <2>4 DEF NameInv
<1>12. LockInv' BY <1>1, <1>2, <1>6, <1>7, <1>8 DEF LockInv, DiskInv, Holding, Asleep
<1>13. FlagInv' BY <1>6, <1>7, <1>10 DEF FlagInv, DiskInv
<1>14. QueueInv' BY <1>1, <1>6, <1>7, SameRequests DEF Asleep
<1>15. DeviceInv'
  <2>1. \A c \in Bufs : Queued(c) => c # b BY <1>8 DEF DiskInv, QueueInv
  <2> QED BY <1>1, <1>2, <2>1, SameCommand
<1>16. CleanInv' BY <1>1, <1>2 DEF CleanInv, DiskInv
<1> QED BY <1>3, <1>4, <1>5, <1>11, <1>12, <1>13, <1>14, <1>15, <1>16 DEF DiskInv

(* bget() finds no buffer and panics. *)
LEMMA PanicStep ==
  ASSUME DiskInv, NEW p \in Procs, NEW k \in Blocks, bgetPanics(p, k)
  PROVE  DiskInv'
<1>1. UNCHANGED <<buf, mru, idequeue, store, device, irq, pc, cur, seen>> /\ panic' = TRUE /\ Unused = {}
  BY DEF bgetPanics
<1>2. PanicInv'
  <2>1. ASSUME NEW b \in Bufs PROVE buf[b].dirty \/ \E q \in Procs : cur[q] = b
    <3>1. PICK i \in Bufs : mru[i] = b BY DEF DiskInv, MruInv
    <3>2. buf[b].refcnt # 0 \/ buf[b].dirty BY <1>1, <3>1 DEF Unused
    <3> QED BY <3>2, NoUsers DEF DiskInv
  <2> QED BY <1>1, <2>1 DEF PanicInv
<1>3. DiskTypeOK' /\ MruInv' /\ CountInv' BY <1>1 DEF DiskInv, DiskTypeOK, MruInv, CountInv
<1>4. NameInv' /\ LockInv' /\ FlagInv' BY <1>1 DEF DiskInv, NameInv, LockInv, FlagInv
<1>5. QueueInv' /\ DeviceInv' BY <1>1 DEF DiskInv, QueueInv, Queued, DeviceInv, CommandFor
<1>6. CleanInv' BY <1>1 DEF DiskInv, CleanInv
<1> QED BY <1>2, <1>3, <1>4, <1>5, <1>6 DEF DiskInv

-----------------------------------------------------------------------------
(* The steps of a process that has a buffer. *)
LEMMA HasBuffer ==
  ASSUME DiskInv, NEW p \in Procs, pc[p] # "user"
  PROVE  cur[p] \in Bufs /\ buf[cur[p]].blockno \in Blocks
<1>1. cur[p] \in Bufs BY DEF DiskInv, NameInv, DiskTypeOK
<1> QED BY <1>1, BufFields DEF DiskInv, NameInv

(* A process that is not asleep in iderw() has no request in the queue. *)
LEMMA NotQueued ==
  ASSUME DiskInv, NEW p \in Procs, pc[p] \in Holding \ Asleep
  PROVE  ~Queued(cur[p])
<1>1. cur[p] \in Bufs BY HasBuffer DEF Holding, Asleep
<1>2. buf[cur[p]].lock = p BY <1>1 DEF DiskInv, LockInv
<1>3. ASSUME NEW q \in Procs, cur[q] = cur[p], pc[q] \in Asleep PROVE FALSE
  BY <1>1, <1>2, <1>3 DEF DiskInv, LockInv, Holding
<1> QED BY <1>1, <1>3 DEF DiskInv, QueueInv

(* acquiresleep() takes the buffer's lock, or sleeps. *)
LEMMA AcquireInv ==
  ASSUME DiskInv, NEW p \in Procs, acquiresleep(p), ~panic
  PROVE  DiskInv'
<1> USE Constants
<1>1. pc[p] = "acq" /\ UNCHANGED <<mru, idequeue, store, device, irq, cur, seen, panic>> BY DEF acquiresleep
<1>2. PICK b \in Bufs : b = cur[p] BY <1>1, HasBuffer
<1>3. CASE buf[b].lock = None
  <2>1. buf' = [buf EXCEPT ![b].lock = p] /\ pc' = [pc EXCEPT ![p] = "locked"] BY <1>2, <1>3 DEF acquiresleep
  <2>2. /\ \A c \in Bufs \ {b} : buf'[c] = buf[c]
        /\ buf'[b].lock = p
        /\ \A c \in Bufs : /\ buf'[c].blockno = buf[c].blockno /\ buf'[c].valid = buf[c].valid /\ buf'[c].dirty = buf[c].dirty
                           /\ buf'[c].refcnt = buf[c].refcnt /\ buf'[c].data = buf[c].data
    BY <2>1 DEF DiskTypeOK, Buffers, DiskInv
  <2>3. DiskTypeOK'
    <3>0. [buf[b] EXCEPT !.lock = p] \in Buffers BY BufFields DEF Buffers, DiskInv
    <3>1. buf' \in [Bufs -> Buffers] BY <2>1, <3>0 DEF DiskTypeOK, DiskInv
    <3>2. pc' \in [Procs -> Locs] BY <2>1 DEF DiskTypeOK, Locs, Holding, DiskInv
    <3> QED BY <1>1, <3>1, <3>2 DEF DiskTypeOK, DiskInv
  <2>4. pc'[p] = "locked" /\ \A q \in Procs \ {p} : pc'[q] = pc[q] BY <2>1 DEF DiskInv, DiskTypeOK
  <2>5. MruInv' /\ CountInv' /\ PanicInv' BY <1>1, <2>2, SameUsers DEF PanicInv
  <2>6. NameInv'
    <3>1. \A q \in Procs : cur'[q] = None <=> pc'[q] = "user" BY <1>1, <2>4 DEF DiskInv, NameInv
    <3>2. \A q \in Procs : pc'[q] # "user" => buf'[cur'[q]].blockno # NoBlock
      <4>1. \A q \in Procs : pc'[q] # "user" => pc[q] # "user" BY <1>1, <2>4
      <4> QED BY <1>1, <2>2, <4>1, HasBuffer
    <3> QED BY <2>2, <3>1, <3>2 DEF DiskInv, NameInv
  <2>7. LockInv'
    <3>1. ASSUME NEW c \in Bufs, NEW q \in Procs PROVE buf'[c].lock = q <=> (cur'[q] = c /\ pc'[q] \in Holding)
      <4>0. buf[c].lock = q <=> (cur[q] = c /\ pc[q] \in Holding) BY DEF DiskInv, LockInv
      <4>1. CASE c = b BY <1>1, <1>2, <1>3, <2>2, <2>4, <4>0, <4>1 DEF Holding
      <4>2. CASE c # b BY <1>1, <1>2, <2>2, <2>4, <4>0, <4>2 DEF Holding
      <4> QED BY <4>1, <4>2
    <3> QED BY <3>1 DEF LockInv
  <2>8. FlagInv'
    <3>1. ASSUME NEW q \in Procs, pc[q] # "user"
          PROVE  buf'[cur[q]].valid = buf[cur[q]].valid /\ buf'[cur[q]].dirty = buf[cur[q]].dirty
      <4>1. cur[q] \in Bufs BY <3>1, HasBuffer
      <4> QED BY <2>2, <4>1
    <3>2. \A q \in Procs : pc'[q] = pc[q] \/ pc'[q] = "locked" BY <2>4
    <3>3. FlagInv BY DEF DiskInv
    <3> QED BY <1>1, <3>1, <3>2, <3>3 DEF FlagInv
  <2>9. QueueInv' BY <1>1, <2>4, SameRequests DEF Asleep
  <2>10. DeviceInv' BY <1>1, <2>2, SameCommand DEF CommandFor
  <2>11. CleanInv' BY <1>1, <2>2, SameClean DEF DiskInv
  <2> QED BY <2>3, <2>5, <2>6, <2>7, <2>8, <2>9, <2>10, <2>11 DEF DiskInv
<1>4. CASE buf[b].lock # None
  <2>1. buf' = buf /\ pc' = [pc EXCEPT ![p] = "lksleep"] BY <1>2, <1>4 DEF acquiresleep
  <2>2. pc'[p] = "lksleep" /\ \A q \in Procs \ {p} : pc'[q] = pc[q] BY <2>1 DEF DiskInv, DiskTypeOK
  <2>3. DiskTypeOK'
    <3>1. pc' \in [Procs -> Locs] BY <2>1 DEF DiskTypeOK, Locs, DiskInv
    <3> QED BY <1>1, <2>1, <3>1 DEF DiskTypeOK, DiskInv
  <2>4. MruInv' /\ CountInv' /\ PanicInv' BY <1>1, <2>1, SameUsers DEF PanicInv
  <2>5. NameInv' BY <1>1, <2>1, <2>2 DEF NameInv, DiskInv
  <2>6. LockInv' BY <1>1, <2>1, <2>2 DEF LockInv, DiskInv, Holding, Asleep
  <2>7. FlagInv' BY <1>1, <2>1, <2>2 DEF FlagInv, DiskInv
  <2>8. QueueInv' BY <1>1, <2>2, SameRequests DEF Asleep
  <2>9. DeviceInv' BY <1>1, <2>1, SameCommand
  <2>10. CleanInv' BY <1>1, <2>1 DEF CleanInv, DiskInv
  <2> QED BY <2>3, <2>4, <2>5, <2>6, <2>7, <2>8, <2>9, <2>10 DEF DiskInv
<1> QED BY <1>3, <1>4

(* The steps of one process that change no buffer and leave it in Holding. *)
LEMMA HolderMoves ==
  ASSUME DiskInv, NEW p \in Procs, pc[p] \in Holding, NEW l \in Holding, pc' = [pc EXCEPT ![p] = l],
         UNCHANGED <<buf, mru, store, cur, panic>>, seen' \in [Procs -> Values \cup {Nothing}],
         idequeue' \in Seq(Bufs), irq' \in BOOLEAN, l = "have" => buf[cur[p]].valid, l = "rsleep" => ~buf[cur[p]].valid,
         l \in {"have", "rsleep", "locked"}
  PROVE  /\ DiskTypeOK' /\ MruInv' /\ CountInv' /\ PanicInv' /\ NameInv' /\ LockInv' /\ FlagInv' /\ CleanInv'
         /\ pc'[p] = l /\ \A q \in Procs \ {p} : pc'[q] = pc[q]
<1> USE Constants
<1>1. pc'[p] = l /\ \A q \in Procs \ {p} : pc'[q] = pc[q] BY DEF DiskInv, DiskTypeOK
<1>2. DiskTypeOK'
  <2>1. pc' \in [Procs -> Locs] BY DEF DiskTypeOK, Locs, DiskInv
  <2> QED BY <2>1 DEF DiskTypeOK, DiskInv
<1>3. MruInv' /\ CountInv' /\ PanicInv' BY SameUsers DEF PanicInv, DiskInv
<1>4. NameInv'
  <2>1. pc[p] # "user" /\ l # "user" BY DEF Holding, Asleep
  <2> QED BY <1>1, <2>1 DEF NameInv, DiskInv
<1>5. LockInv' BY <1>1 DEF LockInv, DiskInv
<1>6. FlagInv' BY <1>1 DEF FlagInv, DiskInv
<1>7. CleanInv' BY DEF CleanInv, DiskInv
<1> QED BY <1>1, <1>2, <1>3, <1>4, <1>5, <1>6, <1>7

(* iderw() returns once ideintr() has set the flags. *)
LEMMA IoWokenInv ==
  ASSUME DiskInv, NEW p \in Procs, IoWoken(p)
  PROVE  DiskInv' /\ pc' = [pc EXCEPT ![p] = "have"]
         /\ seen' = IF pc[p] = "rwoken" THEN [seen EXCEPT ![p] = buf[cur[p]].data] ELSE seen
<1>1. pc[p] \in {"rwoken", "wwoken"} /\ UNCHANGED <<buf, mru, idequeue, store, device, irq, cur, panic>> BY DEF IoWoken
<1>2. cur[p] \in Bufs BY <1>1, HasBuffer
<1>3. Finished(cur[p]) BY <1>1 DEF DiskInv, FlagInv, Finished
<1>4. /\ pc' = [pc EXCEPT ![p] = "have"]
      /\ seen' = IF pc[p] = "rwoken" THEN [seen EXCEPT ![p] = buf[cur[p]].data] ELSE seen
  BY <1>3 DEF IoWoken
<1>5. seen' \in [Procs -> Values \cup {Nothing}]
  <2>1. buf[cur[p]].data \in Values BY <1>2, BufFields DEF DiskInv
  <2> QED BY <1>4, <2>1 DEF DiskInv, DiskTypeOK
<1>6. buf[cur[p]].valid /\ pc[p] \in Holding /\ "have" \in Holding BY <1>1, <1>3 DEF Finished, Holding
<1>7. idequeue' \in Seq(Bufs) /\ irq' \in BOOLEAN BY <1>1 DEF DiskInv, DiskTypeOK
<1>8. /\ DiskTypeOK' /\ MruInv' /\ CountInv' /\ PanicInv' /\ NameInv' /\ LockInv' /\ FlagInv' /\ CleanInv'
      /\ pc'[p] = "have" /\ \A q \in Procs \ {p} : pc'[q] = pc[q]
  BY <1>1, <1>4, <1>5, <1>6, <1>7, HolderMoves
<1>9. QueueInv' BY <1>1, <1>8, SameRequests DEF Asleep
<1>10. DeviceInv' BY <1>1, SameCommand
<1> QED BY <1>4, <1>8, <1>9, <1>10 DEF DiskInv

(* iderw() appends a buffer nobody waits for. *)
LEMMA Enqueue ==
  ASSUME DiskInv, NEW p \in Procs, NEW b \in Bufs, cur[p] = b, pc[p] \in Holding \ Asleep, NEW l \in Asleep,
         pc' = [pc EXCEPT ![p] = l], cur' = cur, store' = store, \A c \in Bufs \ {b} : buf'[c] = buf[c],
         iderw(p, buf', l)
  PROVE  QueueInv' /\ DeviceInv' /\ idequeue' \in Seq(Bufs) /\ irq' \in BOOLEAN
<1>0. /\ idequeue' = Append(idequeue, b) /\ idequeue \in Seq(Bufs) /\ irq \in BOOLEAN
      /\ IF idequeue = <<>> THEN idestart(b, buf') ELSE device' = device /\ irq' = irq
  BY DEF iderw, DiskInv, DiskTypeOK
<1>1. /\ idequeue' \in Seq(Bufs) /\ Len(idequeue') = Len(idequeue) + 1 /\ Len(idequeue) \in Nat
      /\ idequeue' # <<>> /\ idequeue'[Len(idequeue) + 1] = b
  BY <1>0
<1>2. ASSUME NEW i \in 1 .. Len(idequeue) PROVE idequeue'[i] = idequeue[i] BY <1>0
<1>3. \A i \in 1 .. Len(idequeue) : idequeue[i] # b BY NotQueued DEF Queued
<1>4. pc'[p] = l /\ \A q \in Procs \ {p} : pc'[q] = pc[q] BY DEF DiskInv, DiskTypeOK
<1>5. ASSUME NEW c \in Bufs PROVE Queued(c)' <=> Queued(c) \/ c = b
  <2>1. Len(idequeue) + 1 \in 1 .. Len(idequeue') BY <1>1
  <2>2. ASSUME c = b PROVE Queued(c)' BY <2>1, <2>2, <1>1 DEF Queued
  <2>3. ASSUME Queued(c) PROVE Queued(c)'
    <3>1. PICK i \in 1 .. Len(idequeue) : idequeue[i] = c BY <2>3 DEF Queued
    <3>2. i \in 1 .. Len(idequeue') /\ idequeue'[i] = c BY <3>1, <1>1, <1>2
    <3> QED BY <3>2 DEF Queued
  <2>4. ASSUME Queued(c)', c # b PROVE Queued(c)
    <3>1. PICK i \in 1 .. Len(idequeue') : idequeue'[i] = c BY <2>4 DEF Queued
    <3>2. i # Len(idequeue) + 1 BY <3>1, <2>4, <1>1
    <3>3. i \in 1 .. Len(idequeue) BY <3>1, <3>2, <1>1
    <3>4. idequeue[i] = c BY <3>1, <3>3, <1>2
    <3> QED BY <3>3, <3>4 DEF Queued
  <2> QED BY <2>2, <2>3, <2>4
<1>6. QueueInv'
  <2>1. ASSUME NEW i \in 1 .. Len(idequeue'), NEW j \in 1 .. Len(idequeue'), idequeue'[i] = idequeue'[j] PROVE i = j
    <3>1. CASE i \in 1 .. Len(idequeue) /\ j \in 1 .. Len(idequeue) BY <3>1, <2>1, <1>2 DEF DiskInv, QueueInv
    <3>2. CASE ~(i \in 1 .. Len(idequeue) /\ j \in 1 .. Len(idequeue))
      <4>1. i = Len(idequeue) + 1 \/ j = Len(idequeue) + 1 BY <3>2, <1>1
      <4>2. idequeue'[i] = b /\ idequeue'[j] = b BY <4>1, <2>1, <1>1
      <4>3. i \notin 1 .. Len(idequeue) /\ j \notin 1 .. Len(idequeue) BY <4>2, <1>2, <1>3
      <4> QED BY <4>3, <1>1
    <3> QED BY <3>1, <3>2
  <2>2. \A q \in Procs : pc'[q] \in Asleep => Queued(cur[q])'
    <3>1. ASSUME NEW q \in Procs, pc'[q] \in Asleep PROVE Queued(cur[q])'
      <4>1. CASE q = p BY <4>1, <1>5
      <4>2. CASE q # p
        <5>1. pc[q] \in Asleep BY <3>1, <4>2, <1>4
        <5>2. cur[q] \in Bufs BY <5>1, HasBuffer DEF Asleep
        <5>3. Queued(cur[q]) BY <5>1 DEF DiskInv, QueueInv
        <5>4. PICK c \in Bufs : c = cur[q] /\ c = cur'[q] BY <5>2
        <5> QED BY <5>3, <5>4, <1>5
      <4> QED BY <4>1, <4>2
    <3> QED BY <3>1
  <2>3. \A c \in Bufs : Queued(c)' => \E q \in Procs : cur'[q] = c /\ pc'[q] \in Asleep
    <3>1. ASSUME NEW c \in Bufs, Queued(c)' PROVE \E q \in Procs : cur'[q] = c /\ pc'[q] \in Asleep
      <4>1. CASE c = b BY <4>1, <1>4
      <4>2. CASE c # b
        <5>1. PICK q \in Procs : cur[q] = c /\ pc[q] \in Asleep BY <3>1, <4>2, <1>5 DEF DiskInv, QueueInv
        <5> QED BY <5>1, <4>2, <1>4
      <4> QED BY <4>1, <4>2
    <3> QED BY <3>1
  <2> QED BY <2>1, <2>2, <2>3 DEF QueueInv
<1>7. DeviceInv' /\ irq' \in BOOLEAN
  <2>1. CASE idequeue = <<>>
    <3>1. device' = CommandFor(buf'[b]) /\ irq' = FALSE BY <2>1, <1>0 DEF idestart, CommandFor
    <3>2. Head(idequeue') = b BY <2>1, <1>0
    <3> QED BY <3>1, <3>2, <1>1 DEF DeviceInv
  <2>2. CASE idequeue # <<>>
    <3>1. device' = device /\ irq' = irq BY <2>2, <1>0
    <3>2. Head(idequeue') = Head(idequeue) /\ Head(idequeue) \in Bufs \ {b}
      <4>1. Head(idequeue) \in Bufs /\ Head(idequeue) = idequeue[1] /\ Len(idequeue) \in Nat \ {0} BY <2>2, FirstQueued
      <4>2. 1 \in 1 .. Len(idequeue) BY <4>1
      <4>3. Head(idequeue') = idequeue'[1] BY <1>1
      <4> QED BY <4>1, <4>2, <4>3, <1>2, <1>3
    <3>3. PICK h \in Bufs \ {b} : h = Head(idequeue) /\ h = Head(idequeue') BY <3>2
    <3>4. CommandFor(buf'[h]) = CommandFor(buf[h]) BY <3>3
    <3> QED BY <2>2, <3>1, <3>3, <3>4, <1>0, <1>1 DEF DeviceInv, DiskInv
  <2> QED BY <2>1, <2>2
<1> QED BY <1>1, <1>6, <1>7

(* bread() finds the data, or queues a read. *)
LEMMA BreadInv ==
  ASSUME DiskInv, NEW p \in Procs, bread(p)
  PROVE  DiskInv'
<1>1. pc[p] = "locked" /\ UNCHANGED <<buf, mru, store, cur, panic>> BY DEF bread
<1>2. PICK b \in Bufs : b = cur[p] BY <1>1, HasBuffer
<1>3. pc[p] \in Holding \ Asleep /\ "have" \in Holding /\ "rsleep" \in Holding /\ "rsleep" \in Asleep
  BY <1>1 DEF Holding, Asleep
<1>4. CASE buf[b].valid
  <2>1. /\ pc' = [pc EXCEPT ![p] = "have"] /\ seen' = [seen EXCEPT ![p] = buf[b].data]
        /\ UNCHANGED <<idequeue, device, irq>>
    BY <1>2, <1>4 DEF bread
  <2>2. seen' \in [Procs -> Values \cup {Nothing}]
    <3>1. buf[b].data \in Values BY BufFields DEF DiskInv
    <3> QED BY <2>1, <3>1 DEF DiskInv, DiskTypeOK
  <2>3. idequeue' \in Seq(Bufs) /\ irq' \in BOOLEAN BY <2>1 DEF DiskInv, DiskTypeOK
  <2>4. /\ DiskTypeOK' /\ MruInv' /\ CountInv' /\ PanicInv' /\ NameInv' /\ LockInv' /\ FlagInv' /\ CleanInv'
        /\ pc'[p] = "have" /\ \A q \in Procs \ {p} : pc'[q] = pc[q]
    BY <1>1, <1>2, <1>3, <1>4, <2>1, <2>2, <2>3, HolderMoves
  <2>5. QueueInv' BY <1>1, <2>1, <2>4, SameRequests DEF Asleep
  <2>6. DeviceInv' BY <1>1, <2>1, SameCommand
  <2> QED BY <2>4, <2>5, <2>6 DEF DiskInv
<1>5. CASE ~buf[b].valid
  <2>1. iderw(p, buf, "rsleep") /\ seen' = seen BY <1>2, <1>5 DEF bread
  <2>2. iderw(p, buf', "rsleep") BY <1>1, <2>1
  <2>3. pc' = [pc EXCEPT ![p] = "rsleep"] BY <2>1 DEF iderw
  <2>4. QueueInv' /\ DeviceInv' /\ idequeue' \in Seq(Bufs) /\ irq' \in BOOLEAN
    BY <1>1, <1>2, <1>3, <2>2, <2>3, Enqueue
  <2>5. seen' \in [Procs -> Values \cup {Nothing}] BY <2>1 DEF DiskInv, DiskTypeOK
  <2>6. /\ DiskTypeOK' /\ MruInv' /\ CountInv' /\ PanicInv' /\ NameInv' /\ LockInv' /\ FlagInv' /\ CleanInv'
    BY <1>1, <1>2, <1>3, <1>5, <2>3, <2>4, <2>5, HolderMoves
  <2> QED BY <2>4, <2>6 DEF DiskInv
<1> QED BY <1>4, <1>5

(* The change of a buffer its holder makes before bwrite() or log_write(). *)
LEMMA Changed ==
  ASSUME DiskInv, NEW p \in Procs, pc[p] = "have", NEW v \in Values, NEW b \in Bufs, b = cur[p],
         buf' = [buf EXCEPT ![b] = [@ EXCEPT !.data = v, !.dirty = TRUE]],
         NEW l \in {"have", "wsleep"}, pc' = [pc EXCEPT ![p] = l],
         UNCHANGED <<mru, store, cur, seen, panic>>, idequeue' \in Seq(Bufs), irq' \in BOOLEAN
  PROVE  /\ DiskTypeOK' /\ MruInv' /\ CountInv' /\ PanicInv' /\ NameInv' /\ LockInv' /\ FlagInv' /\ CleanInv'
         /\ pc'[p] = l /\ \A q \in Procs \ {p} : pc'[q] = pc[q]
<1> USE Constants
<1>1. pc'[p] = l /\ \A q \in Procs \ {p} : pc'[q] = pc[q] BY DEF DiskInv, DiskTypeOK
<1>2. /\ \A c \in Bufs \ {b} : buf'[c] = buf[c]
      /\ \A c \in Bufs : /\ buf'[c].blockno = buf[c].blockno /\ buf'[c].valid = buf[c].valid
                         /\ buf'[c].refcnt = buf[c].refcnt /\ buf'[c].lock = buf[c].lock
      /\ buf'[b].dirty /\ buf'[b].data = v /\ buf[b].valid
  <2>1. buf[b].valid BY DEF DiskInv, FlagInv
  <2> QED BY <2>1 DEF DiskInv, DiskTypeOK, Buffers
<1>3. DiskTypeOK'
  <2>00. buf[b] \in Buffers BY BufFields DEF DiskInv
  <2>0. [buf[b] EXCEPT !.data = v, !.dirty = TRUE] \in Buffers BY <2>00 DEF Buffers
  <2>1. buf' \in [Bufs -> Buffers] BY <2>0 DEF DiskTypeOK, DiskInv
  <2>2. pc' \in [Procs -> Locs] BY DEF DiskTypeOK, Locs, Holding, Asleep, DiskInv
  <2> QED BY <2>1, <2>2 DEF DiskTypeOK, DiskInv
<1>4. MruInv' /\ CountInv' BY <1>2, SameUsers
<1>5. PanicInv' BY <1>2 DEF PanicInv, DiskInv
<1>6. NameInv'
  <2>1. \A q \in Procs : cur'[q] = None <=> pc'[q] = "user" BY <1>1 DEF NameInv, DiskInv
  <2>2. \A q \in Procs : pc'[q] # "user" => buf'[cur'[q]].blockno # NoBlock
    <3>1. \A q \in Procs : pc'[q] # "user" => pc[q] # "user" BY <1>1
    <3> QED BY <1>2, <3>1, HasBuffer
  <2> QED BY <1>2, <2>1, <2>2 DEF NameInv, DiskInv
<1>7. LockInv' BY <1>1, <1>2 DEF LockInv, DiskInv, Holding, Asleep
<1>8. FlagInv'
  <2>1. \A q \in Procs \ {p} : pc[q] \in Holding => cur[q] \in Bufs \ {b}
    <3>1. \A q \in Procs : pc[q] \in Holding => cur[q] \in Bufs BY HasBuffer DEF Holding, Asleep
    <3>2. pc[p] \in Holding BY DEF Holding
    <3> QED BY <3>1, <3>2 DEF DiskInv, LockInv
  <2> QED BY <1>1, <1>2, <2>1 DEF FlagInv, DiskInv, Holding, Asleep
<1>9. CleanInv' BY <1>2 DEF CleanInv, DiskInv
<1> QED BY <1>1, <1>3, <1>4, <1>5, <1>6, <1>7, <1>8, <1>9

(* bwrite() queues a write of the holder's data. *)
LEMMA BwriteInv ==
  ASSUME DiskInv, NEW p \in Procs, NEW v \in Values, bwrite(p, v)
  PROVE  DiskInv'
<1>1. pc[p] = "have" /\ UNCHANGED <<mru, store, cur, seen, panic>> /\ iderw(p, buf', "wsleep") BY DEF bwrite
<1>2. PICK b \in Bufs : b = cur[p] BY <1>1, HasBuffer
<1>3. buf' = [buf EXCEPT ![b] = [@ EXCEPT !.data = v, !.dirty = TRUE]] BY <1>2 DEF bwrite
<1>4. pc[p] \in Holding \ Asleep /\ "wsleep" \in Asleep BY <1>1 DEF Holding, Asleep
<1>5. pc' = [pc EXCEPT ![p] = "wsleep"] BY <1>1 DEF iderw
<1>6. \A c \in Bufs \ {b} : buf'[c] = buf[c] BY <1>3 DEF DiskInv, DiskTypeOK
<1>7. QueueInv' /\ DeviceInv' /\ idequeue' \in Seq(Bufs) /\ irq' \in BOOLEAN
  BY <1>1, <1>2, <1>4, <1>5, <1>6, Enqueue
<1>8. DiskTypeOK' /\ MruInv' /\ CountInv' /\ PanicInv' /\ NameInv' /\ LockInv' /\ FlagInv' /\ CleanInv'
  BY <1>1, <1>2, <1>3, <1>5, <1>7, Changed
<1> QED BY <1>7, <1>8 DEF DiskInv

(* log_write() marks the buffer dirty without writing it. *)
LEMMA PinInv ==
  ASSUME DiskInv, NEW p \in Procs, NEW v \in Values, Pin(p, v)
  PROVE  DiskInv'
<1>1. pc[p] = "have" /\ UNCHANGED <<mru, idequeue, store, device, irq, pc, cur, seen, panic>> BY DEF Pin
<1>2. PICK b \in Bufs : b = cur[p] BY <1>1, HasBuffer
<1>3. buf' = [buf EXCEPT ![b] = [@ EXCEPT !.data = v, !.dirty = TRUE]] BY <1>2 DEF Pin
<1>4. pc' = [pc EXCEPT ![p] = "have"] /\ idequeue' \in Seq(Bufs) /\ irq' \in BOOLEAN BY <1>1 DEF DiskInv, DiskTypeOK
<1>5. DiskTypeOK' /\ MruInv' /\ CountInv' /\ PanicInv' /\ NameInv' /\ LockInv' /\ FlagInv' /\ CleanInv'
  BY <1>1, <1>2, <1>3, <1>4, Changed
<1>6. QueueInv' BY <1>1, SameRequests
<1>7. DeviceInv'
  <2>1. ~Queued(b) BY <1>1, <1>2, NotQueued DEF Holding, Asleep
  <2>2. \A c \in Bufs : Queued(c) => buf'[c] = buf[c] BY <1>3, <2>1 DEF DiskInv, DiskTypeOK
  <2> QED BY <1>1, <2>2, SameCommand
<1> QED BY <1>5, <1>6, <1>7 DEF DiskInv

(* wakeup() of the processes asleep on a sleeplock and on a buffer. *)
LEMMA WokenIs ==
  ASSUME NEW b
  PROVE  /\ Woken(pc, b, [lksleep |-> "acq"]) = [q \in Procs |-> IF cur[q] = b /\ pc[q] = "lksleep" THEN "acq" ELSE pc[q]]
         /\ Woken(pc, b, [rsleep |-> "rwoken", wsleep |-> "wwoken"])
              = [q \in Procs |-> IF cur[q] = b /\ pc[q] = "rsleep" THEN "rwoken"
                                 ELSE IF cur[q] = b /\ pc[q] = "wsleep" THEN "wwoken" ELSE pc[q]]
<1> DEFINE f == [lksleep |-> "acq"]
           g == [rsleep |-> "rwoken", wsleep |-> "wwoken"]
<1>1. DOMAIN f = {"lksleep"} /\ f["lksleep"] = "acq" OBVIOUS
<1>2. DOMAIN g = {"rsleep", "wsleep"} /\ g["rsleep"] = "rwoken" /\ g["wsleep"] = "wwoken" OBVIOUS
<1> HIDE DEF f, g
<1>3. Woken(pc, b, f) = [q \in Procs |-> IF cur[q] = b /\ pc[q] = "lksleep" THEN "acq" ELSE pc[q]]
  BY <1>1 DEF Woken
<1>4. Woken(pc, b, g) = [q \in Procs |-> IF cur[q] = b /\ pc[q] = "rsleep" THEN "rwoken"
                                        ELSE IF cur[q] = b /\ pc[q] = "wsleep" THEN "wwoken" ELSE pc[q]]
  BY <1>2 DEF Woken
<1> QED BY <1>3, <1>4 DEF f, g

(* releasesleep() wakes who waits for the lock. *)
LEMMA ReleaseInv ==
  ASSUME DiskInv, NEW p \in Procs, releasesleep(p)
  PROVE  DiskInv' /\ \A q \in Procs : pc'[q] = IF q = p THEN "rel"
                                              ELSE IF cur[q] = cur[p] /\ pc[q] = "lksleep" THEN "acq" ELSE pc[q]
<1> USE Constants
<1>1. pc[p] = "have" /\ UNCHANGED <<mru, idequeue, store, device, irq, cur, panic>> /\ seen' = [seen EXCEPT ![p] = Nothing]
  BY DEF releasesleep
<1>2. PICK b \in Bufs : b = cur[p] BY <1>1, HasBuffer
<1>3. /\ buf' = [buf EXCEPT ![b].lock = None]
      /\ pc' = [[q \in Procs |-> IF cur[q] = b /\ pc[q] = "lksleep" THEN "acq" ELSE pc[q]] EXCEPT ![p] = "rel"]
  <2>1. buf' = [buf EXCEPT ![b].lock = None] BY <1>2 DEF releasesleep
  <2>2. pc' = [Woken(pc, b, [lksleep |-> "acq"]) EXCEPT ![p] = "rel"] BY <1>2 DEF releasesleep
  <2>3. Woken(pc, b, [lksleep |-> "acq"]) = [q \in Procs |-> IF cur[q] = b /\ pc[q] = "lksleep" THEN "acq" ELSE pc[q]]
    BY WokenIs
  <2> QED BY <2>1, <2>2, <2>3, Zenon
<1>4. \A q \in Procs : pc'[q] = IF q = p THEN "rel" ELSE IF cur[q] = b /\ pc[q] = "lksleep" THEN "acq" ELSE pc[q]
  BY <1>3
<1>5. pc' \in [Procs -> Locs] BY <1>3 DEF DiskInv, DiskTypeOK, Locs
<1>6. /\ \A c \in Bufs \ {b} : buf'[c] = buf[c]
      /\ buf'[b].lock = None
      /\ \A c \in Bufs : /\ buf'[c].blockno = buf[c].blockno /\ buf'[c].valid = buf[c].valid /\ buf'[c].dirty = buf[c].dirty
                         /\ buf'[c].refcnt = buf[c].refcnt /\ buf'[c].data = buf[c].data
  BY <1>3 DEF DiskTypeOK, Buffers, DiskInv
<1>7. DiskTypeOK'
  <2>1. buf[b] \in Buffers BY BufFields DEF DiskInv
  <2>2. [buf[b] EXCEPT !.lock = None] \in Buffers BY <2>1 DEF Buffers
  <2>3. buf' \in [Bufs -> Buffers] BY <1>3, <2>2 DEF DiskTypeOK, DiskInv
  <2>4. seen' \in [Procs -> Values \cup {Nothing}] BY <1>1 DEF DiskTypeOK, DiskInv
  <2> QED BY <1>1, <1>5, <2>3, <2>4 DEF DiskTypeOK, DiskInv
<1>8. MruInv' /\ CountInv' BY <1>1, <1>6, SameUsers
<1>9. PanicInv' BY <1>1, <1>6 DEF PanicInv, DiskInv
<1>10. NameInv'
  <2>1. \A q \in Procs : cur'[q] = None <=> pc'[q] = "user" BY <1>1, <1>4 DEF NameInv, DiskInv
  <2>2. \A q \in Procs : pc'[q] # "user" => buf'[cur'[q]].blockno # NoBlock
    <3>1. \A q \in Procs : pc'[q] # "user" => pc[q] # "user" BY <1>1, <1>4
    <3> QED BY <1>1, <1>6, <3>1, HasBuffer
  <2> QED BY <1>6, <2>1, <2>2 DEF NameInv, DiskInv
<1>11. LockInv'
  <2>1. ASSUME NEW c \in Bufs, NEW q \in Procs PROVE buf'[c].lock = q <=> (cur'[q] = c /\ pc'[q] \in Holding)
    <3>0. buf[c].lock = q <=> (cur[q] = c /\ pc[q] \in Holding) BY DEF DiskInv, LockInv
    <3>1. q # p => (pc'[q] \in Holding <=> pc[q] \in Holding) BY <1>4 DEF Holding, Asleep
    <3>2. pc'[p] \notin Holding /\ pc[p] \in Holding BY <1>1, <1>4 DEF Holding, Asleep
    <3>3. buf[b].lock = p BY <3>2, <1>2 DEF DiskInv, LockInv
    <3>4. CASE c = b BY <1>1, <1>2, <1>6, <3>0, <3>1, <3>2, <3>3, <3>4
    <3>5. CASE c # b BY <1>1, <1>2, <1>6, <3>0, <3>1, <3>2, <3>5
    <3> QED BY <3>4, <3>5
  <2> QED BY <2>1 DEF LockInv
<1>12. FlagInv'
  <2>1. \A q \in Procs : pc[q] # "user" => cur[q] \in Bufs BY HasBuffer
  <2> QED BY <1>1, <1>4, <1>6, <2>1, ZenonT(60) DEF FlagInv, DiskInv
<1>13. QueueInv' BY <1>1, <1>4, SameRequests DEF Asleep
<1>14. DeviceInv' BY <1>1, <1>6, SameCommand DEF CommandFor
<1>15. CleanInv' BY <1>1, <1>6 DEF CleanInv, DiskInv
<1> QED BY <1>2, <1>4, <1>7, <1>8, <1>9, <1>10, <1>11, <1>12, <1>13, <1>14, <1>15 DEF DiskInv

(* The list keeps its buffers when one goes to its head. *)
LEMMA FrontKeeps ==
  ASSUME DiskTypeOK, MruInv, NEW b \in Bufs
  PROVE  ToFront(b) \in [Bufs -> Bufs] /\ \A c \in Bufs : \E i \in Bufs : ToFront(b)[i] = c
<1>1. PICK at : at = CHOOSE i \in Bufs : mru[i] = b OBVIOUS
<1>2. at \in Bufs /\ mru[at] = b BY <1>1 DEF MruInv
<1>3. ToFront(b) = [i \in Bufs |-> IF i = 1 THEN b ELSE IF i <= at THEN mru[i - 1] ELSE mru[i]] BY <1>1 DEF ToFront
<1>4. 1 \in Bufs /\ at \in Nat BY <1>2, Constants DEF Bufs
<1>5. \A i \in Bufs : i # 1 /\ i <= at => i - 1 \in Bufs BY <1>2, Constants DEF Bufs
<1>6. ToFront(b) \in [Bufs -> Bufs] BY <1>3, <1>5 DEF DiskTypeOK
<1>7. ASSUME NEW c \in Bufs PROVE \E i \in Bufs : ToFront(b)[i] = c
  <2>1. PICK j \in Bufs : mru[j] = c BY DEF MruInv
  <2>2. CASE c = b BY <1>3, <1>4, <2>2
  <2>3. CASE c # b /\ j < at
    <3>1. j + 1 \in Bufs /\ j + 1 # 1 /\ j + 1 <= at /\ (j + 1) - 1 = j BY <1>2, <2>3, Constants DEF Bufs
    <3>2. ToFront(b)[j + 1] = mru[(j + 1) - 1] BY <3>1, <1>3
    <3> QED BY <3>1, <3>2, <2>1
  <2>4. CASE c # b /\ j > at
    <3>1. j # 1 /\ ~(j <= at) BY <1>2, <2>4 DEF Bufs
    <3>2. ToFront(b)[j] = mru[j] BY <3>1, <1>3
    <3> QED BY <3>2, <2>1
  <2>5. j # at \/ c = b BY <2>1, <1>2
  <2>6. c # b => j < at \/ j > at BY <2>5, <1>2 DEF Bufs
  <2> QED BY <2>2, <2>3, <2>4, <2>6
<1> QED BY <1>6, <1>7

(* brelse() gives up the buffer, and moves it to the front if it is        *)
(* unused.                                                                 *)
LEMMA BrelseInv ==
  ASSUME DiskInv, NEW p \in Procs, brelse(p), ~panic
  PROVE  DiskInv'
<1> USE Constants
<1>1. /\ pc[p] = "rel" /\ UNCHANGED <<idequeue, store, device, irq, seen, panic>>
      /\ cur' = [cur EXCEPT ![p] = None] /\ pc' = [pc EXCEPT ![p] = "user"]
  BY DEF brelse
<1>2. PICK b \in Bufs : b = cur[p] BY <1>1, HasBuffer
<1>3. /\ buf' = [buf EXCEPT ![b].refcnt = buf[b].refcnt - 1]
      /\ mru' = mru \/ mru' = ToFront(b)
  BY <1>2 DEF brelse, RefcntDown
<1>4. /\ buf[b].refcnt - 1 \in Nat
      /\ \A c \in Bufs : Cardinality(Users(c)') = IF c = b THEN buf[b].refcnt - 1 ELSE buf[c].refcnt
  BY <1>1, <1>2, UserLeaves DEF DiskInv
<1>5. /\ buf'[b].refcnt = buf[b].refcnt - 1 /\ \A c \in Bufs \ {b} : buf'[c] = buf[c]
      /\ \A c \in Bufs : /\ buf'[c].blockno = buf[c].blockno /\ buf'[c].valid = buf[c].valid /\ buf'[c].dirty = buf[c].dirty
                         /\ buf'[c].lock = buf[c].lock /\ buf'[c].data = buf[c].data
  BY <1>3 DEF DiskTypeOK, Buffers, DiskInv
<1>6. mru' \in [Bufs -> Bufs] /\ MruInv'
  <2>1. CASE mru' = mru BY <2>1 DEF DiskInv, DiskTypeOK, MruInv
  <2>2. CASE mru' = ToFront(b)
    <3>1. ToFront(b) \in [Bufs -> Bufs] /\ \A c \in Bufs : \E i \in Bufs : ToFront(b)[i] = c BY FrontKeeps DEF DiskInv
    <3> QED BY <2>2, <3>1 DEF MruInv
  <2> QED BY <1>3, <2>1, <2>2
<1>7. DiskTypeOK'
  <2>1. buf[b] \in Buffers BY BufFields DEF DiskInv
  <2>2. [buf[b] EXCEPT !.refcnt = buf[b].refcnt - 1] \in Buffers BY <1>4, <2>1 DEF Buffers
  <2>3. buf' \in [Bufs -> Buffers] BY <1>3, <2>2 DEF DiskTypeOK, DiskInv
  <2>4. pc' \in [Procs -> Locs] /\ cur' \in [Procs -> Bufs \cup {None}] BY <1>1 DEF DiskTypeOK, DiskInv, Locs
  <2> QED BY <1>1, <1>6, <2>3, <2>4 DEF DiskTypeOK, DiskInv
<1>8. CountInv' BY <1>4, <1>5 DEF CountInv, Users
<1>9. PanicInv' BY <1>1 DEF PanicInv
<1>10. pc'[p] = "user" /\ cur'[p] = None /\ \A q \in Procs \ {p} : pc'[q] = pc[q] /\ cur'[q] = cur[q]
  BY <1>1 DEF DiskInv, DiskTypeOK
<1>11. \A q \in Procs : pc[q] # "user" => cur[q] \in Bufs BY HasBuffer
<1>12. NameInv'
  <2>1. \A q \in Procs : cur'[q] = None <=> pc'[q] = "user" BY <1>10 DEF NameInv, DiskInv
  <2>2. ASSUME NEW q \in Procs, pc'[q] # "user" PROVE buf'[cur'[q]].blockno # NoBlock
    <3>1. q # p /\ cur'[q] = cur[q] /\ pc[q] # "user" BY <1>10, <2>2
    <3>2. cur[q] \in Bufs BY <1>11, <3>1
    <3>3. buf'[cur[q]].blockno = buf[cur[q]].blockno BY <1>5, <3>2
    <3>4. buf[cur[q]].blockno # NoBlock BY <3>1 DEF NameInv, DiskInv
    <3> QED BY <3>1, <3>3, <3>4
  <2> QED BY <1>5, <2>1, <2>2 DEF NameInv, DiskInv
<1>13. LockInv' BY <1>1, <1>5, <1>10 DEF LockInv, DiskInv, Holding, Asleep
<1>14. FlagInv'
  <2>1. \A q \in Procs \ {p} : pc[q] # "user" => /\ buf'[cur[q]].valid = buf[cur[q]].valid
                                                /\ buf'[cur[q]].dirty = buf[cur[q]].dirty
    BY <1>5, <1>11
  <2> QED BY <1>10, <2>1 DEF FlagInv, DiskInv
<1>15. QueueInv' BY <1>1, <1>10, SameRequests DEF Asleep
<1>16. DeviceInv' BY <1>1, <1>5, SameCommand DEF CommandFor
<1>17. CleanInv' BY <1>1, <1>5, SameClean DEF DiskInv
<1> QED BY <1>6, <1>7, <1>8, <1>9, <1>12, <1>13, <1>14, <1>15, <1>16, <1>17 DEF DiskInv

-----------------------------------------------------------------------------
(* The disk and its interrupt. *)
LEMMA FirstRequest ==
  ASSUME DiskInv, idequeue # <<>>
  PROVE  \E h \in Bufs, p \in Procs :
           /\ h = Head(idequeue) /\ cur[p] = h /\ pc[p] \in Asleep /\ buf[h].lock = p /\ buf[h].blockno \in Blocks
           /\ device = CommandFor(buf[h]) /\ device # NoCommand
           /\ (pc[p] = "rsleep" => ~buf[h].valid /\ ~buf[h].dirty) /\ (pc[p] = "wsleep" => buf[h].valid /\ buf[h].dirty)
           /\ \A q \in Procs : cur[q] = h /\ pc[q] \in Asleep => q = p
<1>1. PICK h \in Bufs, p \in Procs : h = Head(idequeue) /\ cur[p] = h /\ pc[p] \in Asleep BY FirstQueued
<1>2. buf[h].blockno \in Blocks BY <1>1, HasBuffer DEF Asleep
<1>3. \A q \in Procs : cur[q] = h /\ pc[q] \in Asleep => buf[h].lock = q BY DEF DiskInv, LockInv, Holding
<1>4. device = CommandFor(buf[h]) BY <1>1 DEF DiskInv, DeviceInv
<1>5. device # NoCommand
  <2>1. device.blockno = buf[h].blockno BY <1>4 DEF CommandFor
  <2>2. NoCommand.blockno = NoBlock BY DEF NoCommand
  <2> QED BY <1>2, <2>1, <2>2, Constants
<1>6. (pc[p] = "rsleep" => ~buf[h].valid) /\ (pc[p] = "wsleep" => buf[h].dirty) BY <1>1 DEF DiskInv, FlagInv
<1>7. buf[h].dirty => buf[h].valid BY DEF DiskInv, NameInv
<1> QED BY <1>1, <1>2, <1>3, <1>4, <1>5, <1>6, <1>7

(* The disk carries out the command it has, and nothing else. *)
LEMMA DeviceDoneInv ==
  ASSUME DiskInv, DeviceDone
  PROVE  /\ DiskInv'
         /\ store' = store \/ \E h \in Bufs : buf[h].valid /\ store' = [store EXCEPT ![buf[h].blockno] = buf[h].data]
<1> USE Constants
<1>1. /\ device # NoCommand /\ irq' = TRUE /\ UNCHANGED <<buf, mru, idequeue, device, pc, cur, seen, panic>>
      /\ store' = IF device.write THEN [store EXCEPT ![device.blockno] = device.data] ELSE store
  BY DEF DeviceDone
<1>2. idequeue # <<>> BY <1>1 DEF DiskInv, DeviceInv
<1>3. PICK h \in Bufs, p \in Procs :
           /\ h = Head(idequeue) /\ cur[p] = h /\ pc[p] \in Asleep /\ buf[h].lock = p /\ buf[h].blockno \in Blocks
           /\ device = CommandFor(buf[h])
           /\ (pc[p] = "rsleep" => ~buf[h].valid /\ ~buf[h].dirty) /\ (pc[p] = "wsleep" => buf[h].valid /\ buf[h].dirty)
  BY <1>2, FirstRequest
<1>4. /\ device.blockno = buf[h].blockno /\ device.write = buf[h].dirty
      /\ buf[h].dirty => device.data = buf[h].data
  BY <1>3 DEF CommandFor
<1>5. buf[h].data \in Values BY BufFields DEF DiskInv
<1>6. store' = IF buf[h].dirty THEN [store EXCEPT ![buf[h].blockno] = buf[h].data] ELSE store BY <1>1, <1>4
<1>7. store' \in [Blocks -> Values] BY <1>3, <1>5, <1>6 DEF DiskInv, DiskTypeOK
<1>8. DiskTypeOK' BY <1>1, <1>7 DEF DiskInv, DiskTypeOK
<1>9. MruInv' /\ CountInv' /\ PanicInv' BY <1>1 DEF DiskInv, MruInv, CountInv, PanicInv
<1>10. NameInv' /\ LockInv' /\ FlagInv' BY <1>1 DEF DiskInv, NameInv, LockInv, FlagInv
<1>11. QueueInv' BY <1>1, SameRequests
<1>12. DeviceInv'
  <2>1. buf[h].dirty => store'[buf[h].blockno] = buf[h].data BY <1>3, <1>6 DEF DiskInv, DiskTypeOK
  <2> QED BY <1>1, <1>2, <1>4, <2>1 DEF DiskInv, DeviceInv
<1>13. CleanInv'
  <2>1. ASSUME NEW c \in Bufs, buf[c].valid, ~buf[c].dirty PROVE buf[c].data = store'[buf[c].blockno]
    <3>1. buf[c].data = store[buf[c].blockno] BY <2>1 DEF DiskInv, CleanInv
    <3>2. buf[c].blockno \in Blocks BY <2>1, BufFields DEF DiskInv, NameInv
    <3>3. buf[h].dirty => buf[c].blockno # buf[h].blockno BY <2>1, <3>2 DEF DiskInv, NameInv
    <3> QED BY <1>6, <3>1, <3>2, <3>3 DEF DiskInv, DiskTypeOK
  <2> QED BY <1>1, <2>1 DEF CleanInv
<1>14. buf[h].dirty => buf[h].valid BY DEF DiskInv, NameInv
<1> QED BY <1>6, <1>8, <1>9, <1>10, <1>11, <1>12, <1>13, <1>14 DEF DiskInv

(* What ideintr() does to the first buffer of the queue. *)
LEMMA InterruptDoes ==
  ASSUME DiskInv, ideintr
  PROVE  \E h \in Bufs, p \in Procs :
           /\ h = Head(idequeue) /\ cur[p] = h /\ pc[p] \in Asleep /\ buf[h].blockno \in Blocks
           /\ (pc[p] = "rsleep" => ~buf[h].valid /\ ~buf[h].dirty) /\ (pc[p] = "wsleep" => buf[h].valid /\ buf[h].dirty)
           /\ buf[h].dirty => store[buf[h].blockno] = buf[h].data
           /\ buf' = [buf EXCEPT ![h] = [@ EXCEPT !.data = store[buf[h].blockno], !.valid = TRUE, !.dirty = FALSE]]
           /\ pc' = [pc EXCEPT ![p] = IF @ = "rsleep" THEN "rwoken" ELSE "wwoken"]
           /\ buf[h].lock = p
<1>0. idequeue # <<>> /\ irq BY DEF ideintr
<1>1. PICK h \in Bufs, p \in Procs :
           /\ h = Head(idequeue) /\ cur[p] = h /\ pc[p] \in Asleep /\ buf[h].lock = p /\ buf[h].blockno \in Blocks
           /\ device = CommandFor(buf[h])
           /\ (pc[p] = "rsleep" => ~buf[h].valid /\ ~buf[h].dirty) /\ (pc[p] = "wsleep" => buf[h].valid /\ buf[h].dirty)
           /\ \A q \in Procs : cur[q] = h /\ pc[q] \in Asleep => q = p
  BY <1>0, FirstRequest
<1>2. device.blockno = buf[h].blockno /\ device.write = buf[h].dirty /\ (buf[h].dirty => device.data = buf[h].data)
  BY <1>1 DEF CommandFor
<1>3. buf[h].dirty => store[buf[h].blockno] = buf[h].data BY <1>0, <1>2 DEF DiskInv, DeviceInv
<1>4. buf' = [buf EXCEPT ![h] = [@ EXCEPT !.data = store[buf[h].blockno], !.valid = TRUE, !.dirty = FALSE]]
  <2>1. buf' = [buf EXCEPT ![h] = [buf[h] EXCEPT !.data = IF buf[h].dirty THEN buf[h].data ELSE store[buf[h].blockno],
                                                 !.valid = TRUE, !.dirty = FALSE]]
    <3>1. buf' = [buf EXCEPT ![h] = [buf[h] EXCEPT !.data = IF buf[h].dirty THEN buf[h].data ELSE store[device.blockno],
                                                   !.valid = TRUE, !.dirty = FALSE]]
      BY <1>1 DEF ideintr
    <3> QED BY <3>1, <1>2
  <2>2. (IF buf[h].dirty THEN buf[h].data ELSE store[buf[h].blockno]) = store[buf[h].blockno] BY <1>3
  <2> QED BY <2>1, <2>2
<1>5. pc' = [pc EXCEPT ![p] = IF @ = "rsleep" THEN "rwoken" ELSE "wwoken"]
  <2>1. pc' = [q \in Procs |-> IF cur[q] = h /\ pc[q] = "rsleep" THEN "rwoken"
                               ELSE IF cur[q] = h /\ pc[q] = "wsleep" THEN "wwoken" ELSE pc[q]]
    <3>1. pc' = Woken(pc, h, [rsleep |-> "rwoken", wsleep |-> "wwoken"]) BY <1>1 DEF ideintr
    <3>2. Woken(pc, h, [rsleep |-> "rwoken", wsleep |-> "wwoken"])
              = [q \in Procs |-> IF cur[q] = h /\ pc[q] = "rsleep" THEN "rwoken"
                                 ELSE IF cur[q] = h /\ pc[q] = "wsleep" THEN "wwoken" ELSE pc[q]]
      BY WokenIs
    <3> QED BY <3>1, <3>2
  <2> QED BY <2>1, <1>1 DEF Asleep, DiskInv, DiskTypeOK
<1> QED BY <1>1, <1>3, <1>4, <1>5

(* ideintr() ends the first request and starts the next. *)
LEMMA IdeintrInv ==
  ASSUME DiskInv, ideintr
  PROVE  DiskInv'
<1> USE Constants
<1>0. /\ irq /\ idequeue # <<>> /\ idequeue' = Tail(idequeue) /\ UNCHANGED <<mru, store, cur, seen, panic>> /\ NextRequest
  BY DEF ideintr
<1>1. PICK h \in Bufs, p \in Procs :
           /\ h = Head(idequeue) /\ cur[p] = h /\ pc[p] \in Asleep /\ buf[h].blockno \in Blocks
           /\ (pc[p] = "rsleep" => ~buf[h].valid /\ ~buf[h].dirty) /\ (pc[p] = "wsleep" => buf[h].valid /\ buf[h].dirty)
           /\ buf[h].dirty => store[buf[h].blockno] = buf[h].data
           /\ buf' = [buf EXCEPT ![h] = [@ EXCEPT !.data = store[buf[h].blockno], !.valid = TRUE, !.dirty = FALSE]]
           /\ pc' = [pc EXCEPT ![p] = IF @ = "rsleep" THEN "rwoken" ELSE "wwoken"]
           /\ buf[h].lock = p
  BY InterruptDoes
<1>2. /\ \A c \in Bufs \ {h} : buf'[c] = buf[c]
      /\ \A c \in Bufs : /\ buf'[c].blockno = buf[c].blockno /\ buf'[c].refcnt = buf[c].refcnt /\ buf'[c].lock = buf[c].lock
      /\ ~buf'[h].dirty /\ buf'[h].valid /\ buf'[h].data = store[buf[h].blockno]
  BY <1>1 DEF DiskInv, DiskTypeOK, Buffers
<1>3. pc'[p] \in {"rwoken", "wwoken"} /\ \A q \in Procs \ {p} : pc'[q] = pc[q] BY <1>1 DEF DiskInv, DiskTypeOK
<1>4. /\ Tail(idequeue) \in Seq(Bufs) /\ Len(idequeue) \in Nat \ {0} /\ Len(Tail(idequeue)) = Len(idequeue) - 1
      /\ idequeue[1] = h
  BY <1>0, <1>1 DEF DiskInv, DiskTypeOK
<1>5. ASSUME NEW i \in 1 .. Len(idequeue') PROVE i + 1 \in 1 .. Len(idequeue) /\ idequeue'[i] = idequeue[i + 1] /\ i + 1 # 1
  <2>1. i + 1 \in 1 .. Len(idequeue) /\ i + 1 # 1 BY <1>0, <1>4
  <2>2. idequeue \in Seq(Bufs) BY DEF DiskInv, DiskTypeOK
  <2>3. idequeue'[i] = idequeue[i + 1] BY <1>0, <1>4, <2>2
  <2> QED BY <2>1, <2>3
<1>6. irq' = FALSE BY <1>0 DEF NextRequest, idestart
<1>7. DiskTypeOK'
  <2>1. buf[h] \in Buffers BY BufFields DEF DiskInv
  <2>2. store[buf[h].blockno] \in Values BY <1>1 DEF DiskInv, DiskTypeOK
  <2>3. [buf[h] EXCEPT !.data = store[buf[h].blockno], !.valid = TRUE, !.dirty = FALSE] \in Buffers BY <2>1, <2>2 DEF Buffers
  <2>4. buf' \in [Bufs -> Buffers] BY <1>1, <2>3 DEF DiskTypeOK, DiskInv
  <2>5. pc' \in [Procs -> Locs] BY <1>1 DEF DiskTypeOK, DiskInv, Locs, Holding
  <2> QED BY <1>0, <1>4, <1>6, <2>4, <2>5 DEF DiskTypeOK, DiskInv
<1>8. MruInv' /\ CountInv' BY <1>0, <1>2, SameUsers
<1>9. PanicInv' BY <1>0, <1>1, <1>2 DEF PanicInv, DiskInv
<1>10. NameInv'
  <2>1. \A q \in Procs : pc'[q] # "user" <=> pc[q] # "user" BY <1>1, <1>3 DEF Asleep
  <2>2. \A q \in Procs : cur'[q] = None <=> pc'[q] = "user" BY <1>0, <2>1 DEF NameInv, DiskInv
  <2>3. \A q \in Procs : pc'[q] # "user" => buf'[cur'[q]].blockno # NoBlock BY <1>0, <1>2, <2>1, HasBuffer
  <2> QED BY <1>1, <1>2, <2>2, <2>3 DEF NameInv, DiskInv
<1>11. LockInv'
  <2>1. \A q \in Procs : pc'[q] \in Holding <=> pc[q] \in Holding BY <1>1, <1>3 DEF Holding
  <2>2. ASSUME NEW c \in Bufs, NEW q \in Procs PROVE buf'[c].lock = q <=> (cur'[q] = c /\ pc'[q] \in Holding)
    <3>1. buf[c].lock = q <=> (cur[q] = c /\ pc[q] \in Holding) BY DEF DiskInv, LockInv
    <3> QED BY <3>1, <1>0, <1>2, <2>1
  <2> QED BY <2>2 DEF LockInv
<1>12. \A q \in Procs \ {p} : pc[q] \in Holding => cur[q] \in Bufs \ {h} /\ buf'[cur[q]] = buf[cur[q]]
  <2>1. \A q \in Procs : pc[q] \in Holding => cur[q] \in Bufs BY HasBuffer DEF Holding, Asleep
  <2>2. \A q \in Procs \ {p} : pc[q] \in Holding => cur[q] # h BY <1>1 DEF DiskInv, LockInv
  <2> QED BY <1>2, <2>1, <2>2
<1>13. FlagInv' BY <1>0, <1>1, <1>2, <1>3, <1>12 DEF FlagInv, DiskInv, Holding, Asleep
<1>14. ASSUME NEW c \in Bufs PROVE Queued(c)' <=> Queued(c) /\ c # h
  <2>1. ASSUME Queued(c)' PROVE Queued(c) /\ c # h
    <3>1. PICK i \in 1 .. Len(idequeue') : idequeue'[i] = c BY <2>1 DEF Queued
    <3>2. i + 1 \in 1 .. Len(idequeue) /\ idequeue[i + 1] = c /\ i + 1 # 1 BY <3>1, <1>5
    <3>3. 1 \in 1 .. Len(idequeue) BY <1>4
    <3>4. c # h BY <3>2, <3>3, <1>4 DEF DiskInv, QueueInv
    <3> QED BY <3>2, <3>4 DEF Queued
  <2>2. ASSUME Queued(c), c # h PROVE Queued(c)'
    <3>1. PICK i \in 1 .. Len(idequeue) : idequeue[i] = c BY <2>2 DEF Queued
    <3>2. i # 1 BY <3>1, <2>2, <1>4
    <3>3. i - 1 \in 1 .. Len(idequeue') /\ (i - 1) + 1 = i BY <3>1, <3>2, <1>0, <1>4
    <3>4. idequeue'[i - 1] = c BY <3>1, <3>3, <1>5
    <3> QED BY <3>3, <3>4 DEF Queued
  <2> QED BY <2>1, <2>2
<1>15. QueueInv'
  <2>1. ASSUME NEW i \in 1 .. Len(idequeue'), NEW j \in 1 .. Len(idequeue'), idequeue'[i] = idequeue'[j] PROVE i = j
    <3>0. i + 1 \in 1 .. Len(idequeue) /\ j + 1 \in 1 .. Len(idequeue) /\ idequeue[i + 1] = idequeue[j + 1]
      BY <2>1, <1>5
    <3>1. i + 1 = j + 1 BY <3>0 DEF DiskInv, QueueInv
    <3> QED BY <3>1, <1>0, <1>4
  <2>2. ASSUME NEW q \in Procs, pc'[q] \in Asleep PROVE Queued(cur[q])'
    <3>1. q # p /\ pc[q] \in Asleep BY <2>2, <1>3 DEF Asleep
    <3>2. PICK c \in Bufs : c = cur[q] /\ c = cur'[q] /\ c # h BY <3>1, <1>0, <1>12 DEF Holding
    <3>3. Queued(c) BY <3>1, <3>2 DEF DiskInv, QueueInv
    <3> QED BY <3>2, <3>3, <1>14
  <2>3. ASSUME NEW c \in Bufs, Queued(c)' PROVE \E q \in Procs : cur'[q] = c /\ pc'[q] \in Asleep
    <3>1. PICK q \in Procs : cur[q] = c /\ pc[q] \in Asleep BY <2>3, <1>14 DEF DiskInv, QueueInv
    <3>2. q # p BY <3>1, <2>3, <1>14, <1>1
    <3> QED BY <3>1, <3>2, <1>0, <1>3
  <2> QED BY <2>1, <2>2, <2>3 DEF QueueInv
<1>16. DeviceInv'
  <2>1. CASE idequeue' = <<>> BY <2>1, <1>0, <1>6 DEF NextRequest, DeviceInv
  <2>2. CASE idequeue' # <<>>
    <3>1. PICK g : g = Head(idequeue') /\ g = Head(Tail(idequeue)) BY <1>0
    <3>2. g \in Bufs /\ g = idequeue'[1] /\ Len(idequeue') \in Nat \ {0} BY <2>2, <3>1, <1>0, <1>4
    <3>3. 1 \in 1 .. Len(idequeue') BY <3>2
    <3>4. Queued(g)' BY <3>2, <3>3 DEF Queued
    <3>5. g # h BY <3>2, <3>4, <1>14
    <3>6. device' = CommandFor(buf[g]) BY <2>2, <3>1, <1>0 DEF NextRequest, idestart, CommandFor
    <3> QED BY <2>2, <3>1, <3>2, <3>5, <3>6, <1>2, <1>6 DEF DeviceInv
  <2> QED BY <2>1, <2>2
<1>17. CleanInv'
  <2>1. ASSUME NEW c \in Bufs, buf'[c].valid, ~buf'[c].dirty PROVE buf'[c].data = store'[buf'[c].blockno]
    <3>1. CASE c = h BY <3>1, <1>0, <1>2
    <3>2. CASE c # h BY <2>1, <3>2, <1>0, <1>2 DEF DiskInv, CleanInv
    <3> QED BY <3>1, <3>2
  <2> QED BY <2>1 DEF CleanInv
<1> QED BY <1>7, <1>8, <1>9, <1>10, <1>11, <1>13, <1>15, <1>16, <1>17 DEF DiskInv

(* The invariant holds in every reachable state. *)
LEMMA DiskAlways == Spec => []DiskInv
<1>1. ASSUME DiskInv, [Next]_vars PROVE DiskInv'
  <2>1. CASE UNCHANGED vars
    <3>1. DiskTypeOK' /\ MruInv' /\ CountInv' /\ PanicInv'
      BY <1>1, <2>1 DEF vars, DiskInv, DiskTypeOK, MruInv, CountInv, PanicInv
    <3>2. NameInv' /\ LockInv' /\ FlagInv' BY <1>1, <2>1 DEF vars, DiskInv, NameInv, LockInv, FlagInv
    <3>3. QueueInv' /\ DeviceInv' BY <1>1, <2>1 DEF vars, DiskInv, QueueInv, Queued, DeviceInv, CommandFor
    <3>4. CleanInv' BY <1>1, <2>1 DEF vars, DiskInv, CleanInv
    <3> QED BY <3>1, <3>2, <3>3, <3>4 DEF DiskInv
  <2>2. CASE Running
    <3>1. ASSUME NEW p \in Procs, Client(p) PROVE DiskInv'
      BY <1>1, <2>2, <3>1, HitInv, RecycleInv, PanicStep, BwriteInv, PinInv DEF Client, Running
    <3>2. ASSUME NEW p \in Procs, Inside(p) PROVE DiskInv'
      BY <1>1, <2>2, <3>2, AcquireInv, BreadInv, IoWokenInv, ReleaseInv, BrelseInv DEF Inside, Running
    <3> QED BY <1>1, <2>2, <3>1, <3>2, DeviceDoneInv, IdeintrInv DEF Running
  <2> QED BY <1>1, <2>1, <2>2 DEF Next, Stopped
<1> QED BY <1>1, InitInv, PTL DEF Spec

(* bget() finds no buffer only if each is in use by a process or kept for  *)
(* the log: BuffersSuffice, for any number of buffers and processes.       *)
THEOREM BuffersSufficeHolds == Spec => []BuffersSuffice
<1>1. DiskInv => BuffersSuffice
  <2> SUFFICES ASSUME DiskInv PROVE BuffersSuffice OBVIOUS
  <2>1. ToSet(mru) = {mru[i] : i \in Bufs} BY DEF ToSet, DiskInv, DiskTypeOK
  <2>2. ToSet(mru) = Bufs BY <2>1 DEF DiskInv, DiskTypeOK, MruInv
  <2> QED BY <2>2 DEF BuffersSuffice, DiskInv, PanicInv
<1> QED BY <1>1, DiskAlways, PTL

(* The disk works on the first request of the queue, and each request has  *)
(* its process asleep on it: RequestsMatch.                                *)
THEOREM RequestsMatchHolds == Spec => []RequestsMatch
<1>1. DiskInv => RequestsMatch
  <2> SUFFICES ASSUME DiskInv PROVE RequestsMatch OBVIOUS
  <2>1. idequeue = <<>> <=> device = NoCommand BY FirstRequest DEF DiskInv, DeviceInv
  <2>2. idequeue # <<>> => device.blockno = buf[Head(idequeue)].blockno BY DEF DiskInv, DeviceInv, CommandFor
  <2>3. ASSUME NEW p \in Procs
        PROVE  pc[p] \in Asleep <=> cur[p] \in ToSet(idequeue) /\ buf[cur[p]].lock = p
    <3>0. DOMAIN idequeue = 1 .. Len(idequeue) /\ idequeue \in Seq(Bufs) BY DEF DiskInv, DiskTypeOK
    <3>1. cur[p] \in ToSet(idequeue) <=> Queued(cur[p]) BY <3>0 DEF ToSet, Queued
    <3>2. Queued(cur[p]) => cur[p] \in Bufs BY <3>0 DEF Queued
    <3>3. pc[p] \in Asleep => cur[p] \in Bufs /\ Queued(cur[p]) /\ buf[cur[p]].lock = p
      <4>1. pc[p] \in Asleep => cur[p] \in Bufs BY HasBuffer DEF Asleep
      <4> QED BY <4>1 DEF DiskInv, QueueInv, LockInv, Holding
    <3>4. ASSUME Queued(cur[p]), buf[cur[p]].lock = p PROVE pc[p] \in Asleep
      <4>1. PICK q \in Procs : cur[q] = cur[p] /\ pc[q] \in Asleep BY <3>2, <3>4 DEF DiskInv, QueueInv
      <4>2. buf[cur[p]].lock = q BY <3>2, <3>4, <4>1 DEF DiskInv, LockInv, Holding
      <4> QED BY <3>4, <4>1, <4>2
    <3> QED BY <3>1, <3>3, <3>4
  <2> QED BY <2>1, <2>2, <2>3 DEF RequestsMatch, Asleep
<1> QED BY <1>1, DiskAlways, PTL

-----------------------------------------------------------------------------
(* The refinement.  What block k holds and who has it, of the buffers and  *)
(* the disk of one state.                                                  *)
Owning == {"have", "wsleep", "wwoken"}
ContentOf(bf, st, k) ==
    IF \E b \in Bufs : bf[b].blockno = k /\ bf[b].valid
      THEN bf[CHOOSE b \in Bufs : bf[b].blockno = k /\ bf[b].valid].data ELSE st[k]
FirstOwner(S) == IF S = {} THEN None ELSE CHOOSE p \in S : TRUE
Content(k) == ContentOf(buf, store, k)

(* A block is what its valid buffer holds, else what the disk holds. *)
LEMMA ContentIs ==
  ASSUME NEW bf, NEW st, NEW k, \A b, c \in Bufs : bf[b].blockno = k /\ bf[c].blockno = k => b = c
  PROVE  /\ \A b \in Bufs : bf[b].blockno = k /\ bf[b].valid => ContentOf(bf, st, k) = bf[b].data
         /\ (\A b \in Bufs : bf[b].blockno = k => ~bf[b].valid) => ContentOf(bf, st, k) = st[k]
<1>1. ASSUME NEW b \in Bufs, bf[b].blockno = k, bf[b].valid PROVE ContentOf(bf, st, k) = bf[b].data
  <2>1. PICK c : c = CHOOSE x \in Bufs : bf[x].blockno = k /\ bf[x].valid OBVIOUS
  <2>2. c \in Bufs /\ bf[c].blockno = k BY <1>1, <2>1
  <2>3. c = b BY <1>1, <2>2
  <2>4. ContentOf(bf, st, k) = bf[c].data BY <1>1, <2>1 DEF ContentOf
  <2> QED BY <2>3, <2>4
<1>2. (\A b \in Bufs : bf[b].blockno = k => ~bf[b].valid) => ContentOf(bf, st, k) = st[k] BY DEF ContentOf
<1> QED BY <1>1, <1>2

(* In terms of the state and of the next one. *)
LEMMA ContentNow ==
  ASSUME DiskInv, NEW k \in Blocks
  PROVE  /\ \A b \in Bufs : buf[b].blockno = k /\ buf[b].valid => Content(k) = buf[b].data
         /\ (\A b \in Bufs : buf[b].blockno = k => ~buf[b].valid) => Content(k) = store[k]
<1>1. PICK bf, st : bf = buf /\ st = store OBVIOUS
<1>2. \A b, c \in Bufs : bf[b].blockno = k /\ bf[c].blockno = k => b = c BY <1>1, Constants DEF DiskInv, NameInv
<1>3. Content(k) = ContentOf(bf, st, k) BY <1>1 DEF Content
<1>4. /\ \A b \in Bufs : bf[b].blockno = k /\ bf[b].valid => ContentOf(bf, st, k) = bf[b].data
      /\ (\A b \in Bufs : bf[b].blockno = k => ~bf[b].valid) => ContentOf(bf, st, k) = st[k]
  BY <1>2, ContentIs
<1> QED BY <1>1, <1>3, <1>4

(* The same in the next state. *)
LEMMA ContentThen ==
  ASSUME DiskInv', NEW k \in Blocks
  PROVE  /\ \A b \in Bufs : buf'[b].blockno = k /\ buf'[b].valid => Content(k)' = buf'[b].data
         /\ (\A b \in Bufs : buf'[b].blockno = k => ~buf'[b].valid) => Content(k)' = store'[k]
<1>1. PICK bf, st : bf = buf' /\ st = store' OBVIOUS
<1>2. \A b, c \in Bufs : bf[b].blockno = k /\ bf[c].blockno = k => b = c BY <1>1, Constants DEF DiskInv, NameInv
<1>3. Content(k)' = ContentOf(bf, st, k) BY <1>1 DEF Content
<1>4. /\ \A b \in Bufs : bf[b].blockno = k /\ bf[b].valid => ContentOf(bf, st, k) = bf[b].data
      /\ (\A b \in Bufs : bf[b].blockno = k => ~bf[b].valid) => ContentOf(bf, st, k) = st[k]
  BY <1>2, ContentIs
<1> QED BY <1>1, <1>3, <1>4

(* Blocks keep their content when buffers keep data, name and validity. *)
LEMMA SameContent ==
  ASSUME DiskInv, DiskInv', store' = store,
         \A b \in Bufs : buf'[b].blockno = buf[b].blockno /\ buf'[b].valid = buf[b].valid /\ buf'[b].data = buf[b].data
  PROVE  \A k \in Blocks : Content(k)' = Content(k)
<1>1. ASSUME NEW k \in Blocks PROVE Content(k)' = Content(k)
  <2>1. CASE \E b \in Bufs : buf[b].blockno = k /\ buf[b].valid
    <3>1. PICK b \in Bufs : buf[b].blockno = k /\ buf[b].valid BY <2>1
    <3>2. Content(k) = buf[b].data BY <3>1, ContentNow
    <3>3. Content(k)' = buf'[b].data BY <3>1, ContentThen
    <3> QED BY <3>2, <3>3
  <2>2. CASE \A b \in Bufs : buf[b].blockno = k => ~buf[b].valid
    <3>1. Content(k) = store[k] BY <2>2, ContentNow
    <3>2. Content(k)' = store'[k] BY <2>2, ContentThen
    <3> QED BY <3>1, <3>2
  <2> QED BY <2>1, <2>2
<1> QED BY <1>1

(* A block has at most one owner. *)
LEMMA SoleOwner ==
  ASSUME DiskInv, NEW p \in Procs, pc[p] \in Owning
  PROVE  /\ buf[cur[p]].blockno \in Blocks /\ OwnerOf(buf[cur[p]].blockno) = {p}
         /\ \A k \in Blocks : p \in OwnerOf(k) => k = buf[cur[p]].blockno
<1>1. \A q \in Procs : pc[q] \in Owning => pc[q] \in Holding /\ cur[q] \in Bufs /\ buf[cur[q]].blockno \in Blocks
  BY HasBuffer DEF Owning, Holding, Asleep
<1>2. ASSUME NEW q \in Procs, pc[q] \in Owning, buf[cur[q]].blockno = buf[cur[p]].blockno PROVE q = p
  <2>1. cur[q] = cur[p] BY <1>1, <1>2, Constants DEF DiskInv, NameInv
  <2>2. buf[cur[p]].lock = p /\ buf[cur[p]].lock = q BY <1>1, <1>2, <2>1 DEF DiskInv, LockInv
  <2> QED BY <2>2
<1> QED BY <1>1, <1>2 DEF OwnerOf, Owning

(* The owner of a block, when there is one or none. *)
LEMMA FirstOwnerIs ==
  ASSUME NEW S, NEW p
  PROVE  (S = {} => FirstOwner(S) = None) /\ (S = {p} => FirstOwner(S) = p)
BY DEF FirstOwner

(* An owner is one of those that hold the buffer. *)
LEMMA OwnerAmong ==
  ASSUME NEW k, FirstOwner(OwnerOf(k)) \in Procs
  PROVE  FirstOwner(OwnerOf(k)) \in OwnerOf(k)
BY Constants DEF FirstOwner

(* How changes of owners and content become steps of BlockStore. *)
LEMMA MapSteps ==
  /\ (\A k \in Blocks : OwnerOf(k)' = OwnerOf(k) /\ Content(k)' = Content(k)) /\ seen' = seen
       => UNCHANGED Store!vars
  /\ \A p \in Procs, j \in Blocks :
       /\ OwnerOf(j) = {} /\ OwnerOf(j)' = {p} /\ (\A k \in Blocks : p \notin OwnerOf(k))
       /\ (\A k \in Blocks \ {j} : OwnerOf(k)' = OwnerOf(k)) /\ (\A k \in Blocks : Content(k)' = Content(k))
       /\ seen' = [seen EXCEPT ![p] = Content(j)]
       => Store!Get(p, j)
  /\ \A p \in Procs, j \in Blocks, v \in Values :
       /\ OwnerOf(j) = {p} /\ (\A k \in Blocks : OwnerOf(k)' = OwnerOf(k)) /\ seen' = seen
       /\ (\A k \in Blocks : Content(k)' = IF k = j THEN v ELSE Content(k))
       => Store!Change(p, j, v)
  /\ \A p \in Procs, j \in Blocks :
       /\ OwnerOf(j) = {p} /\ OwnerOf(j)' = {} /\ seen' = [seen EXCEPT ![p] = Nothing]
       /\ (\A k \in Blocks \ {j} : OwnerOf(k)' = OwnerOf(k)) /\ (\A k \in Blocks : Content(k)' = Content(k))
       => Store!Put(p, j)
<1> DEFINE con == [k \in Blocks |-> Content(k)]
           own == [k \in Blocks |-> FirstOwner(OwnerOf(k))]
<1>0. ASSUME \A k \in Blocks : Content(k)' = Content(k) PROVE con' = con BY <1>0
<1>1. ASSUME \A k \in Blocks : OwnerOf(k)' = OwnerOf(k) PROVE own' = own BY <1>1
<1>2. (\A k \in Blocks : OwnerOf(k)' = OwnerOf(k) /\ Content(k)' = Content(k)) /\ seen' = seen => UNCHANGED Store!vars
  BY <1>0, <1>1 DEF Store!vars, Content, ContentOf, FirstOwner
<1>3. ASSUME NEW p \in Procs, NEW j \in Blocks,
             OwnerOf(j) = {}, OwnerOf(j)' = {p}, \A k \in Blocks : p \notin OwnerOf(k),
             \A k \in Blocks \ {j} : OwnerOf(k)' = OwnerOf(k), \A k \in Blocks : Content(k)' = Content(k),
             seen' = [seen EXCEPT ![p] = Content(j)]
      PROVE  Store!Get(p, j)
  <2>1. own[j] = None BY <1>3, FirstOwnerIs
  <2>2. \A k \in Blocks : own[k] # p BY <1>3, OwnerAmong
  <2>3. own' = [own EXCEPT ![j] = p]
    <3>1. FirstOwner({p}) = p BY FirstOwnerIs
    <3>2. FirstOwner(OwnerOf(j)') = p BY <1>3, <3>1
    <3> QED BY <1>3, <3>2
  <2>4. seen' = [seen EXCEPT ![p] = con[j]] BY <1>3
  <2>5. con' = con BY <1>0, <1>3
  <2> QED BY <2>1, <2>2, <2>3, <2>4, <2>5 DEF Store!Get, Content, ContentOf, FirstOwner
<1>4. ASSUME NEW p \in Procs, NEW j \in Blocks, NEW v \in Values,
             OwnerOf(j) = {p}, \A k \in Blocks : OwnerOf(k)' = OwnerOf(k), seen' = seen,
             \A k \in Blocks : Content(k)' = IF k = j THEN v ELSE Content(k)
      PROVE  Store!Change(p, j, v)
  <2>1. own[j] = p
    <3>1. FirstOwner({p}) = p BY FirstOwnerIs
    <3> QED BY <1>4, <3>1
  <2>2. con' = [con EXCEPT ![j] = v] BY <1>4
  <2>3. own' = own BY <1>1, <1>4
  <2> QED BY <1>4, <2>1, <2>2, <2>3 DEF Store!Change, Content, ContentOf, FirstOwner
<1>5. ASSUME NEW p \in Procs, NEW j \in Blocks,
             OwnerOf(j) = {p}, OwnerOf(j)' = {}, seen' = [seen EXCEPT ![p] = Nothing],
             \A k \in Blocks \ {j} : OwnerOf(k)' = OwnerOf(k), \A k \in Blocks : Content(k)' = Content(k)
      PROVE  Store!Put(p, j)
  <2>1. own[j] = p
    <3>1. FirstOwner({p}) = p BY FirstOwnerIs
    <3> QED BY <1>5, <3>1
  <2>2. own' = [own EXCEPT ![j] = None]
    <3>1. FirstOwner({}) = None BY FirstOwnerIs
    <3>2. FirstOwner(OwnerOf(j)') = None BY <1>5, <3>1
    <3> QED BY <1>5, <3>2
  <2>3. con' = con BY <1>0, <1>5
  <2> QED BY <1>5, <2>1, <2>2, <2>3 DEF Store!Put, Content, ContentOf, FirstOwner
<1> QED BY <1>2, <1>3, <1>4, <1>5

(* Owners stay when nobody gets or gives up a buffer. *)
LEMMA SameOwners ==
  ASSUME DiskInv, \A q \in Procs : pc'[q] \in Owning <=> pc[q] \in Owning,
         \A q \in Procs : pc[q] \in Owning => cur'[q] = cur[q] /\ buf'[cur[q]].blockno = buf[cur[q]].blockno
  PROVE  \A k \in Blocks : OwnerOf(k)' = OwnerOf(k)
BY DEF OwnerOf, Owning

(* The steps inside bget(), acquiresleep(), iderw() and brelse(). *)
Hidden == (\A k \in Blocks : OwnerOf(k)' = OwnerOf(k) /\ Content(k)' = Content(k)) /\ seen' = seen

(* Steps that BlockStore does not see. *)
LEMMA HiddenSteps ==
  ASSUME DiskInv, DiskInv', store' = store, seen' = seen,
         \A b \in Bufs : buf'[b].blockno = buf[b].blockno /\ buf'[b].valid = buf[b].valid /\ buf'[b].data = buf[b].data,
         \A q \in Procs : (pc'[q] \in Owning <=> pc[q] \in Owning) /\ (pc[q] \in Owning => cur'[q] = cur[q])
  PROVE  Hidden
<1>1. \A q \in Procs : pc[q] \in Owning => cur[q] \in Bufs BY HasBuffer DEF Owning
<1>2. \A k \in Blocks : OwnerOf(k)' = OwnerOf(k) BY <1>1, SameOwners
<1>3. \A k \in Blocks : Content(k)' = Content(k) BY SameContent
<1> QED BY <1>2, <1>3 DEF Hidden

(* Recycling is not seen: the buffer was clean, so the disk has its data. *)
LEMMA RecycleHidden ==
  ASSUME DiskInv, DiskInv', NEW p \in Procs, NEW k \in Blocks, bgetRecycle(p, k)
  PROVE  Hidden
<1> USE Constants
<1>0. PICK b \in Bufs : /\ buf[b].refcnt = 0 /\ ~buf[b].dirty /\ cur' = [cur EXCEPT ![p] = b]
                        /\ buf' = [buf EXCEPT ![b] = [@ EXCEPT !.blockno = k, !.valid = FALSE, !.dirty = FALSE, !.refcnt = 1]]
  BY RecycleFinds DEF bgetRecycle, DiskInv
<1>1. pc[p] = "user" /\ pc' = [pc EXCEPT ![p] = "acq"] /\ store' = store /\ seen' = seen BY DEF bgetRecycle
<1>2. /\ \A c \in Bufs \ {b} : buf'[c] = buf[c]
      /\ buf'[b].blockno = k /\ ~buf'[b].valid
  BY <1>0 DEF DiskTypeOK, Buffers, DiskInv
<1>3. \A q \in Procs : cur[q] # b BY <1>0, NoUsers DEF DiskInv
<1>4. \A c \in Bufs : buf[c].blockno # k
  <2>1. ASSUME NEW c \in Bufs PROVE buf[c].blockno # k
    <3>1. PICK i \in Bufs : mru[i] = c BY DEF DiskInv, MruInv
    <3> QED BY <3>1 DEF Cached, bgetRecycle
  <2> QED BY <2>1
<1>5. \A q \in Procs : pc'[q] \in Owning <=> pc[q] \in Owning BY <1>1 DEF DiskInv, DiskTypeOK, Owning
<1>6. \A q \in Procs : pc[q] \in Owning => cur'[q] = cur[q] /\ buf'[cur[q]].blockno = buf[cur[q]].blockno
  <2>1. \A q \in Procs : pc[q] \in Owning => cur[q] \in Bufs \ {b} /\ q # p BY <1>1, <1>3, HasBuffer DEF Owning
  <2> QED BY <1>0, <1>2, <2>1 DEF DiskInv, DiskTypeOK
<1>7. ASSUME NEW j \in Blocks PROVE Content(j)' = Content(j)
  <2>1. CASE \E c \in Bufs \ {b} : buf[c].blockno = j /\ buf[c].valid
    <3>1. PICK c \in Bufs \ {b} : buf[c].blockno = j /\ buf[c].valid BY <2>1
    <3>2. Content(j) = buf[c].data BY <3>1, ContentNow
    <3>3. Content(j)' = buf'[c].data BY <3>1, <1>2, ContentThen
    <3> QED BY <3>1, <3>2, <3>3, <1>2
  <2>2. CASE \A c \in Bufs \ {b} : buf[c].blockno = j => ~buf[c].valid
    <3>1. Content(j)' = store'[j] BY <2>2, <1>2, ContentThen
    <3>2. CASE buf[b].blockno = j /\ buf[b].valid
      <4>1. Content(j) = buf[b].data BY <3>2, ContentNow
      <4>2. buf[b].data = store[j] BY <3>2, <1>0 DEF DiskInv, CleanInv
      <4> QED BY <3>1, <4>1, <4>2, <1>1
    <3>3. CASE ~(buf[b].blockno = j /\ buf[b].valid)
      <4>1. Content(j) = store[j] BY <2>2, <3>3, ContentNow
      <4> QED BY <3>1, <4>1, <1>1
    <3> QED BY <3>2, <3>3
  <2> QED BY <2>1, <2>2
<1>8. \A j \in Blocks : OwnerOf(j)' = OwnerOf(j) BY <1>5, <1>6, SameOwners
<1> QED BY <1>1, <1>7, <1>8 DEF Hidden

(* The disk's work is not seen: a write stores what the valid buffer       *)
(* holds.                                                                  *)
LEMMA DeviceHidden ==
  ASSUME DiskInv, DiskInv', DeviceDone
  PROVE  Hidden
<1> USE Constants
<1>1. UNCHANGED <<buf, pc, cur, seen>> BY DEF DeviceDone
<1>2. store' = store \/ \E h \in Bufs : buf[h].valid /\ store' = [store EXCEPT ![buf[h].blockno] = buf[h].data]
  BY DeviceDoneInv
<1>3. \A k \in Blocks : OwnerOf(k)' = OwnerOf(k) BY <1>1 DEF OwnerOf
<1>4. ASSUME NEW k \in Blocks PROVE Content(k)' = Content(k)
  <2>1. CASE \E b \in Bufs : buf[b].blockno = k /\ buf[b].valid
    <3>1. PICK b \in Bufs : buf[b].blockno = k /\ buf[b].valid BY <2>1
    <3>2. Content(k) = buf[b].data BY <3>1, ContentNow
    <3>3. Content(k)' = buf'[b].data BY <3>1, <1>1, ContentThen
    <3> QED BY <3>2, <3>3, <1>1
  <2>2. CASE \A b \in Bufs : buf[b].blockno = k => ~buf[b].valid
    <3>1. Content(k) = store[k] BY <2>2, ContentNow
    <3>2. Content(k)' = store'[k] BY <2>2, <1>1, ContentThen
    <3>3. store'[k] = store[k]
      <4>1. CASE store' = store BY <4>1
      <4>2. CASE store' # store
        <5>1. PICK h \in Bufs : buf[h].valid /\ store' = [store EXCEPT ![buf[h].blockno] = buf[h].data] BY <1>2, <4>2
        <5>2. buf[h].blockno # k BY <2>2, <5>1
        <5> QED BY <5>1, <5>2 DEF DiskInv, DiskTypeOK
      <4> QED BY <4>1, <4>2
    <3> QED BY <3>1, <3>2, <3>3
  <2> QED BY <2>1, <2>2
<1> QED BY <1>1, <1>3, <1>4 DEF Hidden

(* The end of a request is not seen: a read brings what the disk holds. *)
LEMMA InterruptHidden ==
  ASSUME DiskInv, DiskInv', ideintr
  PROVE  Hidden
<1> USE Constants
<1>1. PICK h \in Bufs, p \in Procs :
           /\ h = Head(idequeue) /\ cur[p] = h /\ pc[p] \in Asleep /\ buf[h].blockno \in Blocks
           /\ (pc[p] = "rsleep" => ~buf[h].valid /\ ~buf[h].dirty) /\ (pc[p] = "wsleep" => buf[h].valid /\ buf[h].dirty)
           /\ buf[h].dirty => store[buf[h].blockno] = buf[h].data
           /\ buf' = [buf EXCEPT ![h] = [@ EXCEPT !.data = store[buf[h].blockno], !.valid = TRUE, !.dirty = FALSE]]
           /\ pc' = [pc EXCEPT ![p] = IF @ = "rsleep" THEN "rwoken" ELSE "wwoken"]
           /\ buf[h].lock = p
  BY InterruptDoes
<1>2. UNCHANGED <<store, cur, seen>> BY DEF ideintr
<1>3. /\ \A c \in Bufs \ {h} : buf'[c] = buf[c]
      /\ \A c \in Bufs : buf'[c].blockno = buf[c].blockno
      /\ buf'[h].valid /\ buf'[h].data = store[buf[h].blockno]
  BY <1>1 DEF DiskInv, DiskTypeOK, Buffers
<1>4. \A k \in Blocks : OwnerOf(k)' = OwnerOf(k)
  <2>1. \A q \in Procs : pc'[q] \in Owning <=> pc[q] \in Owning BY <1>1 DEF Owning, Asleep, DiskInv, DiskTypeOK
  <2>2. \A q \in Procs : pc[q] \in Owning => cur'[q] = cur[q] /\ buf'[cur[q]].blockno = buf[cur[q]].blockno
    BY <1>2, <1>3, HasBuffer DEF Owning
  <2> QED BY <2>1, <2>2, SameOwners
<1>5. ASSUME NEW k \in Blocks PROVE Content(k)' = Content(k)
  <2>1. CASE k = buf[h].blockno
    <3>1. Content(k)' = store[k] BY <2>1, <1>3, ContentThen
    <3>2. CASE buf[h].valid
      <4>1. Content(k) = buf[h].data BY <2>1, <3>2, ContentNow
      <4>2. buf[h].data = store[k] BY <2>1, <3>2, <1>1 DEF Asleep
      <4> QED BY <3>1, <4>1, <4>2
    <3>3. CASE ~buf[h].valid
      <4>1. \A b \in Bufs : buf[b].blockno = k => b = h BY <2>1 DEF DiskInv, NameInv
      <4>2. Content(k) = store[k] BY <4>1, <3>3, ContentNow
      <4> QED BY <3>1, <4>2
    <3> QED BY <3>2, <3>3
  <2>2. CASE k # buf[h].blockno
    <3>1. CASE \E b \in Bufs : buf[b].blockno = k /\ buf[b].valid
      <4>1. PICK b \in Bufs : buf[b].blockno = k /\ buf[b].valid BY <3>1
      <4>2. buf'[b] = buf[b] BY <4>1, <2>2, <1>3
      <4>3. Content(k) = buf[b].data BY <4>1, ContentNow
      <4>4. Content(k)' = buf'[b].data BY <4>1, <4>2, ContentThen
      <4> QED BY <4>2, <4>3, <4>4
    <3>2. CASE \A b \in Bufs : buf[b].blockno = k => ~buf[b].valid
      <4>1. Content(k) = store[k] BY <3>2, ContentNow
      <4>2. \A b \in Bufs : buf'[b].blockno = k => ~buf'[b].valid BY <3>2, <2>2, <1>3
      <4>3. Content(k)' = store'[k] BY <4>2, ContentThen
      <4> QED BY <4>1, <4>3, <1>2
    <3> QED BY <3>1, <3>2
  <2> QED BY <2>1, <2>2
<1> QED BY <1>2, <1>4, <1>5 DEF Hidden

(* bread() returns a block to its new owner. *)
LEMMA GetMaps ==
  ASSUME DiskInv, DiskInv', NEW p \in Procs, NEW b \in Bufs, cur[p] = b, pc[p] \in Holding \ Owning, buf[b].valid,
         pc' = [pc EXCEPT ![p] = "have"], seen' = [seen EXCEPT ![p] = buf[b].data], UNCHANGED <<buf, store, cur>>
  PROVE  Store!Get(p, buf[b].blockno)
<1>1. PICK j \in Blocks : j = buf[b].blockno BY HasBuffer DEF Holding, Asleep
<1>2. pc'[p] = "have" /\ \A q \in Procs \ {p} : pc'[q] = pc[q] BY DEF DiskInv, DiskTypeOK
<1>3. OwnerOf(j) = {}
  <2>1. ASSUME NEW q \in Procs, q \in OwnerOf(j) PROVE FALSE
    <3>1. pc[q] \in Holding /\ cur[q] \in Bufs /\ buf[cur[q]].blockno = j /\ pc[q] \in Owning
      BY <2>1, HasBuffer DEF OwnerOf, Owning, Holding, Asleep
    <3>0. j # NoBlock /\ buf[b].blockno = j BY <1>1, Constants
    <3>2. cur[q] = b BY <3>0, <3>1 DEF DiskInv, NameInv
    <3>3. buf[b].lock = p /\ buf[b].lock = q BY <3>1, <3>2 DEF DiskInv, LockInv
    <3> QED BY <3>1, <3>3
  <2> QED BY <2>1 DEF OwnerOf
<1>4. ASSUME NEW k \in Blocks PROVE OwnerOf(k)' = IF k = j THEN OwnerOf(k) \cup {p} ELSE OwnerOf(k)
  BY <1>1, <1>2 DEF OwnerOf, Owning
<1>5. \A k \in Blocks : p \notin OwnerOf(k) BY DEF OwnerOf, Owning
<1>6. \A k \in Blocks : Content(k)' = Content(k) BY SameContent
<1>7. Content(j) = buf[b].data BY <1>1, ContentNow
<1>8. OwnerOf(j)' = {p} BY <1>3, <1>4
<1> QED BY <1>1, <1>3, <1>4, <1>5, <1>6, <1>7, <1>8, MapSteps

(* bwrite() and log_write() change it. *)
LEMMA ChangeMaps ==
  ASSUME DiskInv, DiskInv', NEW p \in Procs, NEW v \in Values, pc[p] = "have", NEW b \in Bufs, b = cur[p],
         buf' = [buf EXCEPT ![b] = [@ EXCEPT !.data = v, !.dirty = TRUE]],
         NEW l \in {"have", "wsleep"}, pc' = [pc EXCEPT ![p] = l], UNCHANGED <<store, cur, seen>>
  PROVE  \E j \in Blocks : Store!Change(p, j, v)
<1>1. PICK j \in Blocks : j = buf[b].blockno /\ OwnerOf(j) = {p} BY SoleOwner DEF Owning
<1>2. /\ \A c \in Bufs \ {b} : buf'[c] = buf[c]
      /\ \A c \in Bufs : buf'[c].blockno = buf[c].blockno
      /\ buf'[b].valid /\ buf'[b].data = v /\ buf[b].valid
  <2>1. buf[b].valid BY DEF DiskInv, FlagInv
  <2> QED BY <2>1 DEF DiskInv, DiskTypeOK, Buffers
<1>3. \A k \in Blocks : OwnerOf(k)' = OwnerOf(k)
  <2>1. \A q \in Procs : pc'[q] \in Owning <=> pc[q] \in Owning BY DEF Owning, DiskInv, DiskTypeOK
  <2>2. \A q \in Procs : pc[q] \in Owning => cur'[q] = cur[q] /\ buf'[cur[q]].blockno = buf[cur[q]].blockno
    BY <1>2, HasBuffer DEF Owning
  <2> QED BY <2>1, <2>2, SameOwners
<1>4. ASSUME NEW k \in Blocks PROVE Content(k)' = IF k = j THEN v ELSE Content(k)
  <2>1. CASE k = j
    <3>1. Content(k)' = buf'[b].data BY <2>1, <1>1, <1>2, ContentThen
    <3> QED BY <2>1, <3>1, <1>2
  <2>2. CASE k # j
    <3>1. CASE \E c \in Bufs : buf[c].blockno = k /\ buf[c].valid
      <4>1. PICK c \in Bufs : buf[c].blockno = k /\ buf[c].valid BY <3>1
      <4>2. buf'[c] = buf[c] BY <4>1, <2>2, <1>1, <1>2
      <4>3. Content(k) = buf[c].data BY <4>1, ContentNow
      <4>4. Content(k)' = buf'[c].data BY <4>1, <4>2, ContentThen
      <4> QED BY <2>2, <4>2, <4>3, <4>4
    <3>2. CASE \A c \in Bufs : buf[c].blockno = k => ~buf[c].valid
      <4>1. Content(k) = store[k] BY <3>2, ContentNow
      <4>2. \A c \in Bufs : buf'[c].blockno = k => ~buf'[c].valid BY <3>2, <2>2, <1>1, <1>2
      <4>3. Content(k)' = store'[k] BY <4>2, ContentThen
      <4> QED BY <2>2, <4>1, <4>3
    <3> QED BY <3>1, <3>2
  <2> QED BY <2>1, <2>2
<1>5. \A k \in Blocks : Content(k)' = IF k = j THEN v ELSE Content(k) BY <1>4
<1>6. Store!Change(p, j, v)
  <2>1. OwnerOf(j) = {p} /\ seen' = seen BY <1>1
  <2> QED BY <1>3, <1>5, <2>1, MapSteps, Zenon
<1> QED BY <1>6

(* releasesleep() gives it back. *)
LEMMA PutMaps ==
  ASSUME DiskInv, DiskInv', NEW p \in Procs, releasesleep(p)
  PROVE  \E j \in Blocks : Store!Put(p, j)
<1>1. pc[p] = "have" /\ UNCHANGED <<store, cur>> /\ seen' = [seen EXCEPT ![p] = Nothing] BY DEF releasesleep
<1>2. PICK b \in Bufs : b = cur[p] BY <1>1, HasBuffer
<1>3. PICK j \in Blocks : j = buf[b].blockno /\ OwnerOf(j) = {p} /\ \A k \in Blocks : p \in OwnerOf(k) => k = j
  BY <1>1, <1>2, SoleOwner DEF Owning
<1>4. \A q \in Procs : pc'[q] = IF q = p THEN "rel" ELSE IF cur[q] = cur[p] /\ pc[q] = "lksleep" THEN "acq" ELSE pc[q]
  BY ReleaseInv
<1>5. buf' = [buf EXCEPT ![b].lock = None] BY <1>2 DEF releasesleep
<1>6. \A c \in Bufs : buf'[c].blockno = buf[c].blockno /\ buf'[c].valid = buf[c].valid /\ buf'[c].data = buf[c].data
  BY <1>5 DEF DiskTypeOK, Buffers, DiskInv
<1>7. ASSUME NEW k \in Blocks PROVE OwnerOf(k)' = OwnerOf(k) \ {p}
  <2>1. \A q \in Procs : pc'[q] \in Owning <=> pc[q] \in Owning /\ q # p BY <1>4 DEF Owning
  <2>2. \A q \in Procs : pc[q] \in Owning => buf'[cur'[q]].blockno = buf[cur[q]].blockno
    BY <1>1, <1>6, HasBuffer DEF Owning
  <2> QED BY <2>1, <2>2 DEF OwnerOf, Owning
<1>8. OwnerOf(j)' = {} BY <1>3, <1>7
<1>9. \A k \in Blocks \ {j} : OwnerOf(k)' = OwnerOf(k) BY <1>3, <1>7
<1>10. \A k \in Blocks : Content(k)' = Content(k) BY <1>1, <1>6, SameContent
<1> QED BY <1>1, <1>3, <1>8, <1>9, <1>10, MapSteps

(* Every step is a step of BlockStore, or changes none of it. *)
LEMMA NextMaps ==
  ASSUME DiskInv, DiskInv', [Next]_vars
  PROVE  [Store!Next]_(Store!vars)
<1> USE Constants
<1> DEFINE Goal == Store!Next \/ UNCHANGED Store!vars
<1>0. Hidden => Goal BY MapSteps DEF Hidden
<1>1. CASE UNCHANGED vars
  <2>1. Hidden BY <1>1, HiddenSteps DEF vars
  <2> QED BY <1>0, <2>1
<1>2. ASSUME NEW p \in Procs, NEW k \in Blocks, bgetHit(p, k) PROVE Hidden
  <2>1. PICK b \in Bufs : buf' = [buf EXCEPT ![b].refcnt = @ + 1] /\ cur' = [cur EXCEPT ![p] = b]
    BY <1>2, HitFinds DEF bgetHit, DiskInv
  <2>2. pc[p] = "user" /\ pc' = [pc EXCEPT ![p] = "acq"] /\ store' = store /\ seen' = seen BY <1>2 DEF bgetHit
  <2>3. \A c \in Bufs : buf'[c].blockno = buf[c].blockno /\ buf'[c].valid = buf[c].valid /\ buf'[c].data = buf[c].data
    BY <2>1 DEF DiskTypeOK, Buffers, DiskInv
  <2>4. \A q \in Procs : (pc'[q] \in Owning <=> pc[q] \in Owning) /\ (pc[q] \in Owning => cur'[q] = cur[q])
    BY <2>1, <2>2 DEF DiskInv, DiskTypeOK, Owning
  <2> QED BY <2>2, <2>3, <2>4, HiddenSteps
<1>3. ASSUME NEW p \in Procs, NEW k \in Blocks, bgetPanics(p, k) PROVE Hidden
  BY <1>3, HiddenSteps DEF bgetPanics
<1>4. ASSUME NEW p \in Procs, acquiresleep(p) PROVE Hidden
  <2>1. pc[p] = "acq" /\ store' = store /\ seen' = seen /\ cur' = cur BY <1>4 DEF acquiresleep
  <2>2. PICK b \in Bufs : b = cur[p] BY <2>1, HasBuffer
  <2>3. /\ buf' = [buf EXCEPT ![b].lock = p] \/ buf' = buf
        /\ \E l \in {"locked", "lksleep"} : pc' = [pc EXCEPT ![p] = l]
    BY <1>4, <2>2 DEF acquiresleep
  <2>4. \A c \in Bufs : buf'[c].blockno = buf[c].blockno /\ buf'[c].valid = buf[c].valid /\ buf'[c].data = buf[c].data
    <3>1. CASE buf' = buf BY <3>1
    <3>2. CASE buf' = [buf EXCEPT ![b].lock = p] BY <3>2 DEF DiskTypeOK, Buffers, DiskInv
    <3> QED BY <2>3, <3>1, <3>2
  <2>5. \A q \in Procs : pc'[q] \in Owning <=> pc[q] \in Owning BY <2>1, <2>3 DEF DiskInv, DiskTypeOK, Owning
  <2> QED BY <2>1, <2>4, <2>5, HiddenSteps
<1>5. ASSUME NEW p \in Procs, brelse(p) PROVE Hidden
  <2>1. /\ pc[p] = "rel" /\ store' = store /\ seen' = seen /\ cur' = [cur EXCEPT ![p] = None] /\ pc' = [pc EXCEPT ![p] = "user"]
    BY <1>5 DEF brelse
  <2>2. PICK b \in Bufs : b = cur[p] BY <2>1, HasBuffer
  <2>3. buf' = [buf EXCEPT ![b].refcnt = RefcntDown(b)] BY <1>5, <2>2 DEF brelse
  <2>4. \A c \in Bufs : buf'[c].blockno = buf[c].blockno /\ buf'[c].valid = buf[c].valid /\ buf'[c].data = buf[c].data
    BY <2>3 DEF DiskTypeOK, Buffers, DiskInv
  <2>5. \A q \in Procs : (pc'[q] \in Owning <=> pc[q] \in Owning) /\ (pc[q] \in Owning => cur'[q] = cur[q])
    BY <2>1 DEF DiskInv, DiskTypeOK, Owning
  <2> QED BY <2>1, <2>4, <2>5, HiddenSteps
<1>6. ASSUME NEW p \in Procs, bread(p) PROVE Goal
  <2>1. pc[p] = "locked" /\ UNCHANGED <<buf, mru, store, cur, panic>> BY <1>6 DEF bread
  <2>2. PICK b \in Bufs : b = cur[p] /\ buf[b].blockno \in Blocks BY <2>1, HasBuffer
  <2>3. CASE buf[b].valid
    <3>1. pc' = [pc EXCEPT ![p] = "have"] /\ seen' = [seen EXCEPT ![p] = buf[b].data] BY <1>6, <2>2, <2>3 DEF bread
    <3>2. pc[p] \in Holding \ Owning BY <2>1 DEF Holding, Owning
    <3>3. Store!Get(p, buf[b].blockno) BY <2>1, <2>2, <2>3, <3>1, <3>2, GetMaps
    <3> QED BY <2>2, <3>3 DEF Store!Next
  <2>4. CASE ~buf[b].valid
    <3>1. pc' = [pc EXCEPT ![p] = "rsleep"] /\ seen' = seen BY <1>6, <2>2, <2>4 DEF bread, iderw
    <3>2. \A q \in Procs : pc'[q] \in Owning <=> pc[q] \in Owning BY <2>1, <3>1 DEF DiskInv, DiskTypeOK, Owning
    <3>3. Hidden BY <2>1, <3>1, <3>2, HiddenSteps
    <3> QED BY <3>3, <1>0
  <2> QED BY <2>3, <2>4
<1>7. ASSUME NEW p \in Procs, IoWoken(p) PROVE Goal
  <2>1. pc[p] \in {"rwoken", "wwoken"} /\ UNCHANGED <<buf, store, cur>> BY <1>7 DEF IoWoken
  <2>2. /\ pc' = [pc EXCEPT ![p] = "have"]
        /\ seen' = IF pc[p] = "rwoken" THEN [seen EXCEPT ![p] = buf[cur[p]].data] ELSE seen
    BY <1>7, IoWokenInv
  <2>3. PICK b \in Bufs : b = cur[p] /\ buf[b].blockno \in Blocks BY <2>1, HasBuffer
  <2>4. CASE pc[p] = "rwoken"
    <3>1. pc[p] \in Holding \ Owning /\ buf[b].valid BY <2>3, <2>4 DEF Holding, Owning, DiskInv, FlagInv
    <3>2. Store!Get(p, buf[b].blockno) BY <2>1, <2>2, <2>3, <2>4, <3>1, GetMaps
    <3> QED BY <2>3, <3>2 DEF Store!Next
  <2>5. CASE pc[p] = "wwoken"
    <3>1. \A q \in Procs : pc'[q] \in Owning <=> pc[q] \in Owning BY <2>2, <2>5 DEF DiskInv, DiskTypeOK, Owning
    <3>2. Hidden BY <2>1, <2>2, <2>5, <3>1, HiddenSteps
    <3> QED BY <3>2, <1>0
  <2> QED BY <2>1, <2>4, <2>5
<1>8. ASSUME NEW p \in Procs, NEW v \in Values, bwrite(p, v) \/ Pin(p, v) PROVE Goal
  <2>1. pc[p] = "have" /\ UNCHANGED <<store, cur, seen>> BY <1>8 DEF bwrite, Pin
  <2>2. PICK b \in Bufs : b = cur[p] /\ buf[b].blockno \in Blocks BY <2>1, HasBuffer
  <2>3. buf' = [buf EXCEPT ![b] = [@ EXCEPT !.data = v, !.dirty = TRUE]] BY <1>8, <2>2 DEF bwrite, Pin
  <2>4. \E l \in {"have", "wsleep"} : pc' = [pc EXCEPT ![p] = l] BY <1>8, <2>1 DEF bwrite, Pin, iderw, DiskInv, DiskTypeOK
  <2>5. \E j \in Blocks : Store!Change(p, j, v) BY <2>1, <2>2, <2>3, <2>4, ChangeMaps
  <2>6. Store!Next BY <2>5, Zenon DEF Store!Next
  <2> QED BY <2>6
<1>9. ASSUME NEW p \in Procs, releasesleep(p) PROVE Goal BY <1>9, PutMaps DEF Store!Next
<1>10. CASE Next
  <2> HIDE DEF Goal
  <2>1. ASSUME NEW p \in Procs, Client(p) \/ Inside(p) PROVE Goal
    BY <1>0, <1>2, <1>3, <1>4, <1>5, <1>6, <1>7, <1>8, <1>9, <2>1, RecycleHidden DEF Client, Inside
  <2>2. DeviceDone \/ ideintr => Goal BY <1>0, DeviceHidden, InterruptHidden
  <2>3. Stopped => Goal BY <1>1 DEF Stopped, Goal
  <2>4. Goal BY <1>10, <2>1, <2>2, <2>3 DEF Next, Running
  <2> QED BY <2>4 DEF Goal
<1> QED BY <1>1, <1>10

(* The empty cache is an initial state of BlockStore. *)
LEMMA InitMaps == Init => Store!Init
<1> SUFFICES ASSUME Init PROVE Store!Init OBVIOUS
<1>1. \A k \in Blocks : Content(k) = store[k] /\ store[k] \in Values
  <2>1. \A b \in Bufs : ~buf[b].valid BY DEF Init
  <2> QED BY <2>1 DEF Init, Content, ContentOf
<1>2. \A k \in Blocks : OwnerOf(k) = {} BY DEF Init, OwnerOf
<1>3. [k \in Blocks |-> Content(k)] \in [Blocks -> Values] BY <1>1
<1>4. [k \in Blocks |-> FirstOwner(OwnerOf(k))] = [k \in Blocks |-> None] BY <1>2 DEF FirstOwner
<1> QED BY <1>3, <1>4 DEF Store!Init, Init, Content, ContentOf, FirstOwner

(* Buffer cache, sleeplocks and disk driver together are a store of        *)
(* blocks: one process at a time has a block and finds in it what was put  *)
(* there last.                                                             *)
THEOREM StoreRefinementHolds == Spec => StoreRefinement
<1>1. DiskInv /\ DiskInv' /\ [Next]_vars => [Store!Next]_(Store!vars) BY NextMaps
<1> QED BY <1>1, InitMaps, DiskAlways, PTL DEF Spec, StoreRefinement, Store!Spec
=============================================================================
