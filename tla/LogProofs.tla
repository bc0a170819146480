----------------------------- MODULE LogProofs ------------------------------
(***************************************************************************)
(* The log's invariants and its refinement of LogSpec, for any number of   *)
(* threads, blocks and contents.                                           *)
(***************************************************************************)
EXTENDS Log, FiniteSetTheorems, TLAPS

Locs == {"idle", "begin", "asleep", "in", "checked", "panic"} \cup RecoveryLocs \cup CommitLocs

LogTypeOK ==
    /\ disk \in [LogData \cup Home -> Values] /\ hdr \in Seq(Home)
    /\ cache \in [Home -> Values \cup {Absent}] /\ dirty \in [Home -> BOOLEAN]
    /\ holder \in [Home -> Threads \cup {Nobody}]
    /\ lh \in Seq(Home) /\ outstanding \in Nat /\ committing \in BOOLEAN
    /\ pc \in [Threads -> Locs] /\ tail \in [Threads -> Nat] /\ wset \in [Threads -> SUBSET Home]

(* outstanding counts the open operations; a commit, like recovery, is one *)
(* thread's, beside no operation.                                          *)
CountInv == outstanding = Cardinality({t \in Threads : InOp(t)})
AloneInv ==
    /\ committing <=> \E t \in Threads : pc[t] \in CommitLocs
    /\ \A t, u \in Threads : pc[t] \in CommitLocs /\ (pc[u] \in CommitLocs \/ InOp(u)) => t = u
    /\ \A t \in Threads : pc[t] \in RecoveryLocs => t = InitThread /\ \A u \in Threads \ {t} : pc[u] = "idle"

(* A buffer is locked only by the operation that changes it, between the   *)
(* change and log_write().                                                 *)
WriterInv ==
    /\ \A b \in Home : holder[b] # Nobody => pc[holder[b]] \in {"checked", "panic"} /\ b \in wset[holder[b]]
    /\ \A b, c \in Home : holder[b] = holder[c] /\ holder[b] # Nobody => b = c
    /\ \A t \in Threads : Cardinality(wset[t]) <= MAXOPBLOCKS /\ (~InOp(t) => wset[t] = {})

(* lh names each block once, and belongs to the open operations, the       *)
(* commit or recovery; the header on the disk, to the installation.        *)
Distinct(s) == \A i, j \in 1 .. Len(s) : s[i] = s[j] => i = j
ListInv ==
    /\ Distinct(lh) /\ Distinct(hdr) /\ Len(hdr) <= LOGSIZE
    /\ lh # <<>> => \E t \in Threads : InOp(t) \/ pc[t] \in {"wlog", "whead", "install", "clear", "rinstall", "rclear"}
    /\ hdr # <<>> => \E t \in Threads : pc[t] \in {"install", "clear", "rhead", "rinstall", "rclear"}
    /\ \A t \in Threads :
         /\ pc[t] \in {"install", "clear", "rinstall", "rclear"} => lh = hdr
         /\ pc[t] \in {"rhead", "whead"} => tail[t] = 0
         /\ pc[t] \in {"wlog", "install", "rinstall"} => tail[t] <= Len(lh)

(* A buffer that differs from its block is locked, or still to be          *)
(* installed.                                                              *)
Pending(b) ==
    /\ dirty[b]
    /\ \E i \in 1 .. Len(lh) : lh[i] = b /\ \A t \in Threads : pc[t] = "install" => tail[t] < i
    /\ \A t \in Threads : pc[t] \notin RecoveryLocs \cup {"clear", "done"}
CacheInv == \A b \in Home : bread(b) # disk[b] => holder[b] # Nobody \/ Pending(b)

LogInv == LogTypeOK /\ CountInv /\ AloneInv /\ WriterInv /\ ListInv /\ CacheInv /\ ReservationHolds

USE DEF diskvars, bufvars, logvars, Goto, Nobody

(* What the assumption on the constants gives: the log has LOGSIZE - 1     *)
(* data blocks on disk, apart from the home blocks.                        *)
LEMMA Constants ==
  /\ NThreads \in Nat \ {0} /\ MAXOPBLOCKS \in Nat \ {0} /\ NHome \in Nat \ {0}
  /\ LOGSIZE \in Nat /\ size = LOGSIZE /\ LOGSIZE = MAXOPBLOCKS * 3 /\ LOGSIZE > 2
  /\ 0 \in Values /\ Absent \notin Values
  /\ InitThread \in Threads /\ Nobody \notin Threads
  /\ size \in Home /\ Home \cap LogData = {} /\ LogData \cup Home \subseteq Int
  /\ IsFiniteSet(Threads) /\ IsFiniteSet(Home)
<1>1. LOGSIZE \in Nat /\ LOGSIZE > 2 /\ NHome \in Nat \ {0} /\ NThreads \in Nat \ {0}
  BY ThreadAssumption, LogSizeAssumption DEF LOGSIZE
<1>2. IsFiniteSet(1 .. NThreads) BY <1>1, FS_Interval
<1>3. IsFiniteSet(LOGSIZE .. LOGSIZE + NHome - 1)
  <2>1. LOGSIZE \in Int /\ LOGSIZE + NHome - 1 \in Int BY <1>1
  <2> QED BY <2>1, FS_Interval
<1>4. Home \cap LogData = {} /\ LogData \cup Home \subseteq Int /\ size \in Home
  BY <1>1 DEF Home, LogData, size
<1> QED BY <1>1, <1>2, <1>3, <1>4, LogSizeAssumption, ValueAssumption DEF Threads, Home, LOGSIZE, size, Absent, InitThread

(* The empty header is a list of blocks. *)
LEMMA NoList == <<>> \in Seq(Home) /\ Len(<<>>) = 0
OBVIOUS

(* After mkfs, with an empty header, the invariant holds. *)
LEMMA InitInv == Init => LogInv
<1> SUFFICES ASSUME Init PROVE LogInv OBVIOUS
<1> USE Constants DEF Init
<1>1. LogTypeOK
  <2>1. pc \in [Threads -> Locs] BY DEF Locs, RecoveryLocs, CommitLocs
  <2>2. disk \in [LogData \cup Home -> Values] /\ cache \in [Home -> Values \cup {Absent}] OBVIOUS
  <2>3. dirty \in [Home -> BOOLEAN] /\ holder \in [Home -> Threads \cup {Nobody}] OBVIOUS
  <2>4. tail \in [Threads -> Nat] /\ wset \in [Threads -> SUBSET Home] OBVIOUS
  <2>5. hdr \in Seq(Home) /\ lh \in Seq(Home) /\ outstanding \in Nat /\ committing \in BOOLEAN BY NoList
  <2> QED BY <2>1, <2>2, <2>3, <2>4, <2>5 DEF LogTypeOK
<1>2. CountInv
  <2>1. {t \in Threads : InOp(t)} = {} BY DEF InOp
  <2> QED BY <2>1, FS_EmptySet DEF CountInv
<1>3. AloneInv BY DEF AloneInv, CommitLocs, RecoveryLocs, InOp
<1>4. WriterInv BY FS_EmptySet DEF WriterInv
<1>5. ListInv BY DEF ListInv, Distinct
<1>6. CacheInv BY DEF CacheInv, bread
<1>7. ReservationHolds
  <2>1. {w \in Threads \X Home : w[2] \in wset[w[1]] /\ Logged(w[2])} = {} BY DEF Logged
  <2>2. Cardinality({w \in Threads \X Home : w[2] \in wset[w[1]] /\ Logged(w[2])}) = 0 BY <2>1, FS_EmptySet
  <2> QED BY <2>2 DEF ReservationHolds
<1> QED BY <1>1, <1>2, <1>3, <1>4, <1>5, <1>6, <1>7 DEF LogInv

(* The invariant without the two counts. *)
CoreInv == LogTypeOK /\ AloneInv /\ WriterInv /\ ListInv /\ CacheInv

(* A crash loses memory only; what is on disk keeps the core invariant. *)
LEMMA CrashCore ==
  ASSUME CoreInv, Crash
  PROVE  CoreInv'
<1> USE Constants DEF Crash, CoreInv
<1>1. LogTypeOK'
  <2>1. pc' \in [Threads -> Locs] BY DEF Locs, RecoveryLocs, CommitLocs
  <2>2. dirty' \in [Home -> BOOLEAN] /\ holder' \in [Home -> Threads \cup {Nobody}] OBVIOUS
  <2>3. tail' \in [Threads -> Nat] /\ wset' \in [Threads -> SUBSET Home] /\ cache' \in [Home -> Values \cup {Absent}]
    OBVIOUS
  <2>4. lh' \in Seq(Home) /\ outstanding' \in Nat /\ committing' \in BOOLEAN BY NoList
  <2>5. disk' \in [LogData \cup Home -> Values] /\ hdr' \in Seq(Home) BY DEF LogTypeOK
  <2> QED BY <2>1, <2>2, <2>3, <2>4, <2>5 DEF LogTypeOK
<1>2. AloneInv' BY DEF AloneInv, CommitLocs, RecoveryLocs, InOp
<1>3. WriterInv' BY FS_EmptySet DEF WriterInv
<1>4. ListInv' BY DEF ListInv, Distinct
<1>5. CacheInv' BY DEF CacheInv, bread
<1> QED BY <1>1, <1>2, <1>3, <1>4, <1>5

(* The cache gives up a clean block. *)
LEMMA RecycleCore ==
  ASSUME CoreInv, NEW b \in Home, Recycle(b)
  PROVE  CoreInv'
<1> USE Constants DEF Recycle, CoreInv
<1>1. LogTypeOK' BY DEF LogTypeOK
<1>2. AloneInv' BY DEF AloneInv, InOp
<1>3. WriterInv' BY DEF WriterInv, InOp
<1>4. ListInv' BY DEF ListInv, Distinct, InOp
<1>5. CacheInv' BY DEF CacheInv, bread, Pending, LogTypeOK
<1> QED BY <1>1, <1>2, <1>3, <1>4, <1>5

(* begin_op() admits, or sleeps. *)
LEMMA BeginCore ==
  ASSUME CoreInv, NEW t \in Threads, begin_op(t)
  PROVE  CoreInv'
<1> USE Constants DEF CoreInv, LogTypeOK
<1>0. PICK l \in {"in", "asleep"} : pc' = [pc EXCEPT ![t] = l] /\ (l = "in" => ~committing)
  BY DEF begin_op, MayBegin
<1>1. /\ pc[t] \in {"idle", "begin"} /\ pc[InitThread] \notin RecoveryLocs
      /\ outstanding' \in Nat
      /\ UNCHANGED <<disk, hdr, cache, dirty, holder, lh, committing, tail, wset>>
  BY DEF begin_op, Up
<1>2. \A u \in Threads : pc[u] \notin RecoveryLocs BY <1>1 DEF AloneInv
<1>3. LogTypeOK' BY <1>0, <1>1 DEF Locs
<1>4. AloneInv' BY <1>0, <1>1, <1>2 DEF AloneInv, InOp, CommitLocs, RecoveryLocs
<1>5. WriterInv' BY <1>0, <1>1 DEF WriterInv, InOp
<1>6. ListInv' BY <1>0, <1>1, SMTT(60) DEF ListInv, Distinct, InOp
<1>7. CacheInv' BY <1>0, <1>1 DEF CacheInv, bread, Pending, RecoveryLocs
<1> QED BY <1>3, <1>4, <1>5, <1>6, <1>7

(* An operation changes a block in its buffer, under the buffer's lock. *)
LEMMA ModifyCore ==
  ASSUME CoreInv, NEW t \in Threads, NEW b \in Home, NEW v \in Values, Modify(t, b, v)
  PROVE  CoreInv'
<1> USE Constants DEF Modify, CoreInv, LogTypeOK
<1>1. LogTypeOK' BY DEF Locs, RecoveryLocs, CommitLocs
<1>2. AloneInv' BY DEF AloneInv, InOp, CommitLocs, RecoveryLocs
<1>3. WriterInv' BY SMTT(60) DEF WriterInv, InOp
<1>4. ListInv' BY DEF ListInv, Distinct, InOp
<1>5. CacheInv' BY DEF CacheInv, bread, Pending, RecoveryLocs
<1> QED BY <1>1, <1>2, <1>3, <1>4, <1>5

(* log_write()'s list: each block once. *)
LEMMA ListAppend ==
  ASSUME NEW l \in Seq(Home), Distinct(l), NEW b \in Home, \A i \in 1 .. Len(l) : l[i] # b
  PROVE  /\ Append(l, b) \in Seq(Home) /\ Distinct(Append(l, b)) /\ Append(l, b) # <<>>
         /\ Len(Append(l, b)) = Len(l) + 1 /\ Append(l, b)[Len(l) + 1] = b
         /\ \A i \in 1 .. Len(l) : Append(l, b)[i] = l[i]
<1>1. /\ Append(l, b) \in Seq(Home) /\ Append(l, b) # <<>>
      /\ Len(Append(l, b)) = Len(l) + 1 /\ Append(l, b)[Len(l) + 1] = b
      /\ \A i \in 1 .. Len(l) : Append(l, b)[i] = l[i]
  <2>1. Append(l, b) \in Seq(Home) /\ Append(l, b) # <<>> OBVIOUS
  <2>2. Len(Append(l, b)) = Len(l) + 1 /\ Append(l, b)[Len(l) + 1] = b OBVIOUS
  <2>3. ASSUME NEW i \in 1 .. Len(l) PROVE Append(l, b)[i] = l[i] OBVIOUS
  <2> QED BY <2>1, <2>2, <2>3
<1> DEFINE m == Append(l, b)
<1> HIDE DEF m
<1>2. Len(l) \in Nat OBVIOUS
<1>3. ASSUME NEW i \in 1 .. Len(m), NEW j \in 1 .. Len(m), m[i] = m[j] PROVE i = j
  BY <1>1, <1>2, <1>3 DEF Distinct, m
<1> QED BY <1>1, <1>3 DEF Distinct, m

(* log_write() adds a block to the header in memory once. *)
LEMMA LogWriteCore ==
  ASSUME CoreInv, NEW t \in Threads, NEW b \in Home, log_write(t, b)
  PROVE  CoreInv'
<1> USE Constants DEF CoreInv, LogTypeOK
<1>0. /\ pc[t] = "checked" /\ holder[b] = t /\ pc' = [pc EXCEPT ![t] = "in"]
      /\ dirty' = [dirty EXCEPT ![b] = TRUE] /\ holder' = [holder EXCEPT ![b] = Nobody]
      /\ UNCHANGED <<disk, hdr, cache, outstanding, committing, tail, wset>>
  BY DEF log_write
<1>1. /\ lh' \in Seq(Home) /\ Distinct(lh') /\ Len(lh) <= Len(lh') /\ Len(lh) \in Nat /\ Len(lh') \in Nat
      /\ \A i \in 1 .. Len(lh) : lh'[i] = lh[i]
      /\ \E i \in 1 .. Len(lh') : lh'[i] = b
  <2>0. lh \in Seq(Home) /\ Distinct(lh) /\ Len(lh) \in Nat BY DEF ListInv
  <2>1. CASE Logged(b)
    <3>1. lh' = lh BY <2>1 DEF log_write
    <3>2. \E i \in 1 .. Len(lh) : lh[i] = b BY <2>1 DEF Logged
    <3> QED BY <2>0, <3>1, <3>2
  <2>2. CASE ~Logged(b)
    <3>1. lh' = Append(lh, b) /\ \A i \in 1 .. Len(lh) : lh[i] # b BY <2>2 DEF log_write, Logged
    <3>2. /\ lh' \in Seq(Home) /\ Distinct(lh') /\ Len(lh') = Len(lh) + 1 /\ lh'[Len(lh) + 1] = b
          /\ \A i \in 1 .. Len(lh) : lh'[i] = lh[i]
      BY <3>1, ListAppend DEF ListInv
    <3>3. Len(lh) + 1 \in 1 .. Len(lh') BY <2>0, <3>2
    <3>4. \E i \in 1 .. Len(lh') : lh'[i] = b BY <3>2, <3>3
    <3> QED BY <2>0, <3>2, <3>4
  <2> QED BY <2>1, <2>2
<1>2. \A u \in Threads : pc[u] \notin CommitLocs \cup RecoveryLocs
  BY <1>0 DEF AloneInv, InOp, RecoveryLocs, CommitLocs
<1>3. LogTypeOK' BY <1>0, <1>1 DEF Locs
<1>4. AloneInv' BY <1>0, <1>2 DEF AloneInv, InOp, CommitLocs, RecoveryLocs
<1>5. WriterInv'
  <2>1. \A c \in Home : holder'[c] # Nobody => holder'[c] = holder[c] /\ c # b BY <1>0
  <2>2. \A c \in Home : holder[c] = t => c = b BY <1>0 DEF WriterInv
  <2> QED BY <1>0, <2>1, <2>2 DEF WriterInv, InOp
<1>6. ListInv' BY <1>0, <1>1, <1>2 DEF ListInv, InOp, CommitLocs, RecoveryLocs
<1>7. CacheInv'
  <2>1. \A u \in Threads : pc'[u] \notin CommitLocs \cup RecoveryLocs BY <1>0, <1>2 DEF CommitLocs, RecoveryLocs
  <2>2. ASSUME NEW c \in Home, bread(c)' # disk'[c], holder'[c] = Nobody PROVE Pending(c)'
    <3>1. bread(c) # disk[c] BY <2>2, <1>0 DEF bread
    <3>2. c = b \/ holder[c] = Nobody BY <1>0, <2>2
    <3>3. c # b => Pending(c) BY <3>1, <3>2 DEF CacheInv
    <3>4. \E i \in 1 .. Len(lh') : lh'[i] = c
      <4>1. CASE c = b BY <4>1, <1>1
      <4>2. CASE c # b
        <5>1. PICK i \in 1 .. Len(lh) : lh[i] = c BY <4>2, <3>3 DEF Pending
        <5>2. lh'[i] = c BY <5>1, <1>1, Zenon
        <5>3. i \in 1 .. Len(lh') BY <5>1, <1>1
        <5> QED BY <5>2, <5>3
      <4> QED BY <4>1, <4>2
    <3>5. dirty'[c] BY <1>0, <3>3 DEF Pending
    <3> QED BY <2>1, <3>4, <3>5 DEF Pending, CommitLocs, RecoveryLocs
  <2> QED BY <2>2 DEF CacheInv
<1> QED BY <1>3, <1>4, <1>5, <1>6, <1>7

(* The last operation to end commits; the others only leave. *)
LEMMA EndCases ==
  ASSUME LogInv, NEW t \in Threads, end_op(t)
  PROVE  /\ ~committing /\ pc[t] = "in"
         /\ \A u \in Threads : pc[u] \notin CommitLocs \cup RecoveryLocs
         /\ \/ /\ \A u \in Threads \ {t} : ~InOp(u)
               /\ \E l \in {"done", "wlog"} : pc' = [pc EXCEPT ![t] = l] /\ (l = "done" <=> lh = <<>>)
               /\ committing'
            \/ /\ \E u \in Threads \ {t} : InOp(u)
               /\ pc' = wakeup([pc EXCEPT ![t] = "idle"]) /\ committing' = committing
<1> USE Constants DEF LogInv, LogTypeOK
<1>1. pc[t] = "in" /\ committing' = (committing \/ outstanding = 1) BY DEF end_op
<1>2. \A u \in Threads : pc[u] \notin CommitLocs \cup RecoveryLocs
  BY <1>1 DEF AloneInv, InOp, RecoveryLocs, CommitLocs
<1>3. ~committing BY <1>2 DEF AloneInv
<1> DEFINE S == {u \in Threads : InOp(u)}
<1>4. IsFiniteSet(S) /\ t \in S /\ outstanding = Cardinality(S)
  BY <1>1, FS_Subset DEF InOp, CountInv
<1>5. outstanding = 1 <=> \A u \in Threads \ {t} : ~InOp(u)
  <2> HIDE DEF S
  <2>1. outstanding = 1 <=> \E x : S = {x} BY <1>4, FS_Singleton
  <2>2. (\E x : S = {x}) <=> \A u \in S : u = t
    <3>1. ASSUME NEW x, S = {x} PROVE \A u \in S : u = t BY <1>4, <3>1
    <3>2. ASSUME \A u \in S : u = t PROVE S = {t} BY <1>4, <3>2
    <3> QED BY <3>1, <3>2
  <2>3. (\A u \in S : u = t) <=> \A u \in Threads \ {t} : ~InOp(u) BY DEF S
  <2> QED BY <2>1, <2>2, <2>3
<1>6. CASE outstanding = 1
  <2>1. pc' = [pc EXCEPT ![t] = IF lh = <<>> THEN "done" ELSE "wlog"] BY <1>3, <1>6 DEF end_op
  <2> QED BY <1>1, <1>2, <1>3, <1>5, <1>6, <2>1
<1>7. CASE outstanding # 1
  <2>1. pc' = wakeup([pc EXCEPT ![t] = "idle"]) BY <1>3, <1>7 DEF end_op
  <2> QED BY <1>1, <1>2, <1>3, <1>5, <1>7, <2>1
<1> QED BY <1>6, <1>7

(* wakeup() sends every sleeper of begin_op() back to its loop. *)
LEMMA Wakeup ==
  ASSUME NEW pcs \in [Threads -> Locs]
  PROVE  wakeup(pcs) \in [Threads -> Locs] /\ \A u \in Threads : wakeup(pcs)[u] = IF pcs[u] = "asleep" THEN "begin" ELSE pcs[u]
BY DEF wakeup, Locs

(* end_op() of the last operation starts the commit; others wake the       *)
(* sleepers.                                                               *)
LEMMA EndCore ==
  ASSUME LogInv, NEW t \in Threads, end_op(t)
  PROVE  CoreInv'
<1> USE Constants DEF LogInv, LogTypeOK
<1>0. /\ tail' = [tail EXCEPT ![t] = 0] /\ wset' = [wset EXCEPT ![t] = {}]
      /\ UNCHANGED <<disk, hdr, cache, dirty, holder, lh>>
      /\ outstanding' = outstanding - 1
  BY DEF end_op
<1>1. /\ ~committing /\ pc[t] = "in"
      /\ \A u \in Threads : pc[u] \notin CommitLocs \cup RecoveryLocs
  BY EndCases
<1>2. outstanding' \in Nat
  <2> DEFINE S == {u \in Threads : InOp(u)}
  <2>1. IsFiniteSet(S) /\ t \in S BY <1>1, FS_Subset DEF InOp
  <2> HIDE DEF S
  <2>2. Cardinality(S) # 0 /\ Cardinality(S) \in Nat BY <2>1, FS_EmptySet, FS_CardinalityType
  <2> QED BY <1>0, <2>2 DEF CountInv, S
<1>3. \A b \in Home : holder[b] # t BY <1>1, ZenonT(60) DEF WriterInv
<1>4. CASE /\ \A u \in Threads \ {t} : ~InOp(u)
           /\ \E l \in {"done", "wlog"} : pc' = [pc EXCEPT ![t] = l] /\ (l = "done" <=> lh = <<>>)
           /\ committing'
  <2>1. PICK l \in {"done", "wlog"} : pc' = [pc EXCEPT ![t] = l] /\ (l = "done" <=> lh = <<>>) BY <1>4
  <2>2. \A b \in Home : holder[b] = Nobody BY <1>3, <1>4 DEF WriterInv, InOp
  <2>3. LogTypeOK' BY <1>0, <1>2, <1>4, <2>1 DEF Locs, CommitLocs, end_op
  <2>4. AloneInv' BY <1>1, <1>4, <2>1 DEF AloneInv, InOp, CommitLocs, RecoveryLocs
  <2>5. WriterInv' BY <1>0, <1>4, <2>1, <2>2, FS_EmptySet DEF WriterInv, InOp
  <2>6. ListInv'
    <3>1. \A u \in Threads \ {t} : pc'[u] = pc[u] BY <2>1
    <3>2. pc'[t] = l /\ tail'[t] = 0 /\ lh' = lh /\ hdr' = hdr /\ Len(lh) \in Nat BY <2>1, <1>0
    <3>3. hdr = <<>> BY <1>1 DEF ListInv, CommitLocs, RecoveryLocs
    <3> QED BY <1>1, <2>1, <3>1, <3>2, <3>3 DEF ListInv, InOp, CommitLocs, RecoveryLocs
  <2>7. CacheInv' BY <1>0, <1>1, <2>1, <2>2 DEF CacheInv, bread, Pending, CommitLocs, RecoveryLocs
  <2> QED BY <2>3, <2>4, <2>5, <2>6, <2>7 DEF CoreInv
<1>5. CASE /\ \E u \in Threads \ {t} : InOp(u)
           /\ pc' = wakeup([pc EXCEPT ![t] = "idle"]) /\ committing' = committing
  <2> DEFINE pcs == [pc EXCEPT ![t] = "idle"]
  <2>1. pcs \in [Threads -> Locs] BY DEF Locs
  <2>2. pc' \in [Threads -> Locs] /\ \A u \in Threads : pc'[u] = IF pcs[u] = "asleep" THEN "begin" ELSE pcs[u]
    <3> HIDE DEF pcs
    <3> QED BY <1>5, <2>1, Wakeup DEF pcs
  <2>3. pc'[t] = "idle" /\ \A u \in Threads \ {t} : pc'[u] = IF pc[u] = "asleep" THEN "begin" ELSE pc[u]
    BY <2>2
  <2>4. LogTypeOK' BY <1>0, <1>2, <1>5, <2>2
  <2>5. AloneInv' BY <1>1, <1>5, <2>3 DEF AloneInv, InOp, CommitLocs, RecoveryLocs
  <2>6. WriterInv'
    <3>1. \A b \in Home : holder[b] # Nobody => holder[b] \in Threads \ {t} BY <1>3
    <3>2. \A b \in Home : holder'[b] # Nobody => pc'[holder'[b]] \in {"checked", "panic"} /\ b \in wset'[holder'[b]]
      BY <1>0, <2>3, <3>1 DEF WriterInv
    <3>3. \A u \in Threads : Cardinality(wset'[u]) <= MAXOPBLOCKS /\ (~InOp(u)' => wset'[u] = {})
      <4>1. wset'[t] = {} /\ Cardinality({}) = 0 /\ \A u \in Threads \ {t} : wset'[u] = wset[u] BY <1>0, FS_EmptySet
      <4>2. \A u \in Threads \ {t} : InOp(u) => InOp(u)' BY <2>3 DEF InOp
      <4>3. ASSUME NEW u \in Threads \ {t} PROVE Cardinality(wset'[u]) <= MAXOPBLOCKS /\ (~InOp(u)' => wset'[u] = {})
        BY <4>1, <4>2 DEF WriterInv
      <4>4. Cardinality(wset'[t]) <= MAXOPBLOCKS BY <4>1
      <4> QED BY <4>1, <4>3, <4>4
    <3> QED BY <1>0, <3>2, <3>3 DEF WriterInv
  <2>7. ListInv'
    <3>1. PICK u \in Threads \ {t} : InOp(u) BY <1>5
    <3>2. InOp(u)' BY <2>3, <3>1 DEF InOp
    <3>3. hdr = <<>> BY <1>1 DEF ListInv, CommitLocs, RecoveryLocs
    <3>4. \A x \in Threads : pc'[x] \notin CommitLocs \cup RecoveryLocs BY <1>1, <2>3 DEF CommitLocs, RecoveryLocs
    <3> QED BY <1>0, <3>2, <3>3, <3>4 DEF ListInv, CommitLocs, RecoveryLocs
  <2>8. CacheInv'
    <3>1. \A x \in Threads : pc'[x] \notin CommitLocs \cup RecoveryLocs BY <1>1, <2>3 DEF CommitLocs, RecoveryLocs
    <3>2. \A b \in Home : Pending(b) => Pending(b)' BY <1>0, <3>1 DEF Pending, CommitLocs, RecoveryLocs
    <3>3. \A b \in Home : bread(b)' = bread(b) BY <1>0 DEF bread
    <3> QED BY <1>0, <3>2, <3>3 DEF CacheInv
  <2> QED BY <2>4, <2>5, <2>6, <2>7, <2>8 DEF CoreInv
<1> QED BY <1>4, <1>5, EndCases

-----------------------------------------------------------------------------
(* A thread that commits or recovers is alone, and lh fits its array. *)
LEMMA Alone ==
  ASSUME LogInv, NEW t \in Threads, pc[t] \in CommitLocs \cup RecoveryLocs
  PROVE  /\ \A u \in Threads : ~InOp(u) /\ wset[u] = {}
         /\ \A u \in Threads \ {t} : pc[u] \notin CommitLocs \cup RecoveryLocs
         /\ \A b \in Home : holder[b] = Nobody
         /\ outstanding = 0 /\ Len(lh) \in 0 .. LOGSIZE
<1> USE Constants DEF LogInv, LogTypeOK
<1>1. \A u \in Threads : ~InOp(u) BY DEF AloneInv, InOp, CommitLocs, RecoveryLocs
<1>2. \A u \in Threads : wset[u] = {} BY <1>1 DEF WriterInv
<1>3. \A b \in Home : holder[b] = Nobody BY <1>1 DEF WriterInv, InOp
<1>4. \A u \in Threads \ {t} : pc[u] \notin CommitLocs \cup RecoveryLocs
  BY DEF AloneInv, CommitLocs, RecoveryLocs
<1>5. outstanding = 0
  <2>1. {u \in Threads : InOp(u)} = {} BY <1>1
  <2> QED BY <2>1, FS_EmptySet DEF CountInv
<1>6. Len(lh) \in 0 .. LOGSIZE
  <2> DEFINE W == {w \in Threads \X Home : w[2] \in wset[w[1]] /\ Logged(w[2])}
  <2>1. W = {} BY <1>2
  <2>2. Cardinality(W) = 0 BY <2>1, FS_EmptySet
  <2>3. Len(lh) + outstanding * MAXOPBLOCKS - Cardinality(W) <= LOGSIZE BY DEF ReservationHolds
  <2>4. Len(lh) \in Nat OBVIOUS
  <2> HIDE DEF W
  <2> QED BY <1>5, <2>2, <2>3, <2>4
<1> QED BY <1>1, <1>2, <1>3, <1>4, <1>5, <1>6

(* bwrite() of a block the log or the file system has. *)
LEMMA Bwrite ==
  ASSUME LogTypeOK, NEW to \in LogData \cup Home, NEW v \in Values, bwrite(to, v)
  PROVE  /\ disk' \in [LogData \cup Home -> Values] /\ cache' \in [Home -> Values \cup {Absent}]
         /\ dirty' \in [Home -> BOOLEAN]
         /\ disk' = [disk EXCEPT ![to] = v]
         /\ \A b \in Home \ {to} : bread(b)' = bread(b) /\ dirty'[b] = dirty[b]
         /\ to \in Home => bread(to)' = v
<1> USE Constants DEF LogTypeOK, bwrite
<1>1. disk' = [disk EXCEPT ![to] = v] OBVIOUS
<1>2. disk' \in [LogData \cup Home -> Values] OBVIOUS
<1>3. cache' \in [Home -> Values \cup {Absent}] /\ dirty' \in [Home -> BOOLEAN] OBVIOUS
<1>4. ASSUME NEW b \in Home \ {to} PROVE bread(b)' = bread(b) /\ dirty'[b] = dirty[b]
  BY DEF bread
<1>5. to \in Home => bread(to)' = v BY DEF bread
<1> QED BY <1>1, <1>2, <1>3, <1>4, <1>5

(* bread() returns a value, from the cache or from disk. *)
LEMMA BreadIn ==
  ASSUME LogTypeOK, NEW b \in LogData \cup Home
  PROVE  bread(b) \in Values
BY Constants DEF LogTypeOK, bread

(* write_log(): one block, or the end of the loop. *)
LEMMA WriteLogCore ==
  ASSUME LogInv, NEW t \in Threads, write_log(t)
  PROVE  CoreInv'
<1> USE Constants DEF LogInv, LogTypeOK
<1>0. pc[t] = "wlog" /\ UNCHANGED <<holder, lh, outstanding, committing, wset>> BY DEF write_log
<1>1. /\ \A u \in Threads : ~InOp(u) /\ wset[u] = {}
      /\ \A u \in Threads \ {t} : pc[u] \notin CommitLocs \cup RecoveryLocs
      /\ \A b \in Home : holder[b] = Nobody
      /\ outstanding = 0 /\ Len(lh) \in 0 .. LOGSIZE
  BY <1>0, Alone DEF CommitLocs
<1>2. hdr = <<>> /\ tail[t] \in Nat /\ tail[t] <= Len(lh) BY <1>0, <1>1 DEF ListInv, CommitLocs, RecoveryLocs
<1>3. CASE tail[t] < Len(lh)
  <2>1. tail' = [tail EXCEPT ![t] = @ + 1] /\ hdr' = hdr /\ pc' = pc
    BY <1>3 DEF write_log, CopyLoop
  <2>2. tail[t] + 1 \in LogData \cup Home /\ tail[t] + 1 \in 1 .. Len(lh) BY <1>1, <1>2, <1>3 DEF LogData, Home
  <2>3. PICK to \in LogData \cup Home, v \in Values : to = tail[t] + 1 /\ bwrite(to, v)
    <3>1. bwrite(tail[t] + 1, bread(lh[tail[t] + 1])) BY <1>3 DEF write_log, CopyLoop
    <3>2. bread(lh[tail[t] + 1]) \in Values BY <2>2, BreadIn
    <3> QED BY <2>2, <3>1, <3>2
  <2>4. /\ disk' \in [LogData \cup Home -> Values] /\ cache' \in [Home -> Values \cup {Absent}]
        /\ dirty' \in [Home -> BOOLEAN]
        /\ disk' = [disk EXCEPT ![to] = v]
        /\ \A b \in Home \ {to} : bread(b)' = bread(b) /\ dirty'[b] = dirty[b]
        /\ to \in Home => bread(to)' = v
    <3>1. LogTypeOK OBVIOUS
    <3> HIDE DEF LogTypeOK
    <3> QED BY <2>3, <3>1, Bwrite
  <2>5. LogTypeOK' BY <1>0, <2>1, <2>4
  <2>6. AloneInv' BY <1>0, <2>1 DEF AloneInv, InOp
  <2>7. WriterInv' BY <1>0, <2>1 DEF WriterInv, InOp
  <2>8. ListInv'
    <3>1. tail'[t] <= Len(lh) /\ \A u \in Threads \ {t} : tail'[u] = tail[u] BY <1>2, <1>3, <2>1
    <3> QED BY <1>0, <2>1, <3>1 DEF ListInv, InOp
  <2>9. CacheInv'
    <3>1. ASSUME NEW b \in Home, bread(b)' # disk'[b] PROVE Pending(b)'
      <4>1. b # to
        <5>1. disk'[to] = v BY <2>3, <2>4
        <5> QED BY <3>1, <2>4, <5>1
      <4>2. bread(b) # disk[b] BY <3>1, <4>1, <2>4
      <4>3. Pending(b) BY <4>2, <1>1 DEF CacheInv
      <4>4. dirty'[b] /\ \A u \in Threads : pc'[u] # "install" BY <4>1, <4>3, <2>4, <2>1, <1>0, <1>1 DEF Pending, CommitLocs
      <4> QED BY <4>3, <4>4, <1>0, <2>1 DEF Pending
    <3> QED BY <3>1 DEF CacheInv
  <2> QED BY <2>5, <2>6, <2>7, <2>8, <2>9 DEF CoreInv
<1>4. CASE ~(tail[t] < Len(lh))
  <2>1. tail' = [tail EXCEPT ![t] = 0] /\ pc' = [pc EXCEPT ![t] = "whead"] /\ UNCHANGED <<disk, hdr, cache, dirty>>
    BY <1>4 DEF write_log, CopyLoop
  <2>2. LogTypeOK' BY <1>0, <2>1 DEF Locs, CommitLocs
  <2>3. AloneInv' BY <1>0, <2>1 DEF AloneInv, InOp, CommitLocs, RecoveryLocs
  <2>4. WriterInv' BY <1>0, <1>1, <2>1 DEF WriterInv, InOp
  <2>5. ListInv' BY <1>0, <1>1, <1>2, <2>1 DEF ListInv, InOp, CommitLocs, RecoveryLocs
  <2>6. CacheInv' BY <1>0, <1>1, <2>1 DEF CacheInv, bread, Pending, CommitLocs, RecoveryLocs
  <2> QED BY <2>2, <2>3, <2>4, <2>5, <2>6 DEF CoreInv
<1> QED BY <1>3, <1>4

(* write_head() makes the commit final. *)
LEMMA WriteHeadCore ==
  ASSUME LogInv, NEW t \in Threads, write_head(t)
  PROVE  CoreInv'
<1> USE Constants DEF LogInv, LogTypeOK
<1>0. /\ pc[t] = "whead" /\ hdr' = lh /\ pc' = [pc EXCEPT ![t] = "install"]
      /\ UNCHANGED <<disk, cache, dirty, holder, lh, outstanding, committing, tail, wset>>
  BY DEF write_head
<1>1. /\ \A u \in Threads : ~InOp(u) /\ wset[u] = {}
      /\ \A u \in Threads \ {t} : pc[u] \notin CommitLocs \cup RecoveryLocs
      /\ \A b \in Home : holder[b] = Nobody
      /\ outstanding = 0 /\ Len(lh) \in 0 .. LOGSIZE
  BY <1>0, Alone DEF CommitLocs
<1>2. tail[t] = 0 BY <1>0 DEF ListInv
<1>3. LogTypeOK' BY <1>0 DEF Locs, CommitLocs
<1>4. AloneInv' BY <1>0 DEF AloneInv, InOp, CommitLocs, RecoveryLocs
<1>5. WriterInv' BY <1>0, <1>1 DEF WriterInv, InOp
<1>6. ListInv' BY <1>0, <1>1, <1>2 DEF ListInv, InOp, CommitLocs, RecoveryLocs
<1>7. CacheInv' BY <1>0, <1>1, <1>2 DEF CacheInv, bread, Pending, CommitLocs, RecoveryLocs
<1> QED BY <1>3, <1>4, <1>5, <1>6, <1>7 DEF CoreInv

(* install_trans(), by the commit or by recovery. *)
LEMMA InstallCore ==
  ASSUME LogInv, NEW t \in Threads, NEW here \in {"install", "rinstall"}, NEW next,
         next = IF here = "install" THEN "clear" ELSE "rclear", install_trans(t, here, next)
  PROVE  CoreInv'
<1> USE Constants DEF LogInv, LogTypeOK
<1>0. pc[t] = here /\ UNCHANGED <<holder, lh, outstanding, committing, wset>> BY DEF install_trans
<1>1. /\ \A u \in Threads : ~InOp(u) /\ wset[u] = {}
      /\ \A u \in Threads \ {t} : pc[u] \notin CommitLocs \cup RecoveryLocs
      /\ \A b \in Home : holder[b] = Nobody
      /\ outstanding = 0 /\ Len(lh) \in 0 .. LOGSIZE
  BY <1>0, Alone DEF CommitLocs, RecoveryLocs
<1>2. lh = hdr /\ tail[t] \in Nat /\ tail[t] <= Len(lh) BY <1>0 DEF ListInv
<1>3. CASE tail[t] < Len(lh)
  <2>1. tail' = [tail EXCEPT ![t] = @ + 1] /\ hdr' = hdr /\ pc' = pc
    BY <1>3 DEF install_trans, CopyLoop
  <2>2. tail[t] + 1 \in LogData \cup Home /\ tail[t] + 1 \in 1 .. Len(lh) /\ lh[tail[t] + 1] \in Home
    BY <1>1, <1>2, <1>3 DEF LogData, Home
  <2>3. PICK to \in Home, v \in Values : to = lh[tail[t] + 1] /\ bwrite(to, v)
    <3>1. bwrite(lh[tail[t] + 1], bread(tail[t] + 1)) BY <1>3 DEF install_trans, CopyLoop
    <3>2. bread(tail[t] + 1) \in Values BY <2>2, BreadIn
    <3> QED BY <2>2, <3>1, <3>2
  <2>4. /\ disk' \in [LogData \cup Home -> Values] /\ cache' \in [Home -> Values \cup {Absent}]
        /\ dirty' \in [Home -> BOOLEAN]
        /\ disk' = [disk EXCEPT ![to] = v]
        /\ \A b \in Home \ {to} : bread(b)' = bread(b) /\ dirty'[b] = dirty[b]
        /\ to \in Home => bread(to)' = v
    <3>1. LogTypeOK OBVIOUS
    <3> HIDE DEF LogTypeOK
    <3> QED BY <2>3, <3>1, Bwrite
  <2>5. LogTypeOK' BY <1>0, <2>1, <2>4
  <2>6. AloneInv' BY <1>0, <2>1 DEF AloneInv, InOp
  <2>7. WriterInv' BY <1>0, <2>1 DEF WriterInv, InOp
  <2>8. ListInv'
    <3>1. tail'[t] <= Len(lh) /\ \A u \in Threads \ {t} : tail'[u] = tail[u] BY <1>2, <1>3, <2>1
    <3> QED BY <1>0, <2>1, <3>1 DEF ListInv, InOp
  <2>9. CacheInv'
    <3>1. ASSUME NEW b \in Home, bread(b)' # disk'[b] PROVE Pending(b)'
      <4>1. b # to
        <5>1. disk'[to] = v BY <2>3, <2>4
        <5> QED BY <3>1, <2>3, <2>4, <5>1
      <4>2. bread(b) # disk[b] BY <3>1, <4>1, <2>4
      <4>3. Pending(b) BY <4>2, <1>1 DEF CacheInv
      <4>4. here = "install" BY <4>3, <1>0 DEF Pending, RecoveryLocs
      <4>5. PICK i \in 1 .. Len(lh) : lh[i] = b /\ \A u \in Threads : pc[u] = "install" => tail[u] < i
        BY <4>3 DEF Pending
      <4>6. tail'[t] < i
        <5>1. tail[t] < i BY <4>4, <4>5, <1>0
        <5>2. i # tail[t] + 1 BY <4>1, <4>5, <2>3
        <5>3. tail'[t] = tail[t] + 1 BY <2>1
        <5> QED BY <5>1, <5>2, <5>3, <1>2
      <4>7. \A u \in Threads : pc'[u] = "install" => tail'[u] < i
        BY <4>5, <4>6, <2>1, <1>1 DEF CommitLocs
      <4>8. dirty'[b] BY <4>1, <4>3, <2>4 DEF Pending
      <4>9. \E k \in 1 .. Len(lh') : lh'[k] = b /\ \A u \in Threads : pc'[u] = "install" => tail'[u] < k
        BY <4>5, <4>7, <1>0
      <4> QED BY <4>3, <4>8, <4>9, <2>1 DEF Pending
    <3> QED BY <3>1 DEF CacheInv
  <2> QED BY <2>5, <2>6, <2>7, <2>8, <2>9 DEF CoreInv
<1>4. CASE ~(tail[t] < Len(lh))
  <2>1. tail' = [tail EXCEPT ![t] = 0] /\ pc' = [pc EXCEPT ![t] = next] /\ UNCHANGED <<disk, hdr, cache, dirty>>
    BY <1>4 DEF install_trans, CopyLoop
  <2>2. LogTypeOK' BY <1>0, <2>1 DEF Locs, CommitLocs, RecoveryLocs
  <2>3. AloneInv' BY <1>0, <2>1 DEF AloneInv, InOp, CommitLocs, RecoveryLocs
  <2>4. WriterInv' BY <1>0, <1>1, <2>1 DEF WriterInv, InOp
  <2>5. ListInv' BY <1>0, <1>1, <1>2, <2>1 DEF ListInv, InOp, CommitLocs, RecoveryLocs
  <2>6. CacheInv'
    <3>1. \A b \in Home : ~Pending(b) BY <1>0, <1>2, <1>4 DEF Pending, RecoveryLocs
    <3> QED BY <1>1, <3>1, <2>1 DEF CacheInv, bread
  <2> QED BY <2>2, <2>3, <2>4, <2>5, <2>6 DEF CoreInv
<1> QED BY <1>3, <1>4

(* log.lh.n = 0; write_head(). *)
LEMMA ClearCore ==
  ASSUME LogInv, NEW t \in Threads, ClearHead(t, "clear", "done") \/ ClearHead(t, "rclear", "idle")
  PROVE  CoreInv'
<1> USE Constants DEF LogInv, LogTypeOK
<1>0. PICK l \in {"done", "idle"} :
      /\ pc[t] = (IF l = "done" THEN "clear" ELSE "rclear") /\ pc' = [pc EXCEPT ![t] = l]
  BY DEF ClearHead
<1>a. lh' = <<>> /\ hdr' = <<>> /\ UNCHANGED <<disk, cache, dirty, holder, outstanding, committing, tail, wset>>
  BY DEF ClearHead
<1>1. /\ \A u \in Threads : ~InOp(u) /\ wset[u] = {}
      /\ \A u \in Threads \ {t} : pc[u] \notin CommitLocs \cup RecoveryLocs
      /\ \A b \in Home : holder[b] = Nobody
  BY <1>0, Alone DEF CommitLocs, RecoveryLocs
<1>3. LogTypeOK' BY <1>0, <1>a, NoList DEF Locs, CommitLocs
<1>4. AloneInv' BY <1>0, <1>a, <1>1 DEF AloneInv, InOp, CommitLocs, RecoveryLocs
<1>5. WriterInv' BY <1>0, <1>a, <1>1, FS_EmptySet DEF WriterInv, InOp
<1>6. ListInv' BY <1>0, <1>a, <1>1 DEF ListInv, Distinct, InOp, CommitLocs, RecoveryLocs
<1>7. CacheInv'
  <2>1. \A b \in Home : ~Pending(b) BY <1>0 DEF Pending, RecoveryLocs
  <2> QED BY <1>1, <2>1, <1>a DEF CacheInv, bread
<1> QED BY <1>3, <1>4, <1>5, <1>6, <1>7 DEF CoreInv

(* After the commit the log is open again. *)
LEMMA DoneCore ==
  ASSUME LogInv, NEW t \in Threads, CommitDone(t)
  PROVE  CoreInv'
<1> USE Constants DEF LogInv, LogTypeOK
<1>0. /\ pc[t] = "done" /\ committing' = FALSE
      /\ UNCHANGED <<disk, hdr, cache, dirty, holder, lh, outstanding, tail, wset>>
  BY DEF CommitDone
<1>1. /\ \A u \in Threads : ~InOp(u) /\ wset[u] = {}
      /\ \A u \in Threads \ {t} : pc[u] \notin CommitLocs \cup RecoveryLocs
      /\ \A b \in Home : holder[b] = Nobody
  BY <1>0, Alone DEF CommitLocs
<1>2. lh = <<>> /\ hdr = <<>> BY <1>0, <1>1 DEF ListInv, CommitLocs, RecoveryLocs
<1> DEFINE pcs == [pc EXCEPT ![t] = "idle"]
<1>3. pc' \in [Threads -> Locs] /\ \A u \in Threads : pc'[u] = IF pcs[u] = "asleep" THEN "begin" ELSE pcs[u]
  <2>1. pcs \in [Threads -> Locs] BY DEF Locs
  <2>2. pc' = wakeup(pcs) BY DEF CommitDone
  <2> HIDE DEF pcs
  <2> QED BY <2>1, <2>2, Wakeup
<1>4. \A u \in Threads : pc'[u] \notin CommitLocs \cup RecoveryLocs /\ ~InOp(u)'
  BY <1>1, <1>3 DEF CommitLocs, RecoveryLocs, InOp
<1>5. LogTypeOK' BY <1>0, <1>3
<1>6. AloneInv' BY <1>0, <1>4 DEF AloneInv, InOp, CommitLocs, RecoveryLocs
<1>7. WriterInv' BY <1>0, <1>1, <1>4, FS_EmptySet DEF WriterInv
<1>8. ListInv' BY <1>0, <1>2, <1>4 DEF ListInv, CommitLocs, RecoveryLocs
<1>9. CacheInv'
  <2>1. \A b \in Home : ~Pending(b) BY <1>0 DEF Pending
  <2> QED BY <1>1, <2>1, <1>0 DEF CacheInv, bread
<1> QED BY <1>5, <1>6, <1>7, <1>8, <1>9 DEF CoreInv

(* Recovery reads the header the crash left. *)
LEMMA ReadHeadCore ==
  ASSUME LogInv, NEW t \in Threads, read_head(t)
  PROVE  CoreInv'
<1> USE Constants DEF LogInv, LogTypeOK
<1>0. /\ pc[t] = "rhead" /\ lh' = hdr /\ pc' = [pc EXCEPT ![t] = "rinstall"]
      /\ UNCHANGED <<disk, hdr, cache, dirty, holder, outstanding, committing, tail, wset>>
  BY DEF read_head
<1>1. /\ \A u \in Threads : ~InOp(u) /\ wset[u] = {}
      /\ \A u \in Threads \ {t} : pc[u] \notin CommitLocs \cup RecoveryLocs
      /\ \A b \in Home : holder[b] = Nobody
  BY <1>0, Alone DEF RecoveryLocs
<1>2. tail[t] = 0 /\ Len(hdr) \in Nat BY <1>0 DEF ListInv
<1>3. LogTypeOK' BY <1>0 DEF Locs, RecoveryLocs
<1>4. AloneInv' BY <1>0 DEF AloneInv, InOp, CommitLocs, RecoveryLocs
<1>5. WriterInv' BY <1>0, <1>1 DEF WriterInv, InOp
<1>6. ListInv' BY <1>0, <1>1, <1>2 DEF ListInv, InOp, CommitLocs, RecoveryLocs
<1>7. CacheInv'
  <2>1. \A b \in Home : ~Pending(b) BY <1>0 DEF Pending, RecoveryLocs
  <2> QED BY <1>1, <2>1, <1>0 DEF CacheInv, bread
<1> QED BY <1>3, <1>4, <1>5, <1>6, <1>7 DEF CoreInv

-----------------------------------------------------------------------------
(* The two counts. *)
Open == {t \in Threads : InOp(t)}

(* The operations that are open can be counted. *)
LEMMA OpenFinite == IsFiniteSet(Open) /\ IsFiniteSet(Open') /\ Cardinality(Open) \in Nat
<1>1. IsFiniteSet(Open) /\ IsFiniteSet(Open')
  <2>1. Open \in SUBSET Threads /\ Open' \in SUBSET Threads BY DEF Open
  <2> QED BY <2>1, Constants, FS_Subset
<1> QED BY <1>1, FS_CardinalityType

(* Only begin_op(), end_op() and a crash change which operations are open. *)
LEMMA SameOpen ==
  ASSUME LogInv, [Next]_vars, ~Crash, \A t \in Threads : ~begin_op(t) /\ ~end_op(t)
  PROVE  Open' = Open /\ outstanding' = outstanding
<1> USE DEF LogInv, LogTypeOK, Open, InOp
<1>1. ASSUME NEW b \in Home, Recycle(b) PROVE Open' = Open /\ outstanding' = outstanding
  BY <1>1 DEF Recycle
<1>2. ASSUME NEW t \in Threads, NEW b \in Home, NEW v \in Values, Modify(t, b, v)
      PROVE Open' = Open /\ outstanding' = outstanding
  BY <1>2 DEF Modify
<1>3. ASSUME NEW t \in Threads, NEW b \in Home, log_write(t, b)
      PROVE Open' = Open /\ outstanding' = outstanding
  BY <1>3 DEF log_write
<1>4. ASSUME NEW t \in Threads, commit(t) PROVE Open' = Open /\ outstanding' = outstanding
  <2>1. CASE write_log(t) BY <2>1 DEF write_log, CopyLoop
  <2>2. CASE write_head(t) BY <2>2 DEF write_head
  <2>3. CASE install_trans(t, "install", "clear") BY <2>3 DEF install_trans, CopyLoop
  <2>4. CASE ClearHead(t, "clear", "done") BY <2>4 DEF ClearHead
  <2>5. CASE CommitDone(t)
    <3>1. \A u \in Threads : pc'[u] = IF [pc EXCEPT ![t] = "idle"][u] = "asleep" THEN "begin" ELSE [pc EXCEPT ![t] = "idle"][u]
      BY <2>5 DEF CommitDone, wakeup
    <3>2. pc[t] = "done" /\ outstanding' = outstanding BY <2>5 DEF CommitDone
    <3> QED BY <3>1, <3>2
  <2> QED BY <1>4, <2>1, <2>2, <2>3, <2>4, <2>5 DEF commit
<1>5. ASSUME NEW t \in Threads, recover_from_log(t) PROVE Open' = Open /\ outstanding' = outstanding
  <2>1. CASE read_head(t) BY <2>1 DEF read_head
  <2>2. CASE install_trans(t, "rinstall", "rclear") BY <2>2 DEF install_trans, CopyLoop
  <2>3. CASE ClearHead(t, "rclear", "idle") BY <2>3 DEF ClearHead
  <2> QED BY <1>5, <2>1, <2>2, <2>3 DEF recover_from_log
<1>6. CASE UNCHANGED vars BY <1>6 DEF vars
<1> QED BY <1>1, <1>2, <1>3, <1>4, <1>5, <1>6 DEF Next, Operation

(* outstanding counts the operations that are open. *)
LEMMA NextCount ==
  ASSUME LogInv, [Next]_vars
  PROVE  CountInv'
<1> USE Constants DEF LogTypeOK, Open
<1>0. outstanding = Cardinality(Open) /\ LogTypeOK BY DEF LogInv, CountInv
<1> SUFFICES outstanding' = Cardinality(Open') BY DEF CountInv
<1>1. CASE Crash
  <2>1. Open' = {} /\ outstanding' = 0 BY <1>1 DEF Crash, InOp
  <2> QED BY <2>1, FS_EmptySet
<1>2. ASSUME NEW t \in Threads, begin_op(t) PROVE outstanding' = Cardinality(Open')
  <2>1. CASE MayBegin
    <3>1. outstanding' = outstanding + 1 /\ Open' = Open \cup {t} /\ t \notin Open
      BY <1>0, <1>2, <2>1 DEF begin_op, InOp
    <3> HIDE DEF Open
    <3> QED BY <1>0, <3>1, OpenFinite, FS_AddElement
  <2>2. CASE ~MayBegin
    <3>1. outstanding' = outstanding /\ Open' = Open BY <1>0, <1>2, <2>2 DEF begin_op, InOp
    <3> QED BY <1>0, <3>1
  <2> QED BY <2>1, <2>2
<1>3. ASSUME NEW t \in Threads, end_op(t) PROVE outstanding' = Cardinality(Open')
  <2>1. outstanding' = outstanding - 1 /\ pc[t] = "in" BY <1>3 DEF end_op
  <2>2. Open' = Open \ {t} /\ t \in Open
    <3>1. CASE \E l \in {"done", "wlog"} : pc' = [pc EXCEPT ![t] = l] BY <3>1, <1>0, <2>1 DEF InOp
    <3>2. CASE pc' = wakeup([pc EXCEPT ![t] = "idle"])
      <4>1. \A u \in Threads : pc'[u] = IF [pc EXCEPT ![t] = "idle"][u] = "asleep" THEN "begin" ELSE [pc EXCEPT ![t] = "idle"][u]
        BY <3>2 DEF wakeup
      <4> QED BY <4>1, <1>0, <2>1 DEF InOp
    <3> QED BY <1>3, <3>1, <3>2, EndCases
  <2> HIDE DEF Open
  <2> QED BY <1>0, <2>1, <2>2, OpenFinite, FS_RemoveElement
<1>4. CASE ~Crash /\ \A t \in Threads : ~begin_op(t) /\ ~end_op(t)
  <2>1. Open' = Open /\ outstanding' = outstanding BY <1>4, SameOpen
  <2> QED BY <1>0, <2>1
<1> QED BY <1>1, <1>2, <1>3, <1>4

(* The writes of open operations that the log already has room for. *)
Absorbed(ws, l) == {w \in Threads \X Home : w[2] \in ws[w[1]] /\ \E i \in 1 .. Len(l) : l[i] = w[2]}

(* The blocks absorbed by the log can be counted. *)
LEMMA AbsorbedFinite ==
  ASSUME NEW ws, NEW l
  PROVE  IsFiniteSet(Absorbed(ws, l)) /\ Cardinality(Absorbed(ws, l)) \in Nat
<1>1. IsFiniteSet(Threads \X Home) BY Constants, FS_Product
<1>2. Absorbed(ws, l) \in SUBSET (Threads \X Home) BY DEF Absorbed
<1>3. IsFiniteSet(Absorbed(ws, l)) BY <1>1, <1>2, FS_Subset
<1> QED BY <1>3, FS_CardinalityType

(* The reservation of begin_op(), with absorbed blocks counted once. *)
LEMMA ReservationIs ==
  /\ ReservationHolds <=> Len(lh) + outstanding * MAXOPBLOCKS - Cardinality(Absorbed(wset, lh)) <= LOGSIZE
  /\ ReservationHolds' <=> Len(lh') + outstanding' * MAXOPBLOCKS - Cardinality(Absorbed(wset', lh')) <= LOGSIZE
BY DEF ReservationHolds, Absorbed, Logged

(* A block an operation writes twice is counted once. *)
LEMMA ModifyReserve ==
  ASSUME LogInv, NEW t \in Threads, NEW b \in Home, NEW v \in Values, Modify(t, b, v)
  PROVE  ReservationHolds'
<1> USE Constants DEF LogInv, LogTypeOK
<1>1. Absorbed(wset, lh) \in SUBSET Absorbed(wset', lh') BY DEF Modify, Absorbed
<1>2. lh' = lh /\ outstanding' = outstanding BY DEF Modify
<1> DEFINE A == Absorbed(wset, lh)
           B == Absorbed(wset', lh')
           m == outstanding * MAXOPBLOCKS
<1>3. Cardinality(A) <= Cardinality(B) /\ Cardinality(A) \in Nat /\ Cardinality(B) \in Nat
  BY <1>1, AbsorbedFinite, FS_Subset
<1>4. m \in Int /\ Len(lh) \in Nat /\ Len(lh) + m - Cardinality(A) <= LOGSIZE BY ReservationIs
<1> HIDE DEF A, B, m
<1>5. Len(lh) + m - Cardinality(B) <= LOGSIZE BY <1>3, <1>4, SMTT(60)
<1> QED BY <1>2, <1>5, ReservationIs DEF B, m

(* log_write() uses up what begin_op() reserved. *)
LEMMA LogWriteReserve ==
  ASSUME LogInv, NEW t \in Threads, NEW b \in Home, log_write(t, b)
  PROVE  ReservationHolds'
<1> USE Constants DEF LogInv, LogTypeOK
<1>0. outstanding' = outstanding /\ wset' = wset /\ holder[b] = t /\ b \in wset[t]
  BY DEF log_write, WriterInv
<1>1. CASE Logged(b)
  <2>1. lh' = lh BY <1>1 DEF log_write
  <2> QED BY <1>0, <2>1, ReservationIs
<1>2. CASE ~Logged(b)
  <2>1. lh' = Append(lh, b) /\ \A i \in 1 .. Len(lh) : lh[i] # b BY <1>2 DEF log_write, Logged
  <2>2. /\ Len(lh') = Len(lh) + 1 /\ lh'[Len(lh) + 1] = b
        /\ \A i \in 1 .. Len(lh) : lh'[i] = lh[i]
    BY <2>1, ListAppend DEF ListInv
  <2> DEFINE A == Absorbed(wset, lh)
             B == Absorbed(wset', lh')
             C == A \cup {<<t, b>>}
             m == outstanding * MAXOPBLOCKS
  <2>3. <<t, b>> \notin A BY <2>1 DEF Absorbed
  <2>4. A \subseteq B
    <3>1. ASSUME NEW c, NEW i \in 1 .. Len(lh), lh[i] = c PROVE \E j \in 1 .. Len(lh') : lh'[j] = c
      <4>1. i \in 1 .. Len(lh') /\ lh'[i] = c BY <2>2, <3>1
      <4> QED BY <4>1
    <3> QED BY <1>0, <3>1 DEF Absorbed
  <2>5. <<t, b>> \in B
    <3>1. Len(lh) + 1 \in 1 .. Len(lh') BY <2>2
    <3>2. \E j \in 1 .. Len(lh') : lh'[j] = b BY <2>2, <3>1
    <3> QED BY <1>0, <3>2 DEF Absorbed
  <2>6. m \in Int /\ Len(lh) \in Nat /\ Len(lh) + m - Cardinality(A) <= LOGSIZE BY ReservationIs
  <2>7. IsFiniteSet(A) /\ Cardinality(A) \in Nat /\ IsFiniteSet(B) /\ Cardinality(B) \in Nat BY AbsorbedFinite
  <2> HIDE DEF A, B, m
  <2>8. Cardinality(C) = Cardinality(A) + 1 BY <2>3, <2>7, FS_AddElement
  <2>9. Cardinality(C) <= Cardinality(B)
    <3>1. C \in SUBSET B BY <2>4, <2>5
    <3> QED BY <3>1, <2>7, FS_Subset
  <2>10. (Len(lh) + 1) + m - Cardinality(B) <= LOGSIZE BY <2>6, <2>7, <2>8, <2>9
  <2> QED BY <1>0, <2>2, <2>10, ReservationIs DEF B, m
<1> QED BY <1>1, <1>2

(* An operation that ends gives back what it reserved and did not use. *)
LEMMA EndReserve ==
  ASSUME LogInv, NEW t \in Threads, end_op(t)
  PROVE  ReservationHolds'
<1> USE Constants DEF LogInv, LogTypeOK
<1>0. outstanding' = outstanding - 1 /\ wset' = [wset EXCEPT ![t] = {}] /\ lh' = lh BY DEF end_op
<1> DEFINE A == Absorbed(wset, lh)
           B == Absorbed(wset', lh')
           D == {t} \X wset[t]
           m == outstanding * MAXOPBLOCKS
<1>1. A \in SUBSET (B \cup D)
  <2>1. ASSUME NEW u \in Threads, NEW c \in Home, <<u, c>> \in A PROVE <<u, c>> \in B \cup D
    <3>1. c \in wset[u] /\ \E i \in 1 .. Len(lh) : lh[i] = c BY <2>1 DEF Absorbed
    <3>2. CASE u = t BY <3>1, <3>2
    <3>3. CASE u # t
      <4>1. wset'[u] = wset[u] BY <1>0, <3>3
      <4>2. <<u, c>> \in B BY <1>0, <3>1, <4>1 DEF Absorbed
      <4> QED BY <4>2
    <3> QED BY <3>2, <3>3
  <2>2. \A w \in A : \E u \in Threads, c \in Home : w = <<u, c>> BY DEF Absorbed
  <2> HIDE DEF A, B, D
  <2> QED BY <2>1, <2>2
<1>2. IsFiniteSet(D) /\ Cardinality(D) <= MAXOPBLOCKS /\ Cardinality(D) \in Nat
  <2>1. IsFiniteSet(wset[t])
    <3>1. wset[t] \in SUBSET Home OBVIOUS
    <3> QED BY <3>1, FS_Subset
  <2>2. IsFiniteSet({t}) /\ Cardinality({t}) = 1 BY FS_Singleton
  <2>3. IsFiniteSet(D) /\ Cardinality(D) = 1 * Cardinality(wset[t])
    BY <2>1, <2>2, FS_Product
  <2>4. Cardinality(wset[t]) \in Nat /\ Cardinality(wset[t]) <= MAXOPBLOCKS BY <2>1, FS_CardinalityType DEF WriterInv
  <2> HIDE DEF D
  <2> QED BY <2>3, <2>4
<1>3. IsFiniteSet(B) /\ Cardinality(B) \in Nat /\ Cardinality(A) \in Nat BY AbsorbedFinite
<1>4. m \in Int /\ Len(lh) \in Nat /\ Len(lh) + m - Cardinality(A) <= LOGSIZE BY ReservationIs
<1>5. (outstanding - 1) * MAXOPBLOCKS = m - MAXOPBLOCKS OBVIOUS
<1> HIDE DEF A, B, D, m
<1>6. IsFiniteSet(B \cup D) /\ Cardinality(B \cup D) = Cardinality(B) + Cardinality(D) - Cardinality(B \cap D)
  BY <1>2, <1>3, FS_Union
<1>7. Cardinality(A) <= Cardinality(B \cup D) BY <1>1, <1>6, FS_Subset
<1>8. Cardinality(B \cap D) \in Nat BY <1>2, <1>3, FS_Intersection, FS_CardinalityType
<1>9. Len(lh) + (m - MAXOPBLOCKS) - Cardinality(B) <= LOGSIZE BY <1>2, <1>3, <1>4, <1>6, <1>7, <1>8, SMTT(60)
<1> QED BY <1>0, <1>5, <1>9, ReservationIs DEF B

(* The reservation holds after every step. *)
LEMMA NextReserve ==
  ASSUME LogInv, [Next]_vars
  PROVE  ReservationHolds'
<1> USE Constants DEF LogInv, LogTypeOK
<1> DEFINE Small == Len(lh') <= LOGSIZE /\ Len(lh') \in Nat /\ outstanding' = 0
           Same == UNCHANGED <<lh, outstanding, wset>>
<1>1. ASSUME Small PROVE ReservationHolds'
  <2> DEFINE B == Absorbed(wset', lh')
  <2>1. Cardinality(B) \in Nat BY AbsorbedFinite
  <2> HIDE DEF B
  <2>2. Len(lh') + 0 * MAXOPBLOCKS - Cardinality(B) <= LOGSIZE BY <1>1, <2>1
  <2> QED BY <1>1, <2>2, ReservationIs DEF B
<1>2. ASSUME Same PROVE ReservationHolds' BY <1>2, ReservationIs
<1>3. CASE Crash
  <2>1. lh' = <<>> /\ outstanding' = 0 BY <1>3 DEF Crash
  <2> QED BY <1>1, <2>1, NoList
<1>4. ASSUME NEW b \in Home, Recycle(b) PROVE ReservationHolds' BY <1>2, <1>4 DEF Recycle
<1>5. ASSUME NEW t \in Threads, begin_op(t) PROVE ReservationHolds'
  <2>1. CASE ~MayBegin BY <2>1, <1>2, <1>5 DEF begin_op
  <2>2. CASE MayBegin
    <3> DEFINE B == Absorbed(wset', lh')
    <3>1. Cardinality(B) \in Nat BY AbsorbedFinite
    <3>2. lh' = lh /\ outstanding' = outstanding + 1 BY <1>5, <2>2 DEF begin_op
    <3>3. Len(lh) + (outstanding + 1) * MAXOPBLOCKS <= LOGSIZE /\ (outstanding + 1) * MAXOPBLOCKS \in Int /\ Len(lh) \in Nat
      BY <2>2 DEF MayBegin
    <3> HIDE DEF B
    <3>4. Len(lh) + (outstanding + 1) * MAXOPBLOCKS - Cardinality(B) <= LOGSIZE BY <3>1, <3>3
    <3> QED BY <3>2, <3>4, ReservationIs DEF B
  <2> QED BY <2>1, <2>2
<1>6. ASSUME NEW t \in Threads, Operation(t) PROVE ReservationHolds'
  BY <1>6, ModifyReserve, LogWriteReserve DEF Operation
<1>7. ASSUME NEW t \in Threads, end_op(t) PROVE ReservationHolds' BY <1>7, EndReserve
<1>8. ASSUME NEW t \in Threads, commit(t) \/ recover_from_log(t) PROVE ReservationHolds'
  <2>1. CASE write_log(t) BY <2>1, <1>2 DEF write_log
  <2>2. CASE write_head(t) BY <2>2, <1>2 DEF write_head
  <2>3. CASE install_trans(t, "install", "clear") \/ install_trans(t, "rinstall", "rclear")
    BY <2>3, <1>2 DEF install_trans
  <2>4. CASE ClearHead(t, "clear", "done") \/ ClearHead(t, "rclear", "idle")
    <3>1. pc[t] \in CommitLocs \cup RecoveryLocs /\ lh' = <<>> /\ outstanding' = outstanding
      BY <2>4 DEF ClearHead, CommitLocs, RecoveryLocs
    <3>2. outstanding = 0 BY <3>1, Alone
    <3> QED BY <3>1, <3>2, <1>1, NoList
  <2>5. CASE CommitDone(t) BY <2>5, <1>2 DEF CommitDone
  <2>6. CASE read_head(t)
    <3>1. pc[t] \in CommitLocs \cup RecoveryLocs /\ lh' = hdr /\ outstanding' = outstanding
      BY <2>6 DEF read_head, RecoveryLocs
    <3>2. outstanding = 0 BY <3>1, Alone
    <3>3. Len(hdr) <= LOGSIZE /\ Len(hdr) \in Nat BY DEF ListInv
    <3> QED BY <3>1, <3>2, <3>3, <1>1
  <2> QED BY <1>8, <2>1, <2>2, <2>3, <2>4, <2>5, <2>6 DEF commit, recover_from_log
<1>9. CASE UNCHANGED vars BY <1>9, <1>2 DEF vars
<1> QED BY <1>3, <1>4, <1>5, <1>6, <1>7, <1>8, <1>9 DEF Next

(* Every step keeps the core invariant. *)
LEMMA NextCore ==
  ASSUME LogInv, [Next]_vars
  PROVE  CoreInv'
<1>0. CoreInv BY DEF LogInv, CoreInv
<1>1. CASE Crash BY <1>0, <1>1, CrashCore
<1>2. ASSUME NEW b \in Home, Recycle(b) PROVE CoreInv' BY <1>0, <1>2, RecycleCore
<1>3. ASSUME NEW t \in Threads, begin_op(t) PROVE CoreInv' BY <1>0, <1>3, BeginCore
<1>4. ASSUME NEW t \in Threads, Operation(t) PROVE CoreInv'
  BY <1>0, <1>4, ModifyCore, LogWriteCore DEF Operation
<1>5. ASSUME NEW t \in Threads, end_op(t) PROVE CoreInv' BY <1>5, EndCore
<1>6. ASSUME NEW t \in Threads, commit(t) PROVE CoreInv'
  <2>1. CASE install_trans(t, "install", "clear") BY <2>1, InstallCore
  <2> QED BY <1>6, <2>1, WriteLogCore, WriteHeadCore, ClearCore, DoneCore DEF commit
<1>7. ASSUME NEW t \in Threads, recover_from_log(t) PROVE CoreInv'
  <2>1. CASE install_trans(t, "rinstall", "rclear") BY <2>1, InstallCore
  <2> QED BY <1>7, <2>1, ReadHeadCore, ClearCore DEF recover_from_log
<1>8. CASE UNCHANGED vars
  <2> USE <1>8 DEF vars, CoreInv
  <2>1. LogTypeOK' BY <1>0 DEF LogTypeOK
  <2>2. AloneInv' BY <1>0 DEF AloneInv, InOp
  <2>3. WriterInv' BY <1>0 DEF WriterInv, InOp
  <2>4. ListInv' BY <1>0 DEF ListInv, Distinct, InOp
  <2>5. CacheInv' BY <1>0 DEF CacheInv, bread, Pending
  <2> QED BY <2>1, <2>2, <2>3, <2>4, <2>5
<1> QED BY <1>1, <1>2, <1>3, <1>4, <1>5, <1>6, <1>7, <1>8 DEF Next

(* The log's invariant holds in every reachable state. *)
LEMMA LogAlways == Spec => []LogInv
<1>1. LogInv /\ [Next]_vars => LogInv' BY NextCore, NextCount, NextReserve DEF LogInv, CoreInv
<1> QED BY <1>1, InitInv, PTL DEF Spec

(* A commit runs beside no operation, and begin_op()'s reservation keeps   *)
(* lh.block[] from overflowing: AdmissionSafe for any number of threads.   *)
THEOREM AdmissionSafeHolds == Spec => []AdmissionSafe
<1>1. LogInv => AdmissionSafe
  <2> SUFFICES ASSUME LogInv PROVE CommitAlone /\ ReservationHolds BY DEF AdmissionSafe
  <2>1. ASSUME NEW t \in Threads, pc[t] \in CommitLocs
        PROVE  /\ committing
               /\ \A u \in Threads \ {t} : pc[u] \notin CommitLocs /\ ~InOp(u)
               /\ \A b \in Home : holder[b] = Nobody
    <3>1. committing BY <2>1 DEF LogInv, AloneInv
    <3> QED BY <2>1, <3>1, Alone
  <2> QED BY <2>1 DEF CommitAlone, LogInv
<1> QED BY <1>1, LogAlways, PTL

(* Between commits nothing that was written is missing from the disk:      *)
(* QuietIsDurable, also when lh outgrows the blocks of the log.            *)
THEOREM QuietIsDurableHolds == Spec => []QuietIsDurable
<1>1. LogInv => QuietIsDurable
  <2> SUFFICES ASSUME LogInv, Up, outstanding = 0, ~committing
               PROVE  hdr = <<>> /\ \A b \in Home : bread(b) = disk[b]
    BY DEF QuietIsDurable
  <2> USE Constants DEF LogInv, LogTypeOK
  <2>1. \A t \in Threads : ~InOp(t)
    <3>1. Cardinality(Open) = 0 BY DEF CountInv, Open
    <3>2. Open = {} BY <3>1, OpenFinite, FS_EmptySet
    <3> QED BY <3>2 DEF Open
  <2>2. \A t \in Threads : pc[t] \notin CommitLocs \cup RecoveryLocs BY DEF AloneInv, Up
  <2>3. lh = <<>> /\ hdr = <<>> BY <2>1, <2>2 DEF ListInv, CommitLocs, RecoveryLocs
  <2>4. \A b \in Home : holder[b] = Nobody /\ ~Pending(b) BY <2>1, <2>3 DEF WriterInv, InOp, Pending
  <2> QED BY <2>3, <2>4 DEF CacheInv
<1> QED BY <1>1, LogAlways, PTL

-----------------------------------------------------------------------------
(* begin_op() as a sleeper of the log would find it.                       *)
WaitInv == \A t \in Threads : pc[t] = "asleep" => ~MayBegin

(* A step that lets nobody fall asleep and gives no room.                  *)
LEMMA NoMoreRoom ==
  ASSUME WaitInv, \A u \in Threads : pc'[u] = "asleep" => pc[u] = "asleep",
         MayBegin' => MayBegin
  PROVE  WaitInv'
BY DEF WaitInv

(* Every step that gives room wakes the sleepers. *)
LEMMA NextWait ==
  ASSUME LogInv, WaitInv, [Next]_vars
  PROVE  WaitInv'
<1> USE Constants DEF LogInv, LogTypeOK
<1>1. CASE Crash BY <1>1 DEF Crash, WaitInv
<1>2. ASSUME NEW b \in Home, Recycle(b) PROVE WaitInv'
  BY <1>2, NoMoreRoom DEF Recycle, MayBegin
<1>3. ASSUME NEW t \in Threads, begin_op(t) PROVE WaitInv'
  <2>1. CASE MayBegin
    <3>1. \A u \in Threads : pc'[u] # "asleep" BY <1>3, <2>1 DEF begin_op, WaitInv
    <3> QED BY <3>1 DEF WaitInv
  <2>2. CASE ~MayBegin
    <3>1. UNCHANGED <<lh, committing, outstanding>> BY <1>3, <2>2 DEF begin_op
    <3> QED BY <2>2, <3>1 DEF MayBegin, WaitInv
  <2> QED BY <2>1, <2>2
<1>4. ASSUME NEW t \in Threads, NEW b \in Home, NEW v \in Values, Modify(t, b, v) PROVE WaitInv'
  BY <1>4, NoMoreRoom DEF Modify, MayBegin
<1>5. ASSUME NEW t \in Threads, NEW b \in Home, log_write(t, b) PROVE WaitInv'
  <2>1. \A u \in Threads : pc'[u] = "asleep" => pc[u] = "asleep" BY <1>5 DEF log_write
  <2>2. UNCHANGED <<committing, outstanding>> /\ Len(lh') \in Nat /\ Len(lh') >= Len(lh)
    BY <1>5 DEF log_write
  <2>3. outstanding * MAXOPBLOCKS \in Nat /\ (outstanding + 1) * MAXOPBLOCKS \in Nat BY DEF LogTypeOK
  <2>4. MayBegin' => MayBegin
    <3> DEFINE r == (outstanding + 1) * MAXOPBLOCKS
    <3>1. r' = r BY <2>2
    <3>2. r \in Nat BY <2>3
    <3>3. MayBegin = (~committing /\ Len(lh) + r <= LOGSIZE) BY DEF MayBegin
    <3>4. MayBegin' = (~committing' /\ Len(lh') + r' <= LOGSIZE) BY <2>2 DEF MayBegin
    <3> HIDE DEF r
    <3> QED BY <2>2, <3>1, <3>2, <3>3, <3>4
  <2> QED BY <2>1, <2>4, NoMoreRoom
<1>6. ASSUME NEW t \in Threads, end_op(t) PROVE WaitInv'
  <2>1. CASE committing \/ outstanding = 1
    <3>1. committing' BY <1>6, <2>1 DEF end_op
    <3> QED BY <3>1 DEF MayBegin, WaitInv
  <2>2. CASE ~committing /\ outstanding # 1
    <3> DEFINE pcs == [pc EXCEPT ![t] = "idle"]
    <3>1. pcs \in [Threads -> Locs] BY DEF Locs
    <3>2. pc' = wakeup(pcs) BY <1>6, <2>2 DEF end_op
    <3> HIDE DEF pcs
    <3>3. \A u \in Threads : pc'[u] # "asleep" BY <3>1, <3>2, Wakeup
    <3> QED BY <3>3 DEF WaitInv
  <2> QED BY <2>1, <2>2
<1>7. ASSUME NEW t \in Threads, NEW here, NEW next, next # "asleep", install_trans(t, here, next)
      PROVE WaitInv'
  BY <1>7, NoMoreRoom DEF install_trans, CopyLoop, MayBegin
<1>8. ASSUME NEW t \in Threads, write_log(t) \/ write_head(t) PROVE WaitInv'
  BY <1>8, NoMoreRoom DEF write_log, write_head, CopyLoop, MayBegin
<1>9. ASSUME NEW t \in Threads, ClearHead(t, "clear", "done") PROVE WaitInv'
  <2>1. committing' BY <1>9 DEF ClearHead, AloneInv, CommitLocs
  <2> QED BY <2>1 DEF MayBegin, WaitInv
<1>10. ASSUME NEW t \in Threads, CommitDone(t) PROVE WaitInv'
  <2> DEFINE pcs == [pc EXCEPT ![t] = "idle"]
  <2>1. pcs \in [Threads -> Locs] BY DEF Locs
  <2>2. pc' = wakeup(pcs) BY <1>10 DEF CommitDone
  <2> HIDE DEF pcs
  <2>3. \A u \in Threads : pc'[u] # "asleep" BY <2>1, <2>2, Wakeup
  <2> QED BY <2>3 DEF WaitInv
<1>11. ASSUME NEW t \in Threads, read_head(t) \/ ClearHead(t, "rclear", "idle") PROVE WaitInv'
  <2>1. pc[t] \in RecoveryLocs /\ \E l \in {"rinstall", "idle"} : pc' = [pc EXCEPT ![t] = l]
    BY <1>11 DEF read_head, ClearHead, RecoveryLocs
  <2>2. \A u \in Threads : pc'[u] # "asleep" BY <2>1 DEF AloneInv
  <2> QED BY <2>2 DEF WaitInv
<1>12. CASE UNCHANGED vars BY <1>12 DEF vars, WaitInv, MayBegin
<1> QED
  BY <1>1, <1>2, <1>3, <1>4, <1>5, <1>6, <1>7, <1>8, <1>9, <1>10, <1>11, <1>12
  DEF Next, Operation, commit, recover_from_log

(* Nobody sleeps in begin_op() who could begin, and whoever sleeps there   *)
(* has an operation or a commit to wake it: the empty log has room for     *)
(* one operation.                                                          *)
THEOREM NoForgottenWaiterHolds == Spec => []NoForgottenWaiter
<1>1. Init => WaitInv BY DEF Init, WaitInv
<1>2. LogInv /\ WaitInv => NoForgottenWaiter
  <2> SUFFICES ASSUME LogInv, WaitInv, NEW t \in Threads, pc[t] = "asleep"
               PROVE  ~MayBegin /\ \E u \in Threads : InOp(u) \/ pc[u] \in CommitLocs
    BY DEF NoForgottenWaiter
  <2> USE Constants DEF LogInv, LogTypeOK
  <2>1. ~MayBegin BY DEF WaitInv
  <2>2. ASSUME \A u \in Threads : ~InOp(u) /\ pc[u] \notin CommitLocs PROVE FALSE
    <3>1. outstanding = 0
      <4>1. Open = {} BY <2>2 DEF Open
      <4> QED BY <4>1, FS_EmptySet DEF CountInv, Open
    <3>2. ~committing BY <2>2 DEF AloneInv
    <3>3. \A u \in Threads : pc[u] \notin RecoveryLocs
      BY DEF AloneInv, RecoveryLocs
    <3>4. lh = <<>> BY <2>2, <3>3 DEF ListInv, CommitLocs, RecoveryLocs
    <3> QED BY <2>1, <3>1, <3>2, <3>4, NoList DEF MayBegin
  <2> QED BY <2>1, <2>2
<1>3. LogInv /\ WaitInv /\ [Next]_vars => WaitInv' BY NextWait
<1> QED BY <1>1, <1>2, <1>3, LogAlways, PTL DEF Spec

-----------------------------------------------------------------------------
(* How far the commit and recovery have copied. *)
CopiedInv == \A t \in Threads :
    /\ pc[t] = "wlog" => \A i \in 1 .. tail[t] : disk[i] = bread(lh[i])
    /\ pc[t] \in {"whead", "install"} => \A i \in 1 .. Len(lh) : disk[i] = bread(lh[i])
    /\ pc[t] \in {"install", "rinstall"} => \A i \in 1 .. tail[t] : disk[lh[i]] = disk[i]
    /\ pc[t] \in {"clear", "rclear"} => \A i \in 1 .. Len(lh) : disk[lh[i]] = disk[i]

(* While operations are open nothing is copied. *)
LEMMA NothingCopied ==
  ASSUME \A u \in Threads : pc'[u] \notin {"wlog", "whead", "install", "rinstall", "clear", "rclear"}
  PROVE  CopiedInv'
BY DEF CopiedInv

(* A block read again after it left the cache is the same. *)
LEMMA RecycleSame ==
  ASSUME LogInv, NEW b \in Home, Recycle(b)
  PROVE  \A c \in Home : bread(c)' = bread(c)
<1> USE Constants DEF LogInv, LogTypeOK, Recycle
<1>1. bread(b) = disk[b] BY DEF CacheInv, Pending
<1> QED BY <1>1 DEF bread

(* The block that write_log() or install_trans() copies. *)
LEMMA CopyOne ==
  ASSUME LogInv, LogFits, CopiedInv, NEW t \in Threads, tail[t] < Len(lh),
         write_log(t) \/ install_trans(t, "install", "clear") \/ install_trans(t, "rinstall", "rclear")
  PROVE  \E k \in 1 .. Len(lh) :
           /\ k = tail[t] + 1 /\ k \in LogData /\ lh[k] \in Home /\ tail' = [tail EXCEPT ![t] = k]
           /\ pc' = pc /\ lh' = lh /\ hdr' = hdr
           /\ pc[t] = "wlog" => /\ disk' = [disk EXCEPT ![k] = bread(lh[k])]
                                /\ \A c \in Home : bread(c)' = bread(c)
           /\ pc[t] # "wlog" => /\ disk' = [disk EXCEPT ![lh[k]] = disk[k]]
                                /\ \A c \in Home : bread(c)' = IF c = lh[k] THEN disk[k] ELSE bread(c)
<1> USE Constants DEF LogInv, LogTypeOK
<1> DEFINE k == tail[t] + 1
<1>1. k \in 1 .. Len(lh) /\ k \in LogData /\ lh[k] \in Home
  <2>1. tail[t] \in Nat /\ Len(lh) \in Nat OBVIOUS
  <2>2. k \in 1 .. Len(lh) BY <2>1
  <2>3. k \in LogData BY <2>1 DEF LogFits, LogData
  <2> QED BY <2>2, <2>3
<1>2. tail' = [tail EXCEPT ![t] = k] /\ pc' = pc /\ lh' = lh /\ hdr' = hdr
  BY DEF write_log, install_trans, CopyLoop
<1>3. CASE write_log(t)
  <2>1. pc[t] = "wlog" /\ bwrite(k, bread(lh[k])) BY <1>3 DEF write_log, CopyLoop
  <2>2. disk' = [disk EXCEPT ![k] = bread(lh[k])] /\ cache' = cache BY <1>1, <2>1 DEF bwrite
  <2>3. \A c \in Home : bread(c)' = bread(c)
    <3>1. \A c \in Home : c # k BY <1>1
    <3> QED BY <2>2, <3>1 DEF bread
  <2> QED BY <1>1, <1>2, <2>1, <2>2, <2>3
<1>4. CASE install_trans(t, "install", "clear") \/ install_trans(t, "rinstall", "rclear")
  <2>1. pc[t] # "wlog" /\ bwrite(lh[k], bread(k)) BY <1>4 DEF install_trans, CopyLoop
  <2>2. bread(k) = disk[k] /\ disk[k] \in Values BY <1>1 DEF bread
  <2>3. disk' = [disk EXCEPT ![lh[k]] = disk[k]] /\ cache' = [cache EXCEPT ![lh[k]] = disk[k]]
    BY <1>1, <2>1, <2>2 DEF bwrite
  <2>4. \A c \in Home : bread(c)' = IF c = lh[k] THEN disk[k] ELSE bread(c)
    BY <1>1, <2>2, <2>3 DEF bread
  <2> QED BY <1>1, <1>2, <2>1, <2>3, <2>4
<1> QED BY <1>3, <1>4

(* write_log() and install_trans() copy one block after the other. *)
LEMMA CopySteps ==
  ASSUME LogInv, LogFits, CopiedInv, NEW t \in Threads,
         write_log(t) \/ install_trans(t, "install", "clear") \/ install_trans(t, "rinstall", "rclear")
  PROVE  CopiedInv'
<1> USE Constants DEF LogInv, LogTypeOK
<1>0. pc[t] \in {"wlog", "install", "rinstall"} /\ lh' = lh BY DEF write_log, install_trans
<1>1. \A u \in Threads \ {t} : pc[u] \notin CommitLocs \cup RecoveryLocs
  BY <1>0, Alone DEF CommitLocs, RecoveryLocs
<1>2. tail[t] \in Nat /\ Len(lh) \in Nat /\ tail[t] <= Len(lh) BY <1>0 DEF ListInv
<1>3. CASE tail[t] < Len(lh)
  <2>1. PICK k \in 1 .. Len(lh) :
           /\ k = tail[t] + 1 /\ k \in LogData /\ lh[k] \in Home /\ tail' = [tail EXCEPT ![t] = k]
           /\ pc' = pc /\ lh' = lh /\ hdr' = hdr
           /\ pc[t] = "wlog" => /\ disk' = [disk EXCEPT ![k] = bread(lh[k])]
                                /\ \A c \in Home : bread(c)' = bread(c)
           /\ pc[t] # "wlog" => /\ disk' = [disk EXCEPT ![lh[k]] = disk[k]]
                                /\ \A c \in Home : bread(c)' = IF c = lh[k] THEN disk[k] ELSE bread(c)
    BY <1>3, CopyOne
  <2>2. \A i \in 1 .. Len(lh) : i \in LogData /\ lh[i] \in Home /\ i # lh[k]
    BY <1>2 DEF LogFits, LogData
  <2>3. tail'[t] = k /\ \A i \in 1 .. k : i \in 1 .. tail[t] \/ i = k BY <1>2, <2>1
  <2>4. CASE pc[t] = "wlog"
    <3>1. ASSUME NEW i \in 1 .. k PROVE disk'[i] = bread(lh[i])'
      <4>0. i \in 1 .. Len(lh) /\ lh[i] \in Home BY <2>1, <2>2, <1>2
      <4>1. bread(lh[i])' = bread(lh[i]) BY <2>1, <4>0, <2>4
      <4>2. i = k => disk'[i] = bread(lh[i]) BY <2>1, <2>2, <2>4
      <4>3. i # k => disk'[i] = bread(lh[i]) BY <2>1, <2>2, <2>3, <2>4 DEF CopiedInv
      <4> QED BY <4>1, <4>2, <4>3
    <3> QED BY <3>1, <2>1, <2>3, <2>4, <1>1 DEF CopiedInv, CommitLocs, RecoveryLocs
  <2>5. CASE pc[t] # "wlog"
    <3>1. ASSUME NEW i \in 1 .. Len(lh) PROVE disk'[i] = disk[i] BY <2>1, <2>2, <2>5
    <3>2. ASSUME NEW i \in 1 .. Len(lh), pc[t] = "install" PROVE disk'[i] = bread(lh[i])'
      <4>1. disk[i] = bread(lh[i]) BY <3>2 DEF CopiedInv
      <4>2. lh[i] = lh[k] => i = k BY DEF ListInv, Distinct
      <4>3. bread(lh[i])' = IF lh[i] = lh[k] THEN disk[k] ELSE bread(lh[i]) BY <2>1, <2>2, <2>5
      <4> QED BY <3>1, <4>1, <4>2, <4>3
    <3>3. ASSUME NEW i \in 1 .. k PROVE disk'[lh[i]] = disk'[i]
      <4>1. i \in 1 .. Len(lh) /\ disk'[i] = disk[i] /\ disk'[k] = disk[k] BY <2>1, <3>1
      <4>2. lh[i] = lh[k] => i = k BY <4>1 DEF ListInv, Distinct
      <4>3. i = k => disk'[lh[i]] = disk[k] BY <2>1, <2>2, <2>5
      <4>4. i # k => disk'[lh[i]] = disk[lh[i]] BY <4>1, <4>2, <2>1, <2>2, <2>5
      <4>5. i # k => disk[lh[i]] = disk[i] BY <2>3, <2>5, <1>0 DEF CopiedInv
      <4> QED BY <4>1, <4>3, <4>4, <4>5
    <3> QED BY <3>2, <3>3, <2>1, <2>3, <2>5, <1>0, <1>1 DEF CopiedInv, CommitLocs, RecoveryLocs
  <2> QED BY <2>4, <2>5
<1>4. CASE ~(tail[t] < Len(lh))
  <2>1. /\ disk' = disk /\ cache' = cache /\ tail[t] = Len(lh)
        /\ pc' = [pc EXCEPT ![t] = IF pc[t] = "wlog" THEN "whead" ELSE IF pc[t] = "install" THEN "clear" ELSE "rclear"]
    BY <1>2, <1>4 DEF write_log, install_trans, CopyLoop
  <2>2. \A c \in LogData \cup Home : bread(c)' = bread(c) BY <2>1 DEF bread
  <2>3. \A i \in 1 .. Len(lh) : lh[i] \in Home OBVIOUS
  <2> QED BY <1>0, <1>1, <2>1, <2>2, <2>3 DEF CopiedInv, CommitLocs, RecoveryLocs
<1> QED BY <1>2, <1>3, <1>4

(* What has been copied so far stays copied until the phase ends. *)
LEMMA NextCopied ==
  ASSUME LogInv, LogFits, CopiedInv, [Next]_vars
  PROVE  CopiedInv'
<1> USE Constants DEF LogInv, LogTypeOK
<1>1. CASE Crash BY <1>1, NothingCopied DEF Crash
<1>2. ASSUME NEW b \in Home, Recycle(b) PROVE CopiedInv'
  <2>1. \A c \in Home : bread(c)' = bread(c) BY <1>2, RecycleSame
  <2>2. UNCHANGED <<pc, tail, lh, disk>> BY <1>2 DEF Recycle
  <2>3. \A i \in 1 .. Len(lh) : lh[i] \in Home OBVIOUS
  <2>4. \A u \in Threads : pc[u] = "wlog" => \A i \in 1 .. tail[u] : i \in 1 .. Len(lh)
    <3>1. \A u \in Threads : tail[u] \in Nat /\ Len(lh) \in Nat OBVIOUS
    <3> QED BY <3>1 DEF ListInv
  <2> QED BY <2>1, <2>2, <2>3, <2>4, SMTT(60) DEF CopiedInv
<1>3. ASSUME NEW t \in Threads, begin_op(t) PROVE CopiedInv'
  <2>1. \E l \in {"in", "asleep"} : pc' = [pc EXCEPT ![t] = l] BY <1>3 DEF begin_op
  <2>2. UNCHANGED <<disk, cache, tail, lh>> BY <1>3 DEF begin_op
  <2> QED BY <2>1, <2>2 DEF CopiedInv, bread
<1>4. ASSUME NEW t \in Threads, Operation(t) PROVE CopiedInv'
  <2>1. InOp(t) /\ \E l \in {"panic", "checked", "in"} : pc' = [pc EXCEPT ![t] = l]
    BY <1>4 DEF Operation, Modify, log_write, InOp
  <2>2. \A u \in Threads : pc[u] \notin CommitLocs \cup RecoveryLocs
    BY <2>1 DEF AloneInv, InOp, CommitLocs, RecoveryLocs
  <2> QED BY <2>1, <2>2, NothingCopied DEF CommitLocs, RecoveryLocs
<1>5. ASSUME NEW t \in Threads, end_op(t) PROVE CopiedInv'
  <2>1. \A u \in Threads : pc[u] \notin CommitLocs \cup RecoveryLocs BY <1>5, EndCases
  <2>2. CASE \E l \in {"done", "wlog"} : pc' = [pc EXCEPT ![t] = l]
    <3>1. tail'[t] = 0 BY <1>5 DEF end_op
    <3> QED BY <2>1, <2>2, <3>1 DEF CopiedInv, CommitLocs, RecoveryLocs
  <2>3. CASE pc' = wakeup([pc EXCEPT ![t] = "idle"])
    <3>1. \A u \in Threads : pc'[u] \in {pc[u], "idle", "begin"} BY <2>3 DEF wakeup
    <3> QED BY <2>1, <3>1, NothingCopied DEF CommitLocs, RecoveryLocs
  <2> QED BY <1>5, <2>2, <2>3, EndCases
<1>6. ASSUME NEW t \in Threads, write_head(t) PROVE CopiedInv'
  <2>1. pc[t] = "whead" /\ pc' = [pc EXCEPT ![t] = "install"] /\ UNCHANGED <<disk, cache, tail, lh>>
    BY <1>6 DEF write_head
  <2>2. tail[t] = 0 BY <2>1 DEF ListInv
  <2> QED BY <2>1, <2>2 DEF CopiedInv, bread
<1>7. ASSUME NEW t \in Threads, ClearHead(t, "clear", "done") \/ ClearHead(t, "rclear", "idle") \/ CommitDone(t)
      PROVE  CopiedInv'
  <2>1. pc[t] \in CommitLocs \cup RecoveryLocs BY <1>7 DEF ClearHead, CommitDone, CommitLocs, RecoveryLocs
  <2>2. \A u \in Threads \ {t} : pc[u] \notin CommitLocs \cup RecoveryLocs BY <2>1, Alone
  <2>3. pc'[t] \in {"done", "idle"} /\ \A u \in Threads \ {t} : pc'[u] \in {pc[u], "begin"}
    BY <1>7 DEF ClearHead, CommitDone, wakeup
  <2> QED BY <2>2, <2>3, NothingCopied DEF CommitLocs, RecoveryLocs
<1>8. ASSUME NEW t \in Threads, read_head(t) PROVE CopiedInv'
  <2>1. pc[t] = "rhead" /\ pc' = [pc EXCEPT ![t] = "rinstall"] /\ tail' = tail BY <1>8 DEF read_head
  <2>2. tail[t] = 0 BY <2>1 DEF ListInv
  <2>3. \A u \in Threads \ {t} : pc[u] \notin CommitLocs \cup RecoveryLocs BY <2>1, Alone DEF RecoveryLocs
  <2> QED BY <2>1, <2>2, <2>3 DEF CopiedInv, CommitLocs, RecoveryLocs
<1>9. CASE UNCHANGED vars BY <1>9 DEF vars, CopiedInv, bread
<1> QED BY <1>1, <1>2, <1>3, <1>4, <1>5, <1>6, <1>7, <1>8, <1>9, CopySteps DEF Next, commit, recover_from_log

-----------------------------------------------------------------------------
(* The refinement.  What recovery finds depends on the disk and the header *)
(* alone.                                                                  *)
Recovered(d, h, b) ==
    IF \E i \in 1 .. Len(h) : h[i] = b THEN d[CHOOSE i \in 1 .. Len(h) : h[i] = b] ELSE d[b]
Live(b) == IF Up THEN bread(b) ELSE OnDisk(b)

(* Recovery gives a block in the header its copy in the log. *)
LEMMA RecoveredAt ==
  ASSUME NEW d, NEW h, Distinct(h), NEW i \in 1 .. Len(h)
  PROVE  Recovered(d, h, h[i]) = d[i]
<1>1. PICK j : j = CHOOSE x \in 1 .. Len(h) : h[x] = h[i] OBVIOUS
<1>2. j \in 1 .. Len(h) /\ h[j] = h[i] BY <1>1
<1>3. j = i BY <1>2 DEF Distinct
<1> QED BY <1>1, <1>3 DEF Recovered

(* What a crash would leave of a block: its copy in the log if the header  *)
(* lists it, else its home.                                                *)
LEMMA OnDiskIs ==
  ASSUME LogInv
  PROVE  /\ \A b \in Home : OnDisk(b) = Recovered(disk, hdr, b) /\ OnDisk(b)' = Recovered(disk', hdr', b)
         /\ \A i \in 1 .. Len(hdr) : OnDisk(hdr[i]) = disk[i]
         /\ \A b \in Home : (\A i \in 1 .. Len(hdr) : hdr[i] # b) => OnDisk(b) = disk[b]
<1>1. \A b \in Home : OnDisk(b) = Recovered(disk, hdr, b) /\ OnDisk(b)' = Recovered(disk', hdr', b)
  BY DEF OnDisk, Recovered
<1>2. ASSUME NEW i \in 1 .. Len(hdr) PROVE OnDisk(hdr[i]) = disk[i]
  <2>1. Distinct(hdr) BY DEF LogInv, ListInv
  <2>2. OnDisk(hdr[i]) = Recovered(disk, hdr, hdr[i]) BY DEF OnDisk, Recovered
  <2> QED BY <2>1, <2>2, RecoveredAt
<1>3. \A b \in Home : (\A i \in 1 .. Len(hdr) : hdr[i] # b) => OnDisk(b) = disk[b] BY DEF OnDisk
<1> QED BY <1>1, <1>2, <1>3

(* With an empty header recovery finds the disk as it is. *)
LEMMA NoHeader ==
  ASSUME NEW b \in Home
  PROVE  (hdr = <<>> => OnDisk(b) = disk[b]) /\ (hdr' = <<>> => OnDisk(b)' = disk'[b])
BY NoList DEF OnDisk

Unseen == \A b \in Home : OnDisk(b)' = OnDisk(b) /\ Live(b)' = Live(b)

(* The steps that leave the disk alone. *)
LEMMA MemorySteps ==
  ASSUME LogInv, disk' = disk, hdr' = hdr, Up' = Up, \A b \in Home : bread(b)' = bread(b)
  PROVE  Unseen
<1>1. \A b \in Home : OnDisk(b)' = OnDisk(b) BY DEF OnDisk
<1> QED BY <1>1 DEF Unseen, Live

(* write_log() writes where no header points; install_trans(), what the    *)
(* header names already.                                                   *)
LEMMA CopyUnseen ==
  ASSUME LogInv, LogFits, CopiedInv, NEW t \in Threads,
         write_log(t) \/ install_trans(t, "install", "clear") \/ install_trans(t, "rinstall", "rclear")
  PROVE  Unseen
<1> USE Constants DEF LogInv, LogTypeOK
<1>0. pc[t] \in {"wlog", "install", "rinstall"} /\ lh' = lh BY DEF write_log, install_trans
<1>1. \A u \in Threads \ {t} : pc[u] \notin CommitLocs \cup RecoveryLocs
  BY <1>0, Alone DEF CommitLocs, RecoveryLocs
<1>2. CASE ~(tail[t] < Len(lh))
  <2>1. /\ disk' = disk /\ cache' = cache /\ hdr' = hdr
        /\ pc' = [pc EXCEPT ![t] = IF pc[t] = "wlog" THEN "whead" ELSE IF pc[t] = "install" THEN "clear" ELSE "rclear"]
    BY <1>0, <1>2 DEF write_log, install_trans, CopyLoop
  <2>2. \A c \in Home : bread(c)' = bread(c) BY <2>1 DEF bread
  <2>3. Up' = Up
    <3>1. CASE t = InitThread BY <2>1, <1>0, <3>1 DEF Up, RecoveryLocs
    <3>2. CASE t # InitThread BY <2>1, <3>2 DEF Up
    <3> QED BY <3>1, <3>2
  <2> QED BY <2>1, <2>2, <2>3, MemorySteps
<1>3. CASE tail[t] < Len(lh)
  <2>1. PICK k \in 1 .. Len(lh) :
           /\ k = tail[t] + 1 /\ k \in LogData /\ lh[k] \in Home /\ tail' = [tail EXCEPT ![t] = k]
           /\ pc' = pc /\ lh' = lh /\ hdr' = hdr
           /\ pc[t] = "wlog" => /\ disk' = [disk EXCEPT ![k] = bread(lh[k])]
                                /\ \A c \in Home : bread(c)' = bread(c)
           /\ pc[t] # "wlog" => /\ disk' = [disk EXCEPT ![lh[k]] = disk[k]]
                                /\ \A c \in Home : bread(c)' = IF c = lh[k] THEN disk[k] ELSE bread(c)
    BY <1>3, CopyOne
  <2>2. Up' = Up BY <2>1 DEF Up
  <2>3. CASE pc[t] = "wlog"
    <3>1. hdr = <<>> BY <2>3, <1>1 DEF ListInv, CommitLocs, RecoveryLocs
    <3>2. \A c \in Home : disk'[c] = disk[c]
      <4>1. \A c \in Home : c # k BY <2>1
      <4> QED BY <2>1, <2>3, <4>1
    <3>3. \A c \in Home : OnDisk(c)' = OnDisk(c) BY <2>1, <3>1, <3>2, NoHeader
    <3> QED BY <2>1, <2>2, <2>3, <3>3 DEF Unseen, Live
  <2>4. CASE pc[t] # "wlog"
    <3>1. lh = hdr /\ Distinct(hdr) BY <1>0, <2>4 DEF ListInv
    <3>2. PICK h : h = hdr /\ h = lh /\ h = hdr' /\ Distinct(h) BY <2>1, <3>1
    <3>3. PICK c \in Home : c = lh[k] BY <2>1
    <3>4. \A i \in 1 .. Len(h) : disk'[i] = disk[i]
      <4>1. \A i \in 1 .. Len(lh) : i \in LogData BY <2>1 DEF LogFits, LogData
      <4>2. \A i \in 1 .. Len(lh) : i # c BY <4>1, <3>3
      <4> QED BY <2>1, <2>4, <3>2, <3>3, <4>1, <4>2
    <3>5. ASSUME NEW b \in Home PROVE OnDisk(b)' = OnDisk(b)
      <4>1. OnDisk(b) = Recovered(disk, h, b) /\ OnDisk(b)' = Recovered(disk', h, b) BY <3>2, OnDiskIs
      <4>2. CASE \E i \in 1 .. Len(h) : h[i] = b
        <5>1. PICK i \in 1 .. Len(h) : h[i] = b BY <4>2
        <5>2. Recovered(disk, h, h[i]) = disk[i] BY <3>2, RecoveredAt
        <5>3. Recovered(disk', h, h[i]) = disk'[i] BY <3>2, RecoveredAt
        <5> QED BY <4>1, <5>1, <5>2, <5>3, <3>4
      <4>3. CASE \A i \in 1 .. Len(h) : h[i] # b
        <5>1. b # c BY <4>3, <3>2, <3>3
        <5>2. disk'[b] = disk[b] BY <5>1, <2>1, <2>4, <3>3
        <5>3. Recovered(disk, h, b) = disk[b] BY <4>3 DEF Recovered
        <5>4. Recovered(disk', h, b) = disk'[b] BY <4>3 DEF Recovered
        <5> QED BY <4>1, <5>2, <5>3, <5>4
      <4> QED BY <4>2, <4>3
    <3>6. ASSUME NEW b \in Home, Up PROVE bread(b)' = bread(b)
      <4>1. pc[t] = "install" BY <1>0, <2>4, <3>6 DEF AloneInv, Up, RecoveryLocs
      <4>2. disk[k] = bread(lh[k]) BY <4>1 DEF CopiedInv
      <4> QED BY <4>2, <2>1, <2>4
    <3> QED BY <2>2, <3>5, <3>6 DEF Unseen, Live
  <2> QED BY <2>3, <2>4
<1> QED BY <1>2, <1>3

(* Writing the header makes all that was logged durable at once. *)
LEMMA HeadCommits ==
  ASSUME LogInv, LogFits, CopiedInv, NEW t \in Threads, write_head(t)
  PROVE  Open = {} /\ Open' = {} /\ \A b \in Home : OnDisk(b)' = Live(b) /\ Live(b)' = Live(b)
<1> USE Constants DEF LogInv, LogTypeOK
<1>0. /\ pc[t] = "whead" /\ pc' = [pc EXCEPT ![t] = "install"] /\ UNCHANGED <<disk, cache, lh>> /\ hdr' = lh
  BY DEF write_head
<1>1. /\ \A u \in Threads : ~InOp(u)
      /\ \A u \in Threads \ {t} : pc[u] \notin CommitLocs \cup RecoveryLocs
      /\ \A b \in Home : holder[b] = Nobody
  BY <1>0, Alone DEF CommitLocs
<1>2. Open = {} /\ Open' = {} BY <1>0, <1>1 DEF Open, InOp
<1>3. Up /\ Up'
  BY <1>0, <1>1 DEF Up, RecoveryLocs
<1>4. \A b \in Home : bread(b)' = bread(b) BY <1>0 DEF bread
<1>5. PICK h : h = lh /\ h = hdr' /\ Distinct(h) BY <1>0 DEF ListInv
<1>6. PICK d : d = disk /\ d = disk' BY <1>0
<1>7. ASSUME NEW b \in Home PROVE OnDisk(b)' = bread(b)
  <2>1. OnDisk(b)' = Recovered(d, h, b) BY <1>5, <1>6, OnDiskIs
  <2>2. CASE \E i \in 1 .. Len(h) : h[i] = b
    <3>1. PICK i \in 1 .. Len(h) : h[i] = b BY <2>2
    <3>2. Recovered(d, h, h[i]) = d[i] BY <1>5, RecoveredAt
    <3>3. disk[i] = bread(lh[i]) BY <1>0, <1>5 DEF CopiedInv
    <3> QED BY <2>1, <3>1, <3>2, <3>3, <1>5, <1>6
  <2>3. CASE \A i \in 1 .. Len(h) : h[i] # b
    <3>1. ~Pending(b) BY <2>3, <1>5 DEF Pending
    <3>2. bread(b) = disk[b] BY <3>1, <1>1 DEF CacheInv
    <3>3. Recovered(d, h, b) = d[b] BY <2>3 DEF Recovered
    <3> QED BY <2>1, <3>2, <3>3, <1>6
  <2> QED BY <2>2, <2>3
<1> QED BY <1>2, <1>3, <1>4, <1>7 DEF Live

(* What was installed need not be found through the header any more. *)
LEMMA ClearUnseen ==
  ASSUME LogInv, CopiedInv, NEW t \in Threads, ClearHead(t, "clear", "done") \/ ClearHead(t, "rclear", "idle")
  PROVE  Unseen
<1> USE Constants DEF LogInv, LogTypeOK
<1>0. /\ pc[t] \in {"clear", "rclear"} /\ UNCHANGED <<disk, cache>> /\ hdr' = <<>>
      /\ pc' = [pc EXCEPT ![t] = IF pc[t] = "clear" THEN "done" ELSE "idle"]
  BY DEF ClearHead
<1>1. lh = hdr /\ \A i \in 1 .. Len(lh) : disk[lh[i]] = disk[i] BY <1>0 DEF ListInv, CopiedInv
<1>2. ASSUME NEW b \in Home PROVE OnDisk(b) = disk[b] /\ OnDisk(b)' = disk[b]
  <2>1. OnDisk(b)' = disk[b] BY <1>0, NoHeader
  <2>2. CASE \E i \in 1 .. Len(hdr) : hdr[i] = b
    <3>1. PICK i \in 1 .. Len(hdr) : hdr[i] = b BY <2>2
    <3>2. OnDisk(hdr[i]) = disk[i] BY OnDiskIs
    <3> QED BY <3>1, <3>2, <1>1, <2>1
  <2>3. CASE \A i \in 1 .. Len(hdr) : hdr[i] # b
    <3>1. OnDisk(b) = disk[b] BY <2>3, OnDiskIs
    <3> QED BY <3>1, <2>1
  <2> QED BY <2>2, <2>3
<1>3. ASSUME NEW b \in Home PROVE bread(b) = disk[b] /\ bread(b)' = disk[b]
  <2>1. holder[b] = Nobody BY <1>0, Alone DEF CommitLocs, RecoveryLocs
  <2>2. ~Pending(b) BY <1>0 DEF Pending, RecoveryLocs
  <2>3. bread(b) = disk[b] BY <2>1, <2>2 DEF CacheInv
  <2>4. bread(b)' = bread(b) BY <1>0 DEF bread
  <2> QED BY <2>3, <2>4
<1> QED BY <1>2, <1>3 DEF Unseen, Live

(* How changes of the mapped state become steps of LogSpec. *)
LEMMA MapSteps ==
  /\ Open' = Open /\ Unseen => UNCHANGED Abstract!logspecvars
  /\ \A t \in Threads : t \notin Open /\ Open' = Open \cup {t} /\ Unseen => Abstract!Begin(t)
  /\ \A t \in Threads : t \in Open /\ Open' = Open \ {t} /\ Unseen => Abstract!End(t)
  /\ Open = {} /\ Open' = {} /\ (\A b \in Home : OnDisk(b)' = Live(b) /\ Live(b)' = Live(b)) => Abstract!Commit
  /\ Open' = {} /\ (\A b \in Home : OnDisk(b)' = OnDisk(b) /\ Live(b)' = OnDisk(b)) => Abstract!Crash
<1> USE DEF Open, Live, Unseen
<1>1. Open' = Open /\ Unseen => UNCHANGED Abstract!logspecvars BY DEF Abstract!logspecvars
<1>2. ASSUME NEW t \in Threads, t \notin Open, Open' = Open \cup {t}, Unseen PROVE Abstract!Begin(t)
  BY <1>2 DEF Abstract!Begin
<1>3. ASSUME NEW t \in Threads, t \in Open, Open' = Open \ {t}, Unseen PROVE Abstract!End(t)
  BY <1>3 DEF Abstract!End
<1>4. ASSUME Open = {}, Open' = {}, \A b \in Home : OnDisk(b)' = Live(b) /\ Live(b)' = Live(b) PROVE Abstract!Commit
  BY <1>4 DEF Abstract!Commit
<1>5. ASSUME Open' = {}, \A b \in Home : OnDisk(b)' = OnDisk(b) /\ Live(b)' = OnDisk(b) PROVE Abstract!Crash
  BY <1>5 DEF Abstract!Crash
<1> QED BY <1>1, <1>2, <1>3, <1>4, <1>5

(* A changed buffer is a write of the open operation. *)
LEMMA WriteMaps ==
  ASSUME LogInv, NEW t \in Threads, NEW b \in Home, NEW v \in Values, Modify(t, b, v)
  PROVE  Abstract!Write(t, b, v)
<1> USE Constants DEF LogInv, LogTypeOK
<1>0. /\ pc[t] = "in" /\ UNCHANGED <<disk, hdr>> /\ cache' = [cache EXCEPT ![b] = v]
      /\ \E l \in {"panic", "checked"} : pc' = [pc EXCEPT ![t] = l]
  BY DEF Modify
<1>1. t \in Open /\ Open' = Open BY <1>0 DEF Open, InOp
<1>2. Up /\ Up'
  <2>1. \A u \in Threads : pc[u] \notin RecoveryLocs BY <1>0 DEF AloneInv, RecoveryLocs
  <2> QED BY <2>1, <1>0 DEF Up, RecoveryLocs
<1>3. \A c \in Home : OnDisk(c)' = OnDisk(c) BY <1>0 DEF OnDisk
<1>4. \A c \in Home : bread(c)' = IF c = b THEN v ELSE bread(c) BY <1>0 DEF bread
<1>5. [c \in Home |-> IF Up THEN bread(c) ELSE OnDisk(c)]'
        = [[c \in Home |-> IF Up THEN bread(c) ELSE OnDisk(c)] EXCEPT ![b] = v]
  BY <1>2, <1>4
<1> QED BY <1>1, <1>3, <1>5 DEF Abstract!Write, Open

(* Every step of the log is a step of LogSpec, or changes none of it. *)
LEMMA NextMaps ==
  ASSUME LogInv, LogFits, CopiedInv, [Next]_vars
  PROVE  [Abstract!LogNext]_(Abstract!logspecvars)
<1> USE Constants DEF LogInv, LogTypeOK
<1> DEFINE Goal == Abstract!LogNext \/ UNCHANGED Abstract!logspecvars
<1>1. CASE Crash
  <2>1. Open' = {} /\ ~Up' BY <1>1 DEF Crash, Open, InOp, Up, RecoveryLocs
  <2>2. \A b \in Home : OnDisk(b)' = OnDisk(b) BY <1>1 DEF Crash, OnDisk
  <2>3. \A b \in Home : Live(b)' = OnDisk(b) BY <2>1, <2>2 DEF Live
  <2> QED BY <2>1, <2>2, <2>3, MapSteps DEF Abstract!LogNext
<1>2. ASSUME ~Crash, Unseen, \A t \in Threads : ~begin_op(t) /\ ~end_op(t) PROVE Goal
  <2>1. Open' = Open BY <1>2, SameOpen
  <2> QED BY <1>2, <2>1, MapSteps
<1>3. ASSUME NEW t \in Threads, begin_op(t) PROVE Goal
  <2>1. UNCHANGED <<disk, hdr, cache>> /\ Up /\ \E l \in {"in", "asleep"} : pc' = [pc EXCEPT ![t] = l]
    BY <1>3 DEF begin_op
  <2>2. Up' = Up BY <2>1 DEF Up, RecoveryLocs
  <2>3. Unseen
    <3>1. \A b \in Home : bread(b)' = bread(b) BY <2>1 DEF bread
    <3> QED BY <2>1, <2>2, <3>1, MemorySteps
  <2>4. t \notin Open /\ (Open' = Open \cup {t} \/ Open' = Open) BY <1>3 DEF begin_op, Open, InOp
  <2> QED BY <2>3, <2>4, MapSteps DEF Abstract!LogNext
<1>4. ASSUME NEW t \in Threads, end_op(t) PROVE Goal
  <2>1. UNCHANGED <<disk, hdr, cache>> /\ pc[t] = "in" BY <1>4 DEF end_op
  <2>2. \A u \in Threads : pc[u] \notin RecoveryLocs /\ pc'[u] \notin RecoveryLocs /\ (u # t => (InOp(u)' <=> InOp(u))) /\ ~InOp(t)'
    <3>1. \A u \in Threads : pc[u] \notin RecoveryLocs BY <1>4, EndCases
    <3>2. CASE \E l \in {"done", "wlog"} : pc' = [pc EXCEPT ![t] = l] BY <3>1, <3>2 DEF InOp, RecoveryLocs
    <3>3. CASE pc' = wakeup([pc EXCEPT ![t] = "idle"])
      <4>1. pc'[t] = "idle" /\ \A u \in Threads \ {t} : pc'[u] = IF pc[u] = "asleep" THEN "begin" ELSE pc[u]
        BY <3>3 DEF wakeup
      <4> QED BY <3>1, <4>1 DEF InOp, RecoveryLocs
    <3> QED BY <1>4, <3>2, <3>3, EndCases
  <2>3. Unseen
    <3>1. \A b \in Home : bread(b)' = bread(b) BY <2>1 DEF bread
    <3>2. Up' = Up BY <2>2 DEF Up
    <3> QED BY <2>1, <3>1, <3>2, MemorySteps
  <2>4. t \in Open /\ Open' = Open \ {t} BY <2>1, <2>2 DEF Open, InOp
  <2> QED BY <2>3, <2>4, MapSteps DEF Abstract!LogNext
<1>5. ASSUME NEW t \in Threads, write_head(t) PROVE Goal
  BY <1>5, HeadCommits, MapSteps DEF Abstract!LogNext
<1>6. ASSUME NEW t \in Threads, NEW b \in Home, NEW v \in Values, Modify(t, b, v) PROVE Goal
  BY <1>6, WriteMaps DEF Abstract!LogNext
<1>7. ASSUME NEW b \in Home, Recycle(b) PROVE Unseen
  <2>1. disk' = disk /\ hdr' = hdr /\ Up' = Up BY <1>7 DEF Recycle, Up
  <2> QED BY <1>7, <2>1, RecycleSame, MemorySteps
<1>8. ASSUME NEW t \in Threads, NEW b \in Home, log_write(t, b) PROVE Unseen
  <2>1. disk' = disk /\ hdr' = hdr /\ cache' = cache /\ pc[t] = "checked" /\ pc' = [pc EXCEPT ![t] = "in"]
    BY <1>8 DEF log_write
  <2>2. Up' = Up BY <2>1 DEF Up, RecoveryLocs
  <2>3. \A c \in Home : bread(c)' = bread(c) BY <2>1 DEF bread
  <2> QED BY <2>1, <2>2, <2>3, MemorySteps
<1>9. ASSUME NEW t \in Threads, CommitDone(t) PROVE Unseen
  <2>1. disk' = disk /\ hdr' = hdr /\ cache' = cache /\ pc[t] = "done" BY <1>9 DEF CommitDone
  <2>2. pc'[InitThread] = IF pc[InitThread] = "asleep" THEN "begin" ELSE IF InitThread = t THEN "idle" ELSE pc[InitThread]
    BY <1>9, <2>1 DEF CommitDone, wakeup
  <2>3. Up' = Up BY <2>1, <2>2 DEF Up, RecoveryLocs
  <2>4. \A c \in Home : bread(c)' = bread(c) BY <2>1 DEF bread
  <2> QED BY <2>1, <2>3, <2>4, MemorySteps
<1>10. ASSUME NEW t \in Threads, read_head(t) PROVE Unseen
  <2>1. disk' = disk /\ hdr' = hdr /\ cache' = cache /\ pc[t] = "rhead" /\ pc' = [pc EXCEPT ![t] = "rinstall"]
    BY <1>10 DEF read_head
  <2>2. Up' = Up BY <2>1 DEF Up, RecoveryLocs
  <2>3. \A c \in Home : bread(c)' = bread(c) BY <2>1 DEF bread
  <2> QED BY <2>1, <2>2, <2>3, MemorySteps
<1>11. CASE UNCHANGED vars
  <2>1. disk' = disk /\ hdr' = hdr /\ Up' = Up /\ Open' = Open BY <1>11 DEF vars, Up, Open, InOp
  <2>2. \A c \in Home : bread(c)' = bread(c) BY <1>11 DEF vars, bread
  <2> QED BY <2>1, <2>2, MemorySteps, MapSteps
<1> HIDE DEF LogInv, LogTypeOK
<1>12. CASE ~Crash /\ \A t \in Threads : ~begin_op(t) /\ ~end_op(t)
  <2> HIDE DEF Goal
  <2>1. ASSUME NEW t \in Threads, commit(t) \/ recover_from_log(t) PROVE Goal
    <3>1. CASE write_head(t) BY <3>1, <1>5
    <3>2. CASE ~write_head(t)
      <4>1. Unseen BY <2>1, <3>2, <1>9, <1>10, CopyUnseen, ClearUnseen DEF commit, recover_from_log
      <4> QED BY <4>1, <1>2, <1>12
    <3> QED BY <3>1, <3>2
  <2>2. ASSUME NEW t \in Threads, Operation(t) PROVE Goal BY <2>2, <1>2, <1>6, <1>8, <1>12 DEF Operation
  <2>3. (\E b \in Home : Recycle(b)) => Goal BY <1>2, <1>7, <1>12
  <2>4. UNCHANGED vars => Goal BY <1>11 DEF Goal
  <2>5. Goal BY <2>1, <2>2, <2>3, <2>4, <1>12 DEF Next
  <2> QED BY <2>5 DEF Goal
<1> QED BY <1>1, <1>3, <1>4, <1>12

(* The disk mkfs leaves is an initial state of LogSpec. *)
LEMMA InitMaps == Init => Abstract!LogInit /\ CopiedInv
<1> SUFFICES ASSUME Init PROVE Abstract!LogInit /\ CopiedInv OBVIOUS
<1> USE Constants DEF Init
<1>1. CopiedInv BY DEF CopiedInv
<1>2. {t \in Threads : InOp(t)} = {} BY DEF InOp
<1>3. ~Up BY DEF Up, RecoveryLocs
<1>4. \A b \in Home : OnDisk(b) = 0 BY NoHeader
<1>5. Abstract!LogInit BY <1>2, <1>3, <1>4 DEF Abstract!LogInit
<1> QED BY <1>1, <1>5

(* The log is an atomic group commit, whatever the interleaving and        *)
(* wherever the machine crashes, as long as what lh names fits the log on  *)
(* the disk: the refinement of LogSpec.                                    *)
THEOREM CrashAtomicityHolds == Spec /\ []LogFits => CrashAtomicity
<1>1. LogInv /\ LogFits /\ CopiedInv /\ [Next]_vars => CopiedInv' BY NextCopied
<1>2. LogInv /\ LogFits /\ CopiedInv /\ [Next]_vars => [Abstract!LogNext]_(Abstract!logspecvars) BY NextMaps
<1> QED BY <1>1, <1>2, InitMaps, LogAlways, PTL DEF Spec, CrashAtomicity, Abstract!LogSpecification
=============================================================================
