----------------------------- MODULE PipeProofs -----------------------------
(***************************************************************************)
(* The lifetime of a pipe, its sleepers and its refinement of Fifo, for    *)
(* any number of processes, any size of the pipe and any wrap of the       *)
(* counters.                                                               *)
(***************************************************************************)
EXTENDS Pipe, Modulo, FiniteSetTheorems, SequenceTheorems

Locs == {"user", "dead", "newpipe", "write", "towrite", "wsleep", "read", "toread", "rsleep",
         "close", "pclose", "kfree"}
Lists == {<<>>, <<"r">>, <<"w">>, <<"r", "w">>, <<"w", "r">>}
Cells == 0 .. Wrap - 1

PipeTypeOK ==
    /\ allocated \in BOOLEAN /\ readopen \in BOOLEAN /\ writeopen \in BOOLEAN
    /\ data \in [Index -> Bytes] /\ nread \in Cells /\ nwrite \in Cells
    /\ lock \in Procs \cup {Free}
    /\ ref \in [Ends -> Int] /\ ofile \in [Procs -> SUBSET Ends]
    /\ pc \in [Procs -> Locs] /\ killed \in [Procs -> BOOLEAN] /\ exiting \in [Procs -> BOOLEAN]
    /\ buf \in [Procs -> Seq(Bytes)] /\ todo \in [Procs -> Lists]

(* e is in the list s. *)
Listed(s, e) == \E i \in 1 .. Len(s) : s[i] = e

(* p has a reference to the file of e: a descriptor, or it is still going  *)
(* to install or to drop one.                                              *)
Left(p) == IF pc[p] = "pclose" THEN Tail(todo[p]) ELSE todo[p]
Held(p, e) == e \in ofile[p] \/ pc[p] = "newpipe" \/ Listed(Left(p), e)
Holders(e) == {p \in Procs : Held(p, e)}

(* p has dropped the last reference to e and is about to close it. *)
Closing(p, e) == pc[p] = "pclose" /\ Head(todo[p]) = e
Open(e) == IF e = "r" THEN readopen ELSE writeopen

(* What a process may have in hand at each place. *)
PlaceOK(p) ==
    /\ pc[p] \in {"newpipe", "dead"} => ofile[p] = {}
    /\ todo[p] # <<>> => pc[p] \in {"close", "pclose", "kfree"}
    /\ pc[p] = "pclose" => todo[p] # <<>>
    /\ \A e \in ofile[p] : ~Listed(todo[p], e)
    /\ pc[p] \in {"write", "towrite", "wsleep"} => "w" \in ofile[p]
    /\ pc[p] \in {"read", "toread", "rsleep"} => "r" \in ofile[p]
    /\ buf[p] # <<>> => pc[p] \in {"write", "towrite", "wsleep"}
    /\ exiting[p] => ofile[p] = {} /\ pc[p] \in {"close", "pclose", "kfree"}
PlaceInv == \A p \in Procs : PlaceOK(p)

(* f->ref counts the references. *)
RefInv == \A e \in Ends : ref[e] = Cardinality(Holders(e))

(* An end is open while it is held or being closed, and one process at     *)
(* most closes it; the page lives until the process that closed the other  *)
(* end frees it.                                                           *)
OpenInv ==
    /\ \A e \in Ends : Open(e) <=> Holders(e) # {} \/ \E p \in Procs : Closing(p, e)
    /\ \A e \in Ends : \A p \in Procs : Closing(p, e) => Holders(e) = {}
    /\ \A e \in Ends : \A p, q \in Procs : Closing(p, e) /\ Closing(q, e) => p = q
    /\ \A p \in Procs : pc[p] = "kfree" => ~readopen /\ ~writeopen
    /\ \A p, q \in Procs : pc[p] = "kfree" /\ pc[q] = "kfree" => p = q
    /\ allocated <=> readopen \/ writeopen \/ \E p \in Procs : pc[p] = "kfree"

LifeInv == PipeTypeOK /\ PlaceInv /\ RefInv /\ OpenInv

(* The ring is never overfull, and who is going to sleep holds the lock.   *)
SleepInv ==
    /\ Count <= PIPESIZE
    /\ \A p \in Procs : lock = p <=> pc[p] \in {"towrite", "toread"}
    /\ \A p \in Procs : pc[p] \in {"toread", "rsleep"} => writeopen
    /\ \A p \in Procs : pc[p] = "toread" => nread = nwrite
    /\ \A p \in Procs : pc[p] = "rsleep" => nread = nwrite \/ stranded
    /\ \A p \in Procs : pc[p] \in {"towrite", "wsleep"} => Count = PIPESIZE /\ readopen

USE DEF pipevars, Goto, Free, Ends, Syscall

(* What the assumption on the constants gives: the ring divides the range  *)
(* of the counters.                                                        *)
LEMMA Constants ==
  /\ NProcs \in Nat \ {0} /\ PIPESIZE \in Nat \ {0} /\ Wrap \in Nat \ {0} /\ MaxN \in Nat
  /\ 2 * PIPESIZE <= Wrap /\ Wrap % PIPESIZE = 0 /\ Junk \in Bytes
  /\ Procs \subseteq Nat /\ 0 \notin Procs /\ IsFiniteSet(Procs)
<1>1. /\ NProcs \in Nat \ {0} /\ PIPESIZE \in Nat \ {0} /\ MaxN \in Nat /\ Junk \in Bytes
      /\ \E k \in 2 .. Wrap : Wrap = k * PIPESIZE
  BY PipeAssumption
<1>2. PICK k \in 2 .. Wrap : Wrap = k * PIPESIZE BY <1>1
<1>3. k \in Nat /\ k >= 2
  <2>1. CASE k \in Int BY <2>1, <1>2
  <2> QED BY <2>1
<1>4. Wrap \in Nat \ {0} /\ 2 * PIPESIZE <= Wrap BY <1>1, <1>2, <1>3
<1>5. (k * PIPESIZE + 0) % PIPESIZE = 0
  <2>1. 0 \in 0 .. PIPESIZE - 1 BY <1>1
  <2> QED BY <1>1, <1>3, <2>1, ModUnique
<1>6. Wrap % PIPESIZE = 0 BY <1>1, <1>2, <1>3, <1>5
<1>7. IsFiniteSet(Procs) BY <1>1, FS_Interval DEF Procs
<1> QED BY <1>1, <1>4, <1>6, <1>7 DEF Procs

(* The smaller of two numbers. *)
LEMMA MinPair ==
  ASSUME NEW a \in Int, NEW b \in Int
  PROVE  Min({a, b}) = IF a <= b THEN a ELSE b
BY DEF Min

(* The lists of ends to close. *)
LEMMA ListCons ==
  ASSUME NEW s \in Lists, s # <<>>
  PROVE  /\ Head(s) \in Ends /\ Tail(s) \in Lists /\ ~Listed(Tail(s), Head(s))
         /\ \A e \in Ends : Listed(s, e) <=> e = Head(s) \/ Listed(Tail(s), e)
<1>1. CASE s = <<"r">> BY <1>1 DEF Lists, Listed
<1>2. CASE s = <<"w">> BY <1>2 DEF Lists, Listed
<1>3. CASE s = <<"r", "w">>
  <2>1. Tail(s) = <<"w">> /\ Head(s) = "r" BY <1>3
  <2>2. \A e \in Ends : Listed(s, e)
    <3>1. Listed(s, "r") /\ Listed(s, "w") BY <1>3 DEF Listed
    <3> QED BY <3>1
  <2>3. \A e \in Ends : Listed(<<"w">>, e) <=> e = "w" BY DEF Listed
  <2> QED BY <2>1, <2>2, <2>3 DEF Lists
<1>4. CASE s = <<"w", "r">>
  <2>1. Tail(s) = <<"r">> /\ Head(s) = "w" BY <1>4
  <2>2. \A e \in Ends : Listed(s, e)
    <3>1. Listed(s, "r") /\ Listed(s, "w") BY <1>4 DEF Listed
    <3> QED BY <3>1
  <2>3. \A e \in Ends : Listed(<<"r">>, e) <=> e = "r" BY DEF Listed
  <2> QED BY <2>1, <2>2, <2>3 DEF Lists
<1> QED BY <1>1, <1>2, <1>3, <1>4 DEF Lists

(* A process that closes nothing has an empty list. *)
LEMMA ListEmpty == <<>> \in Lists /\ \A e : ~Listed(<<>>, e)
BY DEF Lists, Listed

(* close() of one end. *)
LEMMA ListOne ==
  ASSUME NEW e \in Ends
  PROVE  <<e>> \in Lists /\ <<e>> # <<>> /\ \A f : Listed(<<e>>, f) <=> f = e
BY DEF Lists, Listed

(* exit() closes both ends. *)
LEMMA ListTwo == <<"r", "w">> \in Lists /\ <<"r", "w">> # <<>> /\ \A e \in Ends : Listed(<<"r", "w">>, e)
<1> DEFINE s == <<"r", "w">>
<1>1. Listed(s, "r") /\ Listed(s, "w") BY DEF Listed
<1> QED BY <1>1 DEF Lists

(* A list as the set of its ends. *)
LEMMA ListElements ==
  ASSUME NEW s \in Lists, NEW e
  PROVE  Listed(s, e) <=> e \in {s[i] : i \in 1 .. Len(s)}
BY DEF Listed

(* Before pipe() there is no page and nobody has an end. *)
LEMMA InitLife == Init => LifeInv
<1> SUFFICES ASSUME Init PROVE LifeInv OBVIOUS
<1> USE Constants DEF Init
<1>1. PipeTypeOK
  <2>1. 0 \in Cells BY DEF Cells
  <2>2. data \in [Index -> Bytes] OBVIOUS
  <2>3. ref \in [Ends -> Int] /\ ofile \in [Procs -> SUBSET Ends] OBVIOUS
  <2>4. pc \in [Procs -> Locs] BY DEF Locs
  <2>5. buf \in [Procs -> Seq(Bytes)]
    <3>1. <<>> \in Seq(Bytes) OBVIOUS
    <3> QED BY <3>1
  <2>6. todo \in [Procs -> Lists] BY ListEmpty
  <2> QED BY <2>1, <2>2, <2>3, <2>4, <2>5, <2>6 DEF PipeTypeOK
<1>2. PlaceInv BY ListEmpty DEF PlaceInv, PlaceOK
<1>3. ASSUME NEW p \in Procs, NEW e \in Ends PROVE ~Held(p, e) /\ ~Closing(p, e) /\ pc[p] # "kfree"
  BY ListEmpty DEF Held, Left, Closing
<1>4. \A e \in Ends : Holders(e) = {} BY <1>3 DEF Holders
<1>5. RefInv BY <1>4, FS_EmptySet DEF RefInv
<1>6. OpenInv BY <1>3, <1>4 DEF OpenInv, Open
<1> QED BY <1>1, <1>2, <1>5, <1>6 DEF LifeInv

(* A step that takes nobody's reference and gives nobody one. *)
LEMMA SameLife ==
  ASSUME LifeInv,
         \A p \in Procs : \A e \in Ends : (Held(p, e)' <=> Held(p, e)) /\ (Closing(p, e)' <=> Closing(p, e)),
         \A p \in Procs : pc'[p] = "kfree" <=> pc[p] = "kfree",
         UNCHANGED <<allocated, readopen, writeopen, ref>>
  PROVE  RefInv' /\ OpenInv'
<1>1. ASSUME NEW e \in Ends PROVE Holders(e)' = Holders(e)
  BY DEF Holders
<1>2. RefInv' BY <1>1 DEF RefInv, LifeInv
<1>3. \A e \in Ends : Open(e)' <=> Open(e) BY DEF Open
<1>4. OpenInv'
  <2> HIDE DEF Ends
  <2> QED BY <1>1, <1>3 DEF OpenInv, LifeInv
<1> QED BY <1>2, <1>4

(* A step that closes nothing and leaves the descriptors alone. *)
LEMMA QuietLife ==
  ASSUME LifeInv, pc' \in [Procs -> Locs],
         \A p \in Procs : pc'[p] = pc[p] \/ {pc[p], pc'[p]} \cap {"newpipe", "pclose", "kfree"} = {},
         UNCHANGED <<allocated, readopen, writeopen, ref, ofile, todo>>
  PROVE  RefInv' /\ OpenInv'
<1>1. ASSUME NEW p \in Procs, NEW e \in Ends
      PROVE  (Held(p, e)' <=> Held(p, e)) /\ (Closing(p, e)' <=> Closing(p, e))
  BY DEF Held, Left, Closing
<1>2. \A p \in Procs : pc'[p] = "kfree" <=> pc[p] = "kfree" OBVIOUS
<1> QED BY <1>1, <1>2, SameLife

(* What wakeup() leaves of a set of places. *)
LEMMA Woken ==
  ASSUME NEW pcs \in [Procs -> Locs]
  PROVE  /\ WakeReaders(pcs) \in [Procs -> Locs] /\ WakeWriters(pcs) \in [Procs -> Locs]
         /\ \A q \in Procs : WakeReaders(pcs)[q] = IF pcs[q] = "rsleep" THEN "read" ELSE pcs[q]
         /\ \A q \in Procs : WakeWriters(pcs)[q] = IF pcs[q] = "wsleep" THEN "write" ELSE pcs[q]
BY DEF WakeReaders, WakeWriters, Locs

(* Only p moves, apart from those wakeup() wakes. *)
Moved(p, l) ==
    /\ pc' \in [Procs -> Locs] /\ pc'[p] = l
    /\ \A q \in Procs \ {p} : \/ pc'[q] = pc[q]
                              \/ pc[q] = "rsleep" /\ pc'[q] = "read"
                              \/ pc[q] = "wsleep" /\ pc'[q] = "write"

(* A process goes to l, and a wakeup moves only sleepers. *)
LEMMA MovedTo ==
  ASSUME pc \in [Procs -> Locs], NEW p \in Procs, NEW l \in Locs,
         \/ pc' = [pc EXCEPT ![p] = l]
         \/ pc' = WakeReaders([pc EXCEPT ![p] = l]) /\ l # "rsleep"
         \/ pc' = WakeWriters([pc EXCEPT ![p] = l]) /\ l # "wsleep"
  PROVE  Moved(p, l)
<1> DEFINE f == [pc EXCEPT ![p] = l]
<1>1. f \in [Procs -> Locs] /\ f[p] = l /\ \A q \in Procs \ {p} : f[q] = pc[q] OBVIOUS
<1>2. pc' = f \/ (pc' = WakeReaders(f) /\ l # "rsleep") \/ (pc' = WakeWriters(f) /\ l # "wsleep") OBVIOUS
<1> HIDE DEF f
<1> QED BY <1>1, <1>2, Woken DEF Moved

(* pipealloc() makes a pipe whose two files have one reference each. *)
LEMMA AllocLife ==
  ASSUME LifeInv, NEW p \in Procs, pipealloc(p)
  PROVE  LifeInv'
<1> USE DEF LifeInv, pipealloc
<1>0. 0 \in Cells BY Constants DEF Cells
<1>1. PipeTypeOK' BY <1>0 DEF PipeTypeOK, Locs
<1>2. \A q \in Procs : pc'[q] = IF q = p THEN "newpipe" ELSE pc[q] BY DEF PipeTypeOK
<1>3. ASSUME NEW q \in Procs PROVE ~(pc[q] \in {"newpipe", "pclose", "kfree"}) /\ ofile[q] = {} /\ todo[q] = <<>>
  <2>1. ~readopen /\ ~writeopen /\ pc[q] # "kfree" BY DEF OpenInv
  <2>2. ~Open("r") /\ ~Open("w") BY <2>1 DEF Open
  <2>3. \A e \in Ends : ~Held(q, e) /\ ~Closing(q, e)
    <3> SUFFICES ASSUME NEW e \in Ends PROVE ~Held(q, e) /\ ~Closing(q, e) OBVIOUS
    <3>1. Holders(e) = {} /\ ~Closing(q, e) BY <2>2 DEF OpenInv
    <3> QED BY <3>1 DEF Holders
  <2>4. pc[q] # "pclose"
    <3> SUFFICES ASSUME pc[q] = "pclose" PROVE FALSE OBVIOUS
    <3>1. todo[q] # <<>> /\ todo[q] \in Lists BY DEF PlaceInv, PlaceOK, PipeTypeOK
    <3>2. Head(todo[q]) \in Ends BY <3>1, ListCons
    <3> QED BY <2>3, <3>2 DEF Closing
  <2>5. todo[q] = <<>>
    <3> SUFFICES ASSUME todo[q] # <<>> PROVE FALSE OBVIOUS
    <3>1. Head(todo[q]) \in Ends /\ Listed(todo[q], Head(todo[q])) BY ListCons DEF PipeTypeOK
    <3> QED BY <2>3, <2>4, <3>1 DEF Held, Left
  <2>6. ofile[q] = {} BY <2>3 DEF Held, PipeTypeOK
  <2> QED BY <2>1, <2>3, <2>4, <2>5, <2>6 DEF Held
<1>4. PlaceInv' BY <1>2, <1>3, ListEmpty DEF PlaceInv, PlaceOK, PipeTypeOK
<1>5. ASSUME NEW e \in Ends, NEW q \in Procs
      PROVE  (Held(q, e)' <=> q = p) /\ ~Closing(q, e)' /\ pc'[q] # "kfree"
  BY <1>2, <1>3, ListEmpty DEF Held, Left, Closing, PipeTypeOK
<1>6. \A e \in Ends : Holders(e)' = {p} BY <1>5 DEF Holders
<1>7. RefInv' BY <1>6, FS_Singleton DEF RefInv
<1>8. OpenInv' BY <1>5, <1>6 DEF OpenInv, Open
<1> QED BY <1>1, <1>4, <1>7, <1>8

(* sys_pipe() installs both descriptors, or closes both files. *)
LEMMA FdAllocLife ==
  ASSUME LifeInv, NEW p \in Procs, FdAlloc(p) \/ FdAllocFails(p)
  PROVE  LifeInv'
<1> USE DEF LifeInv, FdAlloc, FdAllocFails
<1>1. PipeTypeOK'
  <2>1. CASE FdAlloc(p) BY <2>1 DEF PipeTypeOK, Locs
  <2>2. CASE FdAllocFails(p) BY <2>2, ListTwo DEF PipeTypeOK, Locs
  <2> QED BY <2>1, <2>2
<1>2. pc[p] = "newpipe" /\ ofile[p] = {} /\ todo[p] = <<>> BY DEF PlaceInv, PlaceOK
<1>3. PlaceInv'
  <2> SUFFICES ASSUME NEW q \in Procs PROVE PlaceOK(q)' BY DEF PlaceInv
  <2>1. PlaceOK(q) BY DEF PlaceInv
  <2>2. CASE FdAlloc(p) BY <2>1, <2>2, <1>2, ListEmpty DEF PlaceOK, PipeTypeOK
  <2>3. CASE FdAllocFails(p) BY <2>1, <2>3, <1>2, ListTwo DEF PlaceOK, PipeTypeOK
  <2> QED BY <2>2, <2>3
<1>4. ASSUME NEW q \in Procs, NEW e \in Ends
      PROVE  (Held(q, e)' <=> Held(q, e)) /\ (Closing(q, e)' <=> Closing(q, e))
  BY <1>2, ListTwo DEF Held, Left, Closing, PipeTypeOK
<1>5. \A q \in Procs : pc'[q] = "kfree" <=> pc[q] = "kfree" BY <1>2 DEF PipeTypeOK
<1>6. RefInv' /\ OpenInv' BY <1>4, <1>5, SameLife
<1> QED BY <1>1, <1>3, <1>6

(* close() and exit() take the descriptor away before fileclose(). *)
LEMMA CloseLife ==
  ASSUME LifeInv, NEW p \in Procs, (\E e \in Ends : sys_close(p, e)) \/ exit(p)
  PROVE  LifeInv'
<1> USE DEF LifeInv
<1>1. PICK s \in Lists :
        /\ \A f \in Ends : f \in ofile[p] <=> f \in ofile'[p] \/ Listed(s, f)
        /\ \A f \in ofile'[p] : ~Listed(s, f)
        /\ todo' = [todo EXCEPT ![p] = s]
  <2>1. CASE \E e \in Ends : sys_close(p, e)
    <3>1. PICK e \in Ends : sys_close(p, e) BY <2>1
    <3>2. <<e>> \in Lists /\ \A f : Listed(<<e>>, f) <=> f = e BY ListOne
    <3>3. ofile'[p] = ofile[p] \ {e} /\ e \in ofile[p] /\ todo' = [todo EXCEPT ![p] = <<e>>]
      BY <3>1 DEF sys_close, PipeTypeOK
    <3> QED BY <3>2, <3>3
  <2>2. CASE exit(p)
    <3>1. PICK s \in Lists : {s[i] : i \in 1 .. Len(s)} = ofile[p] /\ todo' = [todo EXCEPT ![p] = s]
      BY <2>2 DEF exit, Lists
    <3>2. ofile'[p] = {} BY <2>2 DEF exit, PipeTypeOK
    <3> QED BY <3>1, <3>2, ListElements
  <2> QED BY <2>1, <2>2
<1>2. /\ pc[p] = "user" /\ pc' = [pc EXCEPT ![p] = "close"]
      /\ ofile'[p] \subseteq ofile[p] /\ ofile' = [ofile EXCEPT ![p] = ofile'[p]]
      /\ \E x \in BOOLEAN : exiting' = [exiting EXCEPT ![p] = x] /\ (x => exiting[p] \/ ofile'[p] = {})
      /\ UNCHANGED <<pipevars, lock, ref, killed, buf>>
  <2>1. CASE \E e \in Ends : sys_close(p, e)
    <3>1. exiting' = [exiting EXCEPT ![p] = exiting[p]] /\ exiting[p] \in BOOLEAN BY <2>1 DEF sys_close, PipeTypeOK
    <3> QED BY <2>1, <3>1 DEF sys_close, PipeTypeOK
  <2>2. CASE exit(p) BY <2>2 DEF exit, PipeTypeOK
  <2> QED BY <2>1, <2>2
<1>3. todo[p] = <<>> /\ buf[p] = <<>> BY <1>2 DEF PlaceInv, PlaceOK
<1>4. PipeTypeOK' BY <1>1, <1>2 DEF PipeTypeOK, Locs
<1>5. PlaceInv' BY <1>1, <1>2, <1>3, ZenonT(60) DEF PlaceInv, PlaceOK, PipeTypeOK
<1>6. ASSUME NEW q \in Procs, NEW e \in Ends
      PROVE  (Held(q, e)' <=> Held(q, e)) /\ (Closing(q, e)' <=> Closing(q, e))
  BY <1>1, <1>2, <1>3, ListEmpty DEF Held, Left, Closing, PipeTypeOK
<1>7. \A q \in Procs : pc'[q] = "kfree" <=> pc[q] = "kfree" BY <1>2 DEF PipeTypeOK
<1>8. RefInv' /\ OpenInv' BY <1>2, <1>6, <1>7, SameLife
<1> QED BY <1>4, <1>5, <1>8

(* A process that has closed everything returns, or ends. *)
LEMMA CloseDoneLife ==
  ASSUME LifeInv, NEW p \in Procs, CloseDone(p)
  PROVE  LifeInv'
<1> USE DEF LifeInv, CloseDone
<1>0. PICK l \in {"dead", "user"} : pc' = [pc EXCEPT ![p] = l] OBVIOUS
<1>1. PipeTypeOK' BY <1>0 DEF PipeTypeOK, Locs
<1>2. PlaceInv'
  <2> QED BY <1>0 DEF PlaceInv, PlaceOK, PipeTypeOK
<1>3. RefInv' /\ OpenInv' BY <1>0, <1>1, QuietLife DEF PipeTypeOK
<1> QED BY <1>1, <1>2, <1>3

(* fileclose() drops a reference; the last one goes on to pipeclose(). *)
LEMMA FilecloseLife ==
  ASSUME LifeInv, NEW p \in Procs, fileclose(p)
  PROVE  LifeInv'
<1> USE DEF LifeInv
<1>1. todo[p] \in Lists /\ todo[p] # <<>> /\ pc[p] = "close" BY DEF fileclose, PipeTypeOK
<1>0. PICK e \in Ends : e = Head(todo[p]) BY <1>1, ListCons
<1>2. /\ e \in Ends /\ Tail(todo[p]) \in Lists /\ ~Listed(Tail(todo[p]), e)
      /\ \A f \in Ends : Listed(todo[p], f) <=> f = e \/ Listed(Tail(todo[p]), f)
  BY <1>0, <1>1, ListCons
<1>3. /\ ref' = [ref EXCEPT ![e] = @ - 1]
      /\ \/ ref[e] > 1 /\ todo' = [todo EXCEPT ![p] = Tail(todo[p])] /\ pc' = pc
         \/ ~(ref[e] > 1) /\ pc' = [pc EXCEPT ![p] = "pclose"] /\ todo' = todo
      /\ UNCHANGED <<pipevars, lock, ofile, killed, buf, exiting>>
  BY <1>0 DEF fileclose
<1>4. PipeTypeOK'
  <2>1. ref' \in [Ends -> Int] BY <1>2, <1>3 DEF PipeTypeOK
  <2>2. todo' \in [Procs -> Lists] BY <1>2, <1>3 DEF PipeTypeOK
  <2>3. pc' \in [Procs -> Locs] BY <1>3 DEF PipeTypeOK, Locs
  <2> QED BY <2>1, <2>2, <2>3, <1>3 DEF PipeTypeOK
<1>5. PlaceInv'
  <2> SUFFICES ASSUME NEW q \in Procs PROVE PlaceOK(q)' BY DEF PlaceInv
  <2>1. PlaceOK(q) BY DEF PlaceInv
  <2> QED BY <2>1, <1>1, <1>2, <1>3, ZenonT(60) DEF PlaceOK, PipeTypeOK
<1>6. e \notin ofile[p] BY <1>1, <1>2 DEF PlaceInv, PlaceOK
<1>7. Held(p, e) /\ ~Held(p, e)' BY <1>0, <1>1, <1>2, <1>3, <1>6 DEF Held, Left, PipeTypeOK
<1>8. ASSUME NEW q \in Procs, NEW f \in Ends, q # p \/ f # e
      PROVE  Held(q, f)' <=> Held(q, f)
  BY <1>8, <1>1, <1>2, <1>3 DEF Held, Left, PipeTypeOK
<1>9. Holders(e)' = Holders(e) \ {p} BY <1>2, <1>7, <1>8 DEF Holders
<1>10. \A f \in Ends \ {e} : Holders(f)' = Holders(f) BY <1>8 DEF Holders
<1>11. p \in Holders(e) BY <1>7 DEF Holders
<1>12. IsFiniteSet(Holders(e)) BY Constants, FS_Subset DEF Holders
<1>13. /\ Cardinality(Holders(e)) \in Nat /\ Cardinality(Holders(e)') = Cardinality(Holders(e)) - 1
       /\ IsFiniteSet(Holders(e)')
  BY <1>9, <1>11, <1>12, FS_RemoveElement, FS_CardinalityType
<1>14. RefInv' BY <1>2, <1>3, <1>10, <1>13 DEF RefInv, PipeTypeOK
<1>15. Holders(e)' = {} <=> ref'[e] = 0
  BY <1>2, <1>13, <1>14, FS_EmptySet DEF RefInv
<1>16. ref'[e] = ref[e] - 1 /\ ref[e] \in Nat /\ ref[e] > 0
  <2>1. ref[e] = Cardinality(Holders(e)) /\ Holders(e) # {} BY <1>2, <1>11 DEF RefInv
  <2>2. ref[e] # 0 BY <2>1, <1>12, FS_EmptySet
  <2> QED BY <1>2, <1>3, <1>13, <2>1, <2>2 DEF PipeTypeOK
<1>17. \A q \in Procs : ~Closing(q, e) BY <1>2, <1>11 DEF OpenInv
<1>18. ASSUME NEW q \in Procs, NEW f \in Ends, f # e PROVE Closing(q, f)' <=> Closing(q, f)
  BY <1>18, <1>0, <1>1, <1>3 DEF Closing, PipeTypeOK
<1>19. ASSUME NEW q \in Procs
       PROVE  Closing(q, e)' <=> q = p /\ Holders(e)' = {}
  BY <1>0, <1>1, <1>2, <1>3, <1>15, <1>16, <1>17 DEF Closing, PipeTypeOK
<1>20. Open(e) BY <1>2, <1>11 DEF OpenInv
<1>21. \A f \in Ends : Open(f)' <=> Open(f) BY <1>3 DEF Open
<1>22. \A q \in Procs : pc'[q] = "kfree" <=> pc[q] = "kfree" BY <1>1, <1>3 DEF PipeTypeOK
<1>23. OpenInv'
  <2>1. (allocated <=> readopen \/ writeopen \/ \E q \in Procs : pc[q] = "kfree")'
    BY <1>3, <1>22 DEF OpenInv
  <2>2. ASSUME NEW f \in Ends
        PROVE  /\ (Open(f) <=> Holders(f) # {} \/ \E q \in Procs : Closing(q, f))'
               /\ \A q \in Procs : (Closing(q, f) => Holders(f) = {})'
               /\ \A q, t \in Procs : (Closing(q, f) /\ Closing(t, f) => q = t)'
    <3>1. CASE f = e
      <4>1. Open(e)' BY <1>2, <1>20, <1>21
      <4> QED BY <3>1, <4>1, <1>19
    <3>2. CASE f # e
      <4> HIDE DEF Ends
      <4>1. Holders(f)' = Holders(f) /\ (Open(f)' <=> Open(f)) BY <3>2, <1>10, <1>21
      <4> QED BY <3>2, <4>1, <1>18 DEF OpenInv
    <3> QED BY <3>1, <3>2
  <2> HIDE DEF Ends
  <2> QED BY <2>1, <2>2, <1>3, <1>22 DEF OpenInv
<1> QED BY <1>4, <1>5, <1>14, <1>23

(* pipeclose() clears the flag of its end; the second one frees the page. *)
LEMMA PipecloseLife ==
  ASSUME LifeInv, NEW p \in Procs, pipeclose(p)
  PROVE  LifeInv'
<1> USE DEF LifeInv
<1>1. todo[p] \in Lists /\ todo[p] # <<>> /\ pc[p] = "pclose" BY DEF pipeclose, PipeTypeOK, PlaceInv, PlaceOK
<1>0. PICK e \in Ends : e = Head(todo[p]) BY <1>1, ListCons
<1>2. /\ e \in Ends /\ Tail(todo[p]) \in Lists
      /\ \A f \in Ends : Listed(Tail(todo[p]), f) => Listed(todo[p], f)
  BY <1>0, <1>1, ListCons
<1>3. /\ todo' = [todo EXCEPT ![p] = Tail(todo[p])]
      /\ writeopen' = (writeopen /\ e # "w") /\ readopen' = (readopen /\ e # "r")
      /\ UNCHANGED <<allocated, data, nread, nwrite, lock, ref, ofile, killed, buf, exiting>>
  BY <1>0 DEF pipeclose
<1>4. PICK l \in {"kfree", "close"} : Moved(p, l) /\ (l = "kfree" <=> ~readopen' /\ ~writeopen')
  <2> DEFINE l == IF BothClosed THEN "kfree" ELSE "close"
  <2>1. l \in Locs /\ l \in {"kfree", "close"} /\ (l = "kfree" <=> ~readopen' /\ ~writeopen') BY DEF Locs, BothClosed
  <2>2. pc' = CloseWakeup(e, [pc EXCEPT ![p] = l]) BY <1>0 DEF pipeclose
  <2> HIDE DEF l
  <2>3. Moved(p, l) BY <2>1, <2>2, MovedTo DEF CloseWakeup, PipeTypeOK
  <2> QED BY <2>1, <2>3
<1>5. Closing(p, e) BY <1>0, <1>1 DEF Closing
<1>6. PipeTypeOK' BY <1>2, <1>3, <1>4 DEF PipeTypeOK, Moved
<1>7. PlaceInv'
  <2> SUFFICES ASSUME NEW q \in Procs PROVE PlaceOK(q)' BY DEF PlaceInv
  <2>1. PlaceOK(q) BY DEF PlaceInv
  <2> QED BY <2>1, <1>1, <1>2, <1>3, <1>4 DEF PlaceOK, PipeTypeOK, Moved
<1>8. ASSUME NEW q \in Procs, NEW f \in Ends
      PROVE  /\ Held(q, f)' <=> Held(q, f)
             /\ Closing(q, f)' <=> Closing(q, f) /\ q # p
  BY <1>1, <1>3, <1>4 DEF Held, Left, Closing, PipeTypeOK, Moved
<1>9. \A f \in Ends : Holders(f)' = Holders(f) BY <1>8 DEF Holders
<1>10. RefInv' BY <1>3, <1>9 DEF RefInv
<1>11. Open(e) /\ Holders(e) = {} /\ \A q \in Procs : Closing(q, e) => q = p
  BY <1>2, <1>5 DEF OpenInv
<1>12. allocated /\ \A q \in Procs : pc[q] # "kfree" BY <1>2, <1>11 DEF OpenInv, Open
<1>13. \A q \in Procs : pc'[q] = "kfree" <=> q = p /\ ~readopen' /\ ~writeopen'
  BY <1>4, <1>12 DEF Moved, PipeTypeOK
<1>14. ~Open(e)' /\ \A f \in Ends : f # e => (Open(f)' <=> Open(f)) BY <1>2, <1>3 DEF Open
<1>15. OpenInv'
  <2>1. ASSUME NEW f \in Ends
        PROVE  /\ (Open(f) <=> Holders(f) # {} \/ \E q \in Procs : Closing(q, f))'
               /\ \A q \in Procs : (Closing(q, f) => Holders(f) = {})'
               /\ \A q, t \in Procs : (Closing(q, f) /\ Closing(t, f) => q = t)'
    <3>1. CASE f = e BY <3>1, <1>2, <1>8, <1>9, <1>11, <1>14
    <3>2. CASE f # e
      <4>1. ~Closing(p, f) BY <3>2, <1>5 DEF Closing
      <4> HIDE DEF Ends
      <4>2. Holders(f)' = Holders(f) /\ (Open(f)' <=> Open(f)) BY <3>2, <1>9, <1>14
      <4>3. \A q \in Procs : Closing(q, f)' <=> Closing(q, f) BY <4>1, <1>8
      <4> QED BY <3>2, <4>2, <4>3 DEF OpenInv
    <3> QED BY <3>1, <3>2
  <2>2. (allocated <=> readopen \/ writeopen \/ \E q \in Procs : pc[q] = "kfree")'
    BY <1>3, <1>12, <1>13
  <2> HIDE DEF Ends
  <2> QED BY <2>1, <2>2, <1>13 DEF OpenInv
<1> QED BY <1>6, <1>7, <1>10, <1>15

(* The page is freed when no end is open and nobody works on it. *)
LEMMA KfreeLife ==
  ASSUME LifeInv, NEW p \in Procs, kfree(p)
  PROVE  LifeInv'
<1> USE DEF LifeInv, kfree
<1>0. 0 \in Cells BY Constants DEF Cells
<1>1. PipeTypeOK' BY <1>0, Constants DEF PipeTypeOK, Locs
<1>2. PlaceInv' BY DEF PlaceInv, PlaceOK, PipeTypeOK
<1>3. ASSUME NEW q \in Procs, NEW f \in Ends
      PROVE  (Held(q, f)' <=> Held(q, f)) /\ (Closing(q, f)' <=> Closing(q, f))
  BY DEF Held, Left, Closing, PipeTypeOK
<1>4. \A f \in Ends : Holders(f)' = Holders(f) /\ (Open(f)' <=> Open(f)) BY <1>3 DEF Holders, Open
<1>5. RefInv' BY <1>4 DEF RefInv
<1>6. \A q \in Procs : pc'[q] # "kfree" BY DEF OpenInv, PipeTypeOK
<1>7. ~readopen' /\ ~writeopen' BY DEF OpenInv
<1>8. OpenInv'
  <2> HIDE DEF Ends
  <2> QED BY <1>3, <1>4, <1>6, <1>7 DEF OpenInv
<1> QED BY <1>1, <1>2, <1>5, <1>8

(* fork() duplicates the parent's descriptors. *)
LEMMA ForkLife ==
  ASSUME LifeInv, NEW p \in Procs, NEW q \in Procs, fork(p, q)
  PROVE  LifeInv'
<1> USE DEF LifeInv, fork
<1>1. p # q /\ pc[p] = "user" /\ pc[q] = "dead" /\ ofile[q] = {} /\ todo[q] = <<>> /\ todo[p] = <<>>
  BY DEF PlaceInv, PlaceOK
<1>2. PipeTypeOK' BY <1>1 DEF PipeTypeOK, Locs, Dup
<1>3. PlaceInv'
  <2> SUFFICES ASSUME NEW t \in Procs PROVE PlaceOK(t)' BY DEF PlaceInv
  <2>1. PlaceOK(t) BY DEF PlaceInv
  <2> QED BY <2>1, <1>1, ListEmpty DEF PlaceOK, PipeTypeOK
<1>4. ASSUME NEW t \in Procs, NEW f \in Ends
      PROVE  /\ Held(t, f)' <=> Held(t, f) \/ (t = q /\ f \in ofile[p])
             /\ Closing(t, f)' <=> Closing(t, f)
             /\ ~Held(q, f) /\ (f \in ofile[p] => Held(p, f))
  BY <1>1, ListEmpty DEF Held, Left, Closing, PipeTypeOK
<1>5. ASSUME NEW f \in Ends
      PROVE  /\ f \in ofile[p] => Holders(f)' = Holders(f) \cup {q} /\ p \in Holders(f)
             /\ f \notin ofile[p] => Holders(f)' = Holders(f)
             /\ q \notin Holders(f) /\ IsFiniteSet(Holders(f)) /\ (Open(f)' <=> Open(f))
  <2>1. IsFiniteSet(Holders(f)) BY Constants, FS_Subset DEF Holders
  <2> QED BY <2>1, <1>4 DEF Holders, Open
<1>6. RefInv'
  <2> SUFFICES ASSUME NEW f \in Ends PROVE (ref[f] = Cardinality(Holders(f)))' BY DEF RefInv
  <2>1. Cardinality(Holders(f)) \in Nat BY <1>5, FS_CardinalityType
  <2>2. f \in ofile[p] => Cardinality(Holders(f)') = Cardinality(Holders(f)) + 1
    BY <1>5, <2>1, FS_AddElement
  <2> QED BY <1>5, <2>1, <2>2 DEF RefInv, Dup
<1>7. \A t \in Procs : pc'[t] = "kfree" <=> pc[t] = "kfree" BY <1>1 DEF PipeTypeOK
<1>8. OpenInv'
  <2>1. ASSUME NEW f \in Ends
        PROVE  /\ (Open(f) <=> Holders(f) # {} \/ \E t \in Procs : Closing(t, f))'
               /\ \A t \in Procs : (Closing(t, f) => Holders(f) = {})'
               /\ \A t, u \in Procs : (Closing(t, f) /\ Closing(u, f) => t = u)'
    <3>1. Holders(f)' = {} <=> Holders(f) = {} BY <1>5
    <3> HIDE DEF Ends
    <3> QED BY <3>1, <1>4, <1>5 DEF OpenInv
  <2>2. (allocated <=> readopen \/ writeopen \/ \E t \in Procs : pc[t] = "kfree")' BY <1>7 DEF OpenInv
  <2> HIDE DEF Ends
  <2> QED BY <2>1, <2>2, <1>7 DEF OpenInv
<1> QED BY <1>2, <1>3, <1>6, <1>8

(* The counters wrap, their distance does not notice. *)
LEMMA Position ==
  ASSUME NEW i \in Cells, NEW k \in 0 .. PIPESIZE
  PROVE  (i + k) % Wrap = (IF i + k < Wrap THEN i + k ELSE i + k - Wrap) /\ (i + k) % Wrap \in Cells
<1> DEFINE a == i + k
<1>1. a \in -Wrap .. 2 * Wrap - 1 /\ Wrap \in Nat \ {0} /\ a >= 0 BY Constants DEF Cells
<1>2. a % Wrap = IF a < 0 THEN a + Wrap ELSE IF a < Wrap THEN a ELSE a - Wrap
  <2> HIDE DEF a
  <2> QED BY <1>1, ModNear, Zenon
<1> QED BY <1>1, <1>2 DEF Cells

(* The distance of two counters modulo Wrap. *)
LEMMA Distance ==
  ASSUME NEW i \in Cells, NEW j \in Cells
  PROVE  (i - j) % Wrap = (IF j <= i THEN i - j ELSE i - j + Wrap) /\ (i - j) % Wrap \in Cells
<1> DEFINE a == i - j
<1>1. a \in -Wrap .. 2 * Wrap - 1 /\ Wrap \in Nat \ {0} /\ a < Wrap BY Constants DEF Cells
<1>2. a % Wrap = IF a < 0 THEN a + Wrap ELSE IF a < Wrap THEN a ELSE a - Wrap
  <2> HIDE DEF a
  <2> QED BY <1>1, ModNear, Zenon
<1> QED BY <1>1, <1>2 DEF Cells

(* The number of bytes in the ring, also after nwrite has wrapped. *)
LEMMA CountIs ==
  ASSUME nread \in Cells, nwrite \in Cells
  PROVE  Count = (IF nread <= nwrite THEN nwrite - nread ELSE nwrite - nread + Wrap) /\ Count \in Cells
BY Distance DEF Count

(* Counters at distance 0 are equal. *)
LEMMA Level ==
  ASSUME NEW i \in Cells, NEW j \in Cells, (i - j) % Wrap = 0
  PROVE  i = j
<1>1. (i - j) % Wrap = IF j <= i THEN i - j ELSE i - j + Wrap BY Distance
<1> QED BY <1>1, Constants DEF Cells

(* k bytes more at the front, or k bytes less at the back. *)
LEMMA CountMore ==
  ASSUME NEW i \in Cells, NEW j \in Cells, NEW k \in 0 .. PIPESIZE, ((i - j) % Wrap) + k <= PIPESIZE
  PROVE  (((i + k) % Wrap) - j) % Wrap = ((i - j) % Wrap) + k
<1> DEFINE m == (i + k) % Wrap
<1>1. m = (IF i + k < Wrap THEN i + k ELSE i + k - Wrap) /\ m \in Cells BY Position
<1>2. (i - j) % Wrap = IF j <= i THEN i - j ELSE i - j + Wrap BY Distance
<1> HIDE DEF m
<1>3. (m - j) % Wrap = IF j <= m THEN m - j ELSE m - j + Wrap BY <1>1, Distance
<1>4. (m - j) % Wrap = ((i - j) % Wrap) + k BY <1>1, <1>2, <1>3, Constants DEF Cells
<1> QED BY <1>4 DEF m

(* Reading k bytes lowers the distance of the counters by k. *)
LEMMA CountLess ==
  ASSUME NEW i \in Cells, NEW j \in Cells, NEW k \in 0 .. PIPESIZE, k <= (i - j) % Wrap
  PROVE  (i - ((j + k) % Wrap)) % Wrap = ((i - j) % Wrap) - k
<1> DEFINE m == (j + k) % Wrap
<1>1. m = (IF j + k < Wrap THEN j + k ELSE j + k - Wrap) /\ m \in Cells BY Position
<1>2. (i - j) % Wrap = IF j <= i THEN i - j ELSE i - j + Wrap BY Distance
<1> HIDE DEF m
<1>3. (i - m) % Wrap = IF m <= i THEN i - m ELSE i - m + Wrap BY <1>1, Distance
<1>4. (i - m) % Wrap = ((i - j) % Wrap) - k BY <1>1, <1>2, <1>3, Constants DEF Cells
<1> QED BY <1>4 DEF m

PipeInv == LifeInv /\ SleepInv

(* What the copying steps do to the ring. *)
LEMMA FilledType ==
  ASSUME data \in [Index -> Bytes], NEW s \in Seq(Bytes)
  PROVE  Filled(s) \in [Index -> Bytes]
<1> SUFFICES ASSUME NEW i \in Index
             PROVE  (IF \E j \in 1 .. Len(s) : (nwrite + j - 1) % PIPESIZE = i
                       THEN s[CHOOSE j \in 1 .. Len(s) : (nwrite + j - 1) % PIPESIZE = i]
                       ELSE data[i]) \in Bytes
  BY DEF Filled
<1>1. ASSUME NEW c, c \in 1 .. Len(s) PROVE s[c] \in Bytes BY <1>1
<1>2. CASE \E j \in 1 .. Len(s) : (nwrite + j - 1) % PIPESIZE = i
  <2> DEFINE c == CHOOSE j \in 1 .. Len(s) : (nwrite + j - 1) % PIPESIZE = i
  <2>1. c \in 1 .. Len(s) BY <1>2
  <2>2. s[c] \in Bytes
    <3> HIDE DEF c
    <3> QED BY <2>1, <1>1
  <2> QED BY <1>2, <2>2
<1>3. CASE ~\E j \in 1 .. Len(s) : (nwrite + j - 1) % PIPESIZE = i BY <1>3
<1> QED BY <1>2, <1>3

(* The bytes a write copies. *)
Fits(p) == IF Len(buf[p]) <= Room THEN Len(buf[p]) ELSE Room

(* What pipewrite() copies fits into the ring. *)
LEMMA CopyFacts ==
  ASSUME PipeInv, NEW p \in Procs, CopyIn(p)
  PROVE  /\ buf[p] \in Seq(Bytes) /\ Len(buf[p]) \in Nat /\ Room \in 0 .. PIPESIZE /\ Count \in 0 .. PIPESIZE
         /\ Fits(p) \in 0 .. PIPESIZE /\ Fits(p) <= Room /\ Fits(p) <= Len(buf[p])
         /\ data' = Filled(SubSeq(buf[p], 1, Fits(p))) /\ data' \in [Index -> Bytes]
         /\ nwrite' = (nwrite + Fits(p)) % Wrap /\ nwrite' \in Cells /\ Count' = Count + Fits(p)
<1>1. buf[p] \in Seq(Bytes) /\ nread \in Cells /\ nwrite \in Cells /\ data \in [Index -> Bytes]
  BY DEF PipeInv, LifeInv, PipeTypeOK
<1>2. Len(buf[p]) \in Nat BY <1>1
<1>3. Count \in Nat /\ Count <= PIPESIZE BY <1>1, CountIs, Constants DEF PipeInv, SleepInv, Cells
<1>4. Room \in 0 .. PIPESIZE /\ Room \in Int BY <1>3, Constants DEF Room
<1>5. Fits(p) \in 0 .. PIPESIZE /\ Fits(p) <= Room /\ Fits(p) <= Len(buf[p]) /\ Fits(p) \in Nat
  BY <1>2, <1>4, Constants DEF Fits
<1>6. Min({Len(buf[p]), Room}) = Fits(p) BY <1>2, <1>4, MinPair DEF Fits
<1>7. data' = Filled(SubSeq(buf[p], 1, Fits(p))) /\ nwrite' = (nwrite + Fits(p)) % Wrap /\ nread' = nread
  BY <1>6 DEF CopyIn
<1>8. SubSeq(buf[p], 1, Fits(p)) \in Seq(Bytes) BY <1>1, <1>5, SubSeqProperties
<1>9. data' \in [Index -> Bytes] BY <1>1, <1>7, <1>8, FilledType
<1>10. nwrite' \in Cells BY <1>1, <1>5, <1>7, Position
<1>11. Count' = Count + Fits(p)
  <2>1. Count = (nwrite - nread) % Wrap /\ Count' = (nwrite' - nread') % Wrap BY DEF Count
  <2>2. ((nwrite - nread) % Wrap) + Fits(p) <= PIPESIZE BY <2>1, <1>3, <1>4, <1>5, Constants DEF Room
  <2> QED BY <1>1, <1>5, <1>7, <2>1, <2>2, CountMore
<1> QED BY <1>1, <1>2, <1>3, <1>4, <1>5, <1>7, <1>9, <1>10, <1>11, Constants

(* piperead() takes the oldest bytes, at most those there are. *)
LEMMA ReadFacts ==
  ASSUME PipeInv, NEW p \in Procs, NEW n \in 0 .. MaxN, ReadDone(p, n)
  PROVE  \E k \in 0 .. PIPESIZE :
           /\ k <= Count /\ Count \in 0 .. PIPESIZE /\ got' = Oldest(k)
           /\ nread' = (nread + k) % Wrap /\ nread' \in Cells /\ Count' = Count - k
           /\ (stranded /\ k < Count => stranded') /\ (k = Count => nread' = nwrite')
<1>1. nread \in Cells /\ nwrite \in Cells BY DEF PipeInv, LifeInv, PipeTypeOK
<1>2. Count \in 0 .. PIPESIZE BY <1>1, CountIs, Constants DEF PipeInv, SleepInv, Cells
<1>3. n \in Nat BY Constants
<1> DEFINE k == IF n <= Count THEN n ELSE Count
<1>4. k \in 0 .. PIPESIZE /\ k <= Count BY <1>2, <1>3, Constants
<1>5. Min({n, Count}) = k BY <1>2, <1>3, MinPair
<1>6. /\ got' = Oldest(k) /\ nread' = (nread + k) % Wrap /\ nwrite' = nwrite
      /\ stranded' = (stranded /\ k < Count)
  BY <1>5 DEF ReadDone
<1> HIDE DEF k
<1>7. nread' \in Cells BY <1>1, <1>4, <1>6, Position
<1>8. Count' = Count - k
  <2>1. Count = (nwrite - nread) % Wrap /\ Count' = (nwrite' - nread') % Wrap BY DEF Count
  <2> QED BY <1>1, <1>4, <1>6, <2>1, CountLess
<1>9. k = Count => nread' = nwrite'
  <2>1. k = Count => (nwrite' - nread') % Wrap = 0 BY <1>2, <1>4, <1>8 DEF Count
  <2>2. nwrite' \in Cells BY <1>1, <1>6
  <2> QED BY <1>7, <2>1, <2>2, Level
<1>10. stranded /\ k < Count => stranded' BY <1>6, Zenon
<1> QED BY <1>2, <1>4, <1>6, <1>7, <1>8, <1>9, <1>10

(* A step of read() or write(): p keeps its descriptors and goes to l. *)
LEMMA TransferLife ==
  ASSUME LifeInv, PipeTypeOK', NEW p \in Procs, NEW l, Moved(p, l), PlaceOK(p)',
         {pc[p], l} \cap {"newpipe", "pclose", "kfree", "dead"} = {},
         \A q \in Procs \ {p} : buf'[q] = buf[q],
         UNCHANGED <<allocated, readopen, writeopen, ref, ofile, todo, exiting>>
  PROVE  LifeInv'
<1> USE DEF LifeInv
<1>1. PlaceInv'
  <2> SUFFICES ASSUME NEW q \in Procs \ {p} PROVE PlaceOK(q)' BY DEF PlaceInv
  <2>1. PlaceOK(q) BY DEF PlaceInv
  <2> QED BY <2>1 DEF PlaceOK, Moved
<1>2. RefInv' /\ OpenInv' BY QuietLife DEF Moved, PipeTypeOK
<1> QED BY <1>1, <1>2

(* A process enters pipewrite() or piperead(). *)
LEMMA CallLife ==
  ASSUME LifeInv, NEW p \in Procs, (\E s \in Messages : sys_write(p, s)) \/ sys_read(p)
  PROVE  LifeInv'
<1>1. PlaceOK(p) /\ pc[p] = "user" BY DEF LifeInv, PlaceInv, sys_write, sys_read
<1>2. CASE sys_read(p)
  <2> USE <1>2 DEF sys_read
  <2>1. PipeTypeOK' BY DEF LifeInv, PipeTypeOK, Locs
  <2>2. Moved(p, "read") BY MovedTo DEF LifeInv, PipeTypeOK, Locs
  <2>3. PlaceOK(p)' BY <1>1, <2>2 DEF PlaceOK, Moved
  <2> QED BY <1>1, <2>1, <2>2, <2>3, TransferLife
<1>3. CASE \E s \in Messages : sys_write(p, s)
  <2>1. PICK s \in Messages : sys_write(p, s) BY <1>3
  <2> USE <2>1 DEF sys_write
  <2>2. s \in Seq(Bytes)
    <3>1. PICK n \in 0 .. MaxN : s \in [1 .. n -> Bytes] BY DEF Messages
    <3>2. n \in Nat BY Constants
    <3> QED BY <3>1, <3>2
  <2>3. PipeTypeOK' BY <2>2 DEF LifeInv, PipeTypeOK, Locs
  <2>4. Moved(p, "write") BY MovedTo DEF LifeInv, PipeTypeOK, Locs
  <2>5. PlaceOK(p)' BY <1>1, <2>4 DEF PlaceOK, Moved
  <2>6. \A q \in Procs \ {p} : buf'[q] = buf[q] BY DEF LifeInv, PipeTypeOK
  <2> QED BY <1>1, <2>3, <2>4, <2>5, <2>6, TransferLife
<1> QED BY <1>2, <1>3

(* The three outcomes of the loop of pipewrite(). *)
LEMMA WriteCases ==
  ASSUME PipeInv, NEW p \in Procs, WriteDone(p) \/ WriteGivesUp(p) \/ WriteBlocks(p)
  PROVE  /\ CopyIn(p)
         /\ \/ /\ Moved(p, "user") /\ buf' = [buf EXCEPT ![p] = <<>>] /\ lock' = lock
            \/ /\ Moved(p, "towrite") /\ lock' = p /\ readopen /\ Fits(p) = Room
               /\ buf' = [buf EXCEPT ![p] = SubSeq(buf[p], Fits(p) + 1, Len(buf[p]))]
<1>1. CopyIn(p) BY DEF WriteDone, WriteGivesUp, WriteBlocks
<1>2. pc \in [Procs -> Locs] /\ "user" \in Locs /\ "towrite" \in Locs BY DEF PipeInv, LifeInv, PipeTypeOK, Locs
<1>3. CASE WriteDone(p) \/ WriteGivesUp(p)
  <2>1. Moved(p, "user") BY <1>2, <1>3, MovedTo DEF WriteDone, WriteGivesUp
  <2> QED BY <1>1, <1>3, <2>1 DEF WriteDone, WriteGivesUp
<1>4. CASE WriteBlocks(p)
  <2>1. Moved(p, "towrite") BY <1>2, <1>4, MovedTo DEF WriteBlocks
  <2>2. Fits(p) = Room BY <1>1, <1>4, CopyFacts DEF Fits, WriteBlocks
  <2>3. buf' = [buf EXCEPT ![p] = SubSeq(buf[p], Fits(p) + 1, Len(buf[p]))]
    BY <1>4, <2>2 DEF WriteBlocks
  <2> QED BY <1>1, <1>4, <2>1, <2>2, <2>3 DEF WriteBlocks
<1> QED BY <1>1, <1>3, <1>4

(* A step of pipewrite(). *)
LEMMA WriteLife ==
  ASSUME PipeInv, NEW p \in Procs, WriteDone(p) \/ WriteGivesUp(p) \/ WriteBlocks(p)
  PROVE  LifeInv'
<1>1. LifeInv /\ CopyIn(p) BY WriteCases DEF PipeInv
<1>2. /\ data' \in [Index -> Bytes] /\ nwrite' \in Cells
      /\ Fits(p) \in 0 .. PIPESIZE /\ buf[p] \in Seq(Bytes) /\ Fits(p) <= Len(buf[p]) /\ Len(buf[p]) \in Nat
  BY <1>1, CopyFacts
<1>3. /\ pc[p] = "write"
      /\ UNCHANGED <<allocated, nread, readopen, writeopen, ref, ofile, killed, todo, exiting>>
  BY <1>1 DEF CopyIn
<1>4. PICK l \in {"user", "towrite"} :
        /\ Moved(p, l) /\ (l = "user" => buf'[p] = <<>>) /\ lock' \in Procs \cup {Free}
        /\ \E s \in Seq(Bytes) : buf' = [buf EXCEPT ![p] = s]
  <2>1. lock \in Procs \cup {Free} BY <1>1 DEF LifeInv, PipeTypeOK
  <2>2. SubSeq(buf[p], Fits(p) + 1, Len(buf[p])) \in Seq(Bytes)
    BY <1>2, SubSeqProperties, Constants
  <2>3. <<>> \in Seq(Bytes) OBVIOUS
  <2>4. buf \in [Procs -> Seq(Bytes)] BY <1>1 DEF LifeInv, PipeTypeOK
  <2> DEFINE s == SubSeq(buf[p], Fits(p) + 1, Len(buf[p]))
  <2>5. \/ /\ Moved(p, "user") /\ buf' = [buf EXCEPT ![p] = <<>>] /\ lock' = lock
        \/ /\ Moved(p, "towrite") /\ lock' = p /\ buf' = [buf EXCEPT ![p] = s]
    BY WriteCases
  <2> HIDE DEF s
  <2>6. s \in Seq(Bytes) BY <2>2 DEF s
  <2> QED BY <2>1, <2>3, <2>4, <2>5, <2>6
<1>5. PICK s \in Seq(Bytes) : buf' = [buf EXCEPT ![p] = s] BY <1>4
<1>6. PipeTypeOK' BY <1>1, <1>2, <1>3, <1>4, <1>5 DEF LifeInv, PipeTypeOK, Moved
<1>7. PlaceOK(p)'
  <2>1. PlaceOK(p) BY <1>1 DEF LifeInv, PlaceInv
  <2> QED BY <1>3, <1>4, <2>1 DEF PlaceOK, Moved
<1>8. \A q \in Procs \ {p} : buf'[q] = buf[q] BY <1>1, <1>5 DEF LifeInv, PipeTypeOK
<1> QED BY <1>1, <1>3, <1>4, <1>6, <1>7, <1>8, TransferLife

(* A step of piperead(), or of a sleep(). *)
LEMMA ReadLife ==
  ASSUME PipeInv, NEW p \in Procs, (\E n \in 0 .. MaxN : ReadDone(p, n)) \/ ReadBlocks(p) \/ Sleep(p)
  PROVE  LifeInv'
<1>1. /\ LifeInv /\ nread' \in Cells /\ lock' \in Procs \cup {Free}
      /\ UNCHANGED <<allocated, data, nwrite, readopen, writeopen, ref, ofile, killed, buf, todo, exiting>>
  <2>1. CASE \E n \in 0 .. MaxN : ReadDone(p, n)
    BY <2>1, ReadFacts DEF PipeInv, LifeInv, PipeTypeOK, ReadDone
  <2>2. CASE ReadBlocks(p) BY <2>2 DEF PipeInv, LifeInv, PipeTypeOK, ReadBlocks
  <2>3. CASE Sleep(p) BY <2>3 DEF PipeInv, LifeInv, PipeTypeOK, Sleep
  <2> QED BY <2>1, <2>2, <2>3
<1>2. PICK l \in {"user", "toread", "wsleep", "rsleep"} :
        /\ Moved(p, l) /\ pc[p] \in {"read", "towrite", "toread"}
        /\ l = "wsleep" <=> pc[p] = "towrite"
  <2>1. pc \in [Procs -> Locs] /\ {"user", "toread", "wsleep", "rsleep"} \subseteq Locs
    BY DEF PipeInv, LifeInv, PipeTypeOK, Locs
  <2>2. CASE \E n \in 0 .. MaxN : ReadDone(p, n)
    <3>1. Moved(p, "user") /\ pc[p] = "read" BY <2>1, <2>2, MovedTo DEF ReadDone
    <3> QED BY <3>1
  <2>3. CASE ReadBlocks(p)
    <3>1. PICK l \in {"user", "toread"} : pc' = [pc EXCEPT ![p] = l] /\ pc[p] = "read" BY <2>3 DEF ReadBlocks
    <3>2. Moved(p, l) BY <2>1, <3>1, MovedTo
    <3> QED BY <3>1, <3>2
  <2>4. CASE Sleep(p)
    <3>1. CASE pc[p] = "towrite"
      <4>1. Moved(p, "wsleep") BY <2>1, <2>4, <3>1, MovedTo DEF Sleep
      <4> QED BY <3>1, <4>1
    <3>2. CASE pc[p] # "towrite"
      <4>1. Moved(p, "rsleep") /\ pc[p] = "toread" BY <2>1, <2>4, <3>2, MovedTo DEF Sleep
      <4> QED BY <4>1
    <3> QED BY <3>1, <3>2
  <2> QED BY <2>2, <2>3, <2>4
<1>3. PipeTypeOK' BY <1>1, <1>2 DEF LifeInv, PipeTypeOK, Moved
<1>4. PlaceOK(p)'
  <2>1. PlaceOK(p) BY <1>1 DEF LifeInv, PlaceInv
  <2> QED BY <1>1, <1>2, <2>1 DEF PlaceOK, Moved
<1> QED BY <1>1, <1>2, <1>3, <1>4, TransferLife

(* kill() wakes its process and touches nothing of the pipe. *)
LEMMA KillLife ==
  ASSUME LifeInv, NEW p \in Procs, kill(p)
  PROVE  /\ LifeInv'
         /\ \A q \in Procs : \/ pc'[q] = pc[q]
                             \/ pc[q] = "rsleep" /\ pc'[q] = "read"
                             \/ pc[q] = "wsleep" /\ pc'[q] = "write"
<1> USE DEF LifeInv
<1> DEFINE l == CASE pc[p] = "rsleep" -> "read" [] pc[p] = "wsleep" -> "write" [] OTHER -> pc[p]
<1>1. l = pc[p] \/ (pc[p] = "rsleep" /\ l = "read") \/ (pc[p] = "wsleep" /\ l = "write") OBVIOUS
<1>2. pc' = [pc EXCEPT ![p] = l] /\ killed' = [killed EXCEPT ![p] = TRUE]
      /\ UNCHANGED <<pipevars, lock, ref, ofile, buf, todo, exiting>>
  BY DEF kill
<1>3. l \in Locs BY <1>1 DEF PipeTypeOK, Locs
<1> HIDE DEF l
<1>4. PipeTypeOK' BY <1>2, <1>3 DEF PipeTypeOK
<1>5. \A q \in Procs : \/ pc'[q] = pc[q]
                       \/ pc[q] = "rsleep" /\ pc'[q] = "read"
                       \/ pc[q] = "wsleep" /\ pc'[q] = "write"
  BY <1>1, <1>2 DEF PipeTypeOK
<1>6. PlaceInv'
  <2> SUFFICES ASSUME NEW q \in Procs PROVE PlaceOK(q)' BY DEF PlaceInv
  <2>1. PlaceOK(q) BY DEF PlaceInv
  <2> QED BY <1>2, <1>5, <2>1 DEF PlaceOK
<1>7. RefInv' /\ OpenInv' BY <1>2, <1>4, <1>5, QuietLife DEF PipeTypeOK
<1> QED BY <1>4, <1>5, <1>6, <1>7

(* Whoever has a descriptor keeps the end open and the page allocated. *)
LEMMA HeldOpen ==
  ASSUME LifeInv, NEW q \in Procs, NEW e \in ofile[q]
  PROVE  e \in Ends /\ Open(e) /\ allocated /\ \A t \in Procs : pc[t] # "kfree"
<1>1. e \in Ends BY DEF LifeInv, PipeTypeOK
<1>2. q \in Holders(e) BY DEF Holders, Held
<1>3. Open(e) BY <1>1, <1>2 DEF LifeInv, OpenInv
<1>4. readopen \/ writeopen BY <1>3 DEF Open
<1>5. allocated /\ \A t \in Procs : pc[t] # "kfree" BY <1>4 DEF LifeInv, OpenInv
<1> QED BY <1>1, <1>3, <1>5

(* Nobody sleeps at the start. *)
LEMMA InitSleep == Init => SleepInv
<1> SUFFICES ASSUME Init PROVE SleepInv OBVIOUS
<1>1. nread = 0 /\ nwrite = 0 /\ 0 \in Cells BY Constants DEF Init, Cells
<1>2. Count = 0 BY <1>1, CountIs
<1> QED BY <1>2, Constants DEF Init, SleepInv

(* Steps that leave the ring, the ends and the lock alone. *)
LEMMA QuietSleep ==
  ASSUME SleepInv,
         \A q \in Procs :
            \/ pc'[q] = pc[q]
            \/ /\ pc[q] \notin {"towrite", "toread"}
               /\ pc'[q] \notin {"towrite", "toread", "wsleep", "rsleep"},
         UNCHANGED <<nread, nwrite, readopen, writeopen, lock, stranded>>
  PROVE  SleepInv'
<1>1. Count' = Count BY DEF Count
<1> QED BY <1>1 DEF SleepInv

(* Nobody sleeps on a page that becomes a pipe, or is freed. *)
LEMMA AllocSleep ==
  ASSUME PipeInv, NEW p \in Procs, pipealloc(p) \/ kfree(p)
  PROVE  SleepInv'
<1>1. LifeInv /\ SleepInv BY DEF PipeInv
<1>2. nread' = 0 /\ nwrite' = 0 /\ 0 \in Cells BY Constants DEF pipealloc, kfree, Cells
<1>3. Count' = 0
  <2>1. (0 - 0) % Wrap = 0 BY <1>2, Distance
  <2> QED BY <1>2, <2>1 DEF Count
<1>4. PICK l \in {"newpipe", "close"} : pc' = [pc EXCEPT ![p] = l] /\ pc[p] \in {"user", "kfree"} /\ lock' = lock
  BY DEF pipealloc, kfree
<1>5. \A q \in Procs : ofile[q] = {}
  <2> SUFFICES ASSUME NEW q \in Procs, NEW e \in ofile[q] PROVE FALSE OBVIOUS
  <2>1. allocated /\ \A t \in Procs : pc[t] # "kfree" BY <1>1, HeldOpen
  <2> QED BY <2>1 DEF pipealloc, kfree
<1>6. \A q \in Procs : pc[q] \notin {"towrite", "wsleep", "toread", "rsleep"}
  BY <1>1, <1>5 DEF LifeInv, PlaceInv, PlaceOK
<1>7. pc \in [Procs -> Locs] BY <1>1 DEF LifeInv, PipeTypeOK
<1> QED BY <1>1, <1>3, <1>4, <1>6, <1>7, Constants DEF SleepInv

(* pipeclose() wakes those its end kept asleep. *)
LEMMA PipecloseSleep ==
  ASSUME PipeInv, NEW p \in Procs, pipeclose(p)
  PROVE  SleepInv'
<1>1. LifeInv /\ SleepInv BY DEF PipeInv
<1> DEFINE l == IF BothClosed THEN "kfree" ELSE "close"
           f == [pc EXCEPT ![p] = l]
           c == Head(todo[p])
<1>2. l \in Locs /\ l \in {"kfree", "close"} BY DEF Locs
<1>3. /\ pc[p] = "pclose" /\ lock = Free /\ lock' = lock /\ nread' = nread /\ nwrite' = nwrite
      /\ writeopen' = (writeopen /\ c # "w") /\ readopen' = (readopen /\ c # "r")
      /\ pc' = CloseWakeup(c, f) /\ stranded' = (stranded /\ c # "w")
  BY DEF pipeclose
<1> HIDE DEF l, c
<1>4. pc \in [Procs -> Locs] BY <1>1 DEF LifeInv, PipeTypeOK
<1>5. f \in [Procs -> Locs] /\ \A q \in Procs : f[q] = IF q = p THEN l ELSE pc[q] BY <1>2, <1>4
<1> HIDE DEF f
<1>6. Head(todo[p]) \in Ends
  <2>1. todo[p] \in Lists /\ todo[p] # <<>> BY <1>1, <1>3 DEF LifeInv, PipeTypeOK, PlaceInv, PlaceOK
  <2> QED BY <2>1, ListCons
<1>7. c \in Ends BY <1>6 DEF c
<1>8. Count' = Count BY <1>3 DEF Count
<1>9. \A q \in Procs : pc[q] \notin {"towrite", "toread"} BY <1>1, <1>3, Constants DEF SleepInv
<1>10. ASSUME NEW q \in Procs
       PROVE  /\ pc'[q] \notin {"towrite", "toread"}
              /\ pc'[q] = "rsleep" => pc[q] = "rsleep" /\ c # "w"
              /\ pc'[q] = "wsleep" => pc[q] = "wsleep" /\ c # "r"
  <2>1. CASE c = "w" BY <2>1, <1>2, <1>3, <1>5, <1>9, Woken DEF CloseWakeup
  <2>2. CASE c = "r" BY <2>2, <1>2, <1>3, <1>5, <1>9, Woken DEF CloseWakeup
  <2> QED BY <2>1, <2>2, <1>7
<1> QED BY <1>1, <1>3, <1>8, <1>10, Constants DEF SleepInv

(* After a step of pipewrite() no reader is asleep beside bytes, unless    *)
(* the writer gave up; a full pipe takes nothing.                          *)
LEMMA WriteReaders ==
  ASSUME PipeInv, NEW p \in Procs, WriteDone(p) \/ WriteGivesUp(p) \/ WriteBlocks(p),
         \A q \in Procs : pc[q] \notin {"towrite", "toread"}
  PROVE  \A q \in Procs : /\ pc'[q] # "toread"
                          /\ pc'[q] = "rsleep" => nread' = nwrite' \/ stranded'
<1>1. pc \in [Procs -> Locs] /\ {"user", "towrite"} \subseteq Locs
  BY DEF PipeInv, LifeInv, PipeTypeOK, Locs
<1>2. ASSUME NEW l \in {"user", "towrite"}, pc' = WakeReaders([pc EXCEPT ![p] = l])
      PROVE  \A q \in Procs : pc'[q] \notin {"toread", "rsleep"}
  <2> DEFINE f == [pc EXCEPT ![p] = l]
  <2>1. f \in [Procs -> Locs] /\ \A q \in Procs : f[q] = IF q = p THEN l ELSE pc[q] BY <1>1
  <2>2. pc' = WakeReaders(f) BY <1>2
  <2> HIDE DEF f
  <2> QED BY <2>1, <2>2, Woken
<1>3. CASE WriteDone(p) BY <1>2, <1>3 DEF WriteDone
<1>4. CASE WriteBlocks(p) BY <1>2, <1>4 DEF WriteBlocks
<1>5. CASE WriteGivesUp(p)
  <2>1. CopyIn(p) BY <1>5 DEF WriteGivesUp
  <2>2. /\ Room \in 0 .. PIPESIZE /\ nwrite' = (nwrite + Fits(p)) % Wrap /\ nread' = nread
        /\ nwrite \in Cells /\ Fits(p) <= Room /\ Fits(p) \in 0 .. PIPESIZE
    BY <2>1, CopyFacts DEF CopyIn, PipeInv, LifeInv, PipeTypeOK
  <2>3. ASSUME NEW q \in Procs, pc[q] = "rsleep", ~stranded' PROVE nwrite' = nwrite /\ ~stranded
    <3>0. ~stranded /\ ~(Room > 0) BY <2>3, <1>5, Zenon DEF WriteGivesUp
    <3>1. Room = 0 /\ Fits(p) = 0 /\ ~stranded BY <2>2, <3>0, Constants
    <3>2. 0 \in 0 .. PIPESIZE BY Constants
    <3>3. (nwrite + 0) % Wrap = IF nwrite + 0 < Wrap THEN nwrite + 0 ELSE nwrite + 0 - Wrap
      BY <2>2, <3>2, Position
    <3> QED BY <2>2, <3>1, <3>3, Constants DEF Cells
  <2>4. \A q \in Procs : pc'[q] = IF q = p THEN "user" ELSE pc[q] BY <1>1, <1>5 DEF WriteGivesUp
  <2>5. \A q \in Procs : pc[q] = "rsleep" => nread = nwrite \/ stranded BY DEF PipeInv, SleepInv
  <2> QED BY <2>2, <2>3, <2>4, <2>5
<1> QED BY <1>3, <1>4, <1>5

(* pipewrite() wakes the readers before it sleeps or returns; a killed     *)
(* writer leaves them asleep, and then its bytes are stranded.             *)
LEMMA WriteSleep ==
  ASSUME PipeInv, NEW p \in Procs, WriteDone(p) \/ WriteGivesUp(p) \/ WriteBlocks(p)
  PROVE  SleepInv'
<1>1. LifeInv /\ SleepInv /\ CopyIn(p) BY WriteCases DEF PipeInv
<1>2. /\ Count \in 0 .. PIPESIZE /\ Room = PIPESIZE - Count /\ Count' = Count + Fits(p)
      /\ Fits(p) \in 0 .. PIPESIZE /\ Fits(p) <= Room
  BY <1>1, CopyFacts DEF Room
<1>3. pc[p] = "write" /\ lock = Free /\ readopen' = readopen /\ writeopen' = writeopen BY <1>1 DEF CopyIn
<1>4. Count' <= PIPESIZE /\ (Count = PIPESIZE => Count' = PIPESIZE) /\ (Fits(p) = Room => Count' = PIPESIZE)
  BY <1>2, Constants
<1>5. \A q \in Procs : pc[q] \notin {"towrite", "toread"} BY <1>1, <1>3, Constants DEF SleepInv
<1>6. \A q \in Procs : /\ pc'[q] # "toread"
                       /\ pc'[q] = "rsleep" => nread' = nwrite' \/ stranded'
  BY <1>1, <1>5, WriteReaders
<1>7. CASE Moved(p, "user") /\ lock' = lock
  BY <1>6, <1>7, <1>1, <1>3, <1>4, <1>5, Constants DEF SleepInv, Moved
<1>8. CASE Moved(p, "towrite") /\ lock' = p /\ readopen /\ Fits(p) = Room
  BY <1>6, <1>8, <1>1, <1>3, <1>4, <1>5, Constants DEF SleepInv, Moved
<1> QED BY <1>7, <1>8, WriteCases

(* piperead() wakes the writers when it has made room; it takes bytes      *)
(* beside a sleeping reader only if they were stranded.                    *)
LEMMA ReadSleep ==
  ASSUME PipeInv, NEW p \in Procs,
         \/ \E n \in 0 .. MaxN : ReadDone(p, n)
         \/ (ReadBlocks(p) \/ Sleep(p)) /\ UNCHANGED stranded
  PROVE  SleepInv'
<1>1. LifeInv /\ SleepInv BY DEF PipeInv
<1>2. pc \in [Procs -> Locs] BY <1>1 DEF LifeInv, PipeTypeOK
<1>3. CASE \E n \in 0 .. MaxN : ReadDone(p, n)
  <2>1. PICK n \in 0 .. MaxN : ReadDone(p, n) BY <1>3
  <2>2. PICK k \in 0 .. PIPESIZE :
          /\ k <= Count /\ Count \in 0 .. PIPESIZE /\ Count' = Count - k
          /\ (stranded /\ k < Count => stranded') /\ (k = Count => nread' = nwrite')
    BY <2>1, ReadFacts
  <2>3. Count' <= PIPESIZE BY <2>2, Constants
  <2> DEFINE f == [pc EXCEPT ![p] = "user"]
  <2>4. f \in [Procs -> Locs] /\ \A q \in Procs : f[q] = IF q = p THEN "user" ELSE pc[q] BY <1>2 DEF Locs
  <2>5. /\ pc[p] = "read" /\ lock = Free /\ lock' = lock /\ readopen' = readopen /\ writeopen' = writeopen
        /\ pc' = WakeWriters(f)
    BY <2>1 DEF ReadDone
  <2> HIDE DEF f
  <2>6. \A q \in Procs : pc[q] \notin {"towrite", "toread"} BY <1>1, <2>5, Constants DEF SleepInv
  <2>7. \A q \in Procs : /\ pc'[q] \notin {"towrite", "toread", "wsleep"}
                         /\ pc'[q] = "rsleep" => pc[q] = "rsleep"
    BY <2>4, <2>5, <2>6, Woken
  <2>8. \A q \in Procs : pc[q] = "rsleep" => nread' = nwrite' \/ stranded'
    <3> SUFFICES ASSUME NEW q \in Procs, pc[q] = "rsleep", ~stranded' PROVE nread' = nwrite' OBVIOUS
    <3>1. stranded BY <1>1, <2>1 DEF SleepInv, ReadDone, MustWait
    <3>2. k = Count BY <2>2, <3>1
    <3> QED BY <2>2, <3>2
  <2> QED BY <1>1, <2>3, <2>5, <2>7, <2>8, Constants DEF SleepInv
<1>4. CASE ReadBlocks(p) /\ UNCHANGED stranded
  <2>1. Count' = Count BY <1>4 DEF ReadBlocks, Count
  <2> QED BY <1>1, <1>2, <1>4, <2>1, Constants DEF SleepInv, ReadBlocks, MustWait
<1>5. CASE Sleep(p) /\ UNCHANGED stranded
  <2>1. Count' = Count BY <1>5 DEF Sleep, Count
  <2> QED BY <1>1, <1>2, <1>5, <2>1, Constants DEF SleepInv, Sleep
<1> QED BY <1>3, <1>4, <1>5

(* Every step of a process keeps the invariant. *)
LEMMA StepInv ==
  ASSUME PipeInv, NEW p \in Procs,
         \/ Announce(p)
         \/ Step(p) /\ UNCHANGED stranded
         \/ \E n \in 0 .. MaxN : ReadDone(p, n)
  PROVE  PipeInv'
<1>0. LifeInv /\ SleepInv /\ pc \in [Procs -> Locs] BY DEF PipeInv, LifeInv, PipeTypeOK
<1> USE DEF PipeInv
<1>1. CASE pipealloc(p) BY <1>0, <1>1, AllocLife, AllocSleep
<1>2. CASE kfree(p) BY <1>0, <1>2, KfreeLife, AllocSleep
<1>3. CASE (FdAlloc(p) \/ FdAllocFails(p)) /\ UNCHANGED stranded
  <2>1. LifeInv' BY <1>0, <1>3, FdAllocLife
  <2>2. SleepInv' BY <1>0, <1>3, QuietSleep DEF FdAlloc, FdAllocFails
  <2> QED BY <2>1, <2>2
<1>4. CASE ((\E s \in Messages : sys_write(p, s)) \/ sys_read(p)) /\ UNCHANGED stranded
  <2>1. LifeInv' BY <1>0, <1>4, CallLife
  <2>2. SleepInv' BY <1>0, <1>4, QuietSleep DEF sys_write, sys_read
  <2> QED BY <2>1, <2>2
<1>5. CASE WriteDone(p) \/ WriteGivesUp(p) \/ WriteBlocks(p) BY <1>5, WriteLife, WriteSleep
<1>6. CASE (\E n \in 0 .. MaxN : ReadDone(p, n)) \/ ((ReadBlocks(p) \/ Sleep(p)) /\ UNCHANGED stranded)
  BY <1>6, ReadLife, ReadSleep
<1>7. CASE ((\E e \in Ends : sys_close(p, e)) \/ exit(p)) /\ UNCHANGED stranded
  <2>1. LifeInv' BY <1>0, <1>7, CloseLife
  <2>2. SleepInv' BY <1>0, <1>7, QuietSleep DEF sys_close, exit
  <2> QED BY <2>1, <2>2
<1>8. CASE fileclose(p) /\ UNCHANGED stranded
  <2>1. LifeInv' BY <1>0, <1>8, FilecloseLife
  <2>2. SleepInv' BY <1>0, <1>8, QuietSleep DEF fileclose
  <2> QED BY <2>1, <2>2
<1>9. CASE CloseDone(p) /\ UNCHANGED stranded
  <2>1. LifeInv' BY <1>0, <1>9, CloseDoneLife
  <2>2. SleepInv' BY <1>0, <1>9, QuietSleep DEF CloseDone
  <2> QED BY <2>1, <2>2
<1>10. CASE pipeclose(p) BY <1>0, <1>10, PipecloseLife, PipecloseSleep
<1>11. CASE (\E q \in Procs : fork(p, q)) /\ UNCHANGED stranded
  <2>1. PICK q \in Procs : fork(p, q) BY <1>11
  <2>2. LifeInv' BY <1>0, <2>1, ForkLife
  <2>3. SleepInv' BY <1>0, <1>11, <2>1, QuietSleep DEF fork
  <2> QED BY <2>2, <2>3
<1>12. CASE kill(p) /\ UNCHANGED stranded
  <2>1. LifeInv' BY <1>0, <1>12, KillLife
  <2>2. \A q \in Procs : \/ pc'[q] = pc[q]
                         \/ pc[q] = "rsleep" /\ pc'[q] = "read"
                         \/ pc[q] = "wsleep" /\ pc'[q] = "write"
    BY <1>0, <1>12, KillLife
  <2>3. UNCHANGED <<nread, nwrite, readopen, writeopen, lock, stranded>> BY <1>12 DEF kill
  <2>4. SleepInv' BY <1>0, <2>2, <2>3, QuietSleep
  <2> QED BY <2>1, <2>4
<1>13. CASE Announce(p) BY <1>1, <1>2, <1>5, <1>10, <1>13 DEF Announce
<1>14. CASE Step(p) /\ UNCHANGED stranded
  BY <1>2, <1>3, <1>4, <1>6, <1>7, <1>8, <1>9, <1>11, <1>12, <1>14 DEF Step
<1>15. CASE \E n \in 0 .. MaxN : ReadDone(p, n) BY <1>6, <1>15
<1> QED BY <1>13, <1>14, <1>15

(* The inductive invariant of the pipe: references, places, sleepers. *)
THEOREM PipeInvHolds == Spec => []PipeInv
<1>1. Init => PipeInv BY InitLife, InitSleep DEF PipeInv
<1>2. PipeInv /\ [Next]_vars => PipeInv'
  <2> SUFFICES ASSUME PipeInv, [Next]_vars PROVE PipeInv' OBVIOUS
  <2>1. CASE Next
    <3>1. PICK p \in Procs :
            \/ Announce(p)
            \/ Step(p) /\ UNCHANGED stranded
            \/ \E n \in 0 .. MaxN : ReadDone(p, n)
      BY <2>1 DEF Next
    <3> QED BY <3>1, StepInv
  <2>2. CASE UNCHANGED vars
    <3>1. LifeInv' BY <2>2 DEF PipeInv, LifeInv, PipeTypeOK, PlaceInv, PlaceOK, RefInv, OpenInv, Holders, Held,
                       Left, Closing, Open, vars
    <3>2. SleepInv' BY <2>2 DEF PipeInv, SleepInv, Count, vars
    <3> QED BY <3>1, <3>2 DEF PipeInv
  <2> QED BY <2>1, <2>2
<1> QED BY <1>1, <1>2, PTL DEF Spec

(* The page of a pipe is freed exactly when nobody can reach it any more,  *)
(* for any number of processes: PipeLifetime.                              *)
THEOREM PipeLifetimeHolds == Spec => []PipeLifetime
<1>1. PipeInv => PipeLifetime
  <2> SUFFICES ASSUME PipeInv PROVE PipeLifetime OBVIOUS
  <2> USE DEF PipeInv, LifeInv
  <2>1. ASSUME allocated PROVE \E p \in Procs : Reaches(p)
    <3>1. CASE \E p \in Procs : pc[p] = "kfree" BY <3>1 DEF Reaches
    <3>2. CASE readopen \/ writeopen
      <4>1. PICK e \in Ends : Open(e) BY <3>2 DEF Open
      <4>2. CASE \E p \in Procs : Closing(p, e) BY <4>2 DEF Closing, Reaches
      <4>3. CASE Holders(e) # {}
        <5>1. PICK p \in Procs : Held(p, e) BY <4>3 DEF Holders
        <5>2. Reaches(p) BY <5>1, ListEmpty DEF Held, Left, Reaches
        <5> QED BY <5>2
      <4> QED BY <4>1, <4>2, <4>3 DEF OpenInv
    <3> QED BY <2>1, <3>1, <3>2 DEF OpenInv
  <2>2. ASSUME NEW p \in Procs, Reaches(p) PROVE allocated
    <3>1. CASE pc[p] = "kfree" BY <3>1 DEF OpenInv
    <3>2. CASE \E e \in Ends : Held(p, e) \/ Closing(p, e)
      <4>1. PICK e \in Ends : Held(p, e) \/ Closing(p, e) BY <3>2
      <4>2. Open(e) BY <4>1 DEF OpenInv, Holders
      <4> QED BY <4>2 DEF OpenInv, Open
    <3>3. CASE pc[p] = "pclose"
      <4>1. todo[p] \in Lists /\ todo[p] # <<>> BY <3>3 DEF PipeTypeOK, PlaceInv, PlaceOK
      <4>2. Head(todo[p]) \in Ends BY <4>1, ListCons
      <4> QED BY <3>2, <3>3, <4>2 DEF Closing
    <3>4. CASE pc[p] # "pclose" /\ todo[p] # <<>>
      <4>1. todo[p] \in Lists BY DEF PipeTypeOK
      <4>2. Head(todo[p]) \in Ends /\ Listed(todo[p], Head(todo[p])) BY <3>4, <4>1, ListCons
      <4> QED BY <3>2, <3>4, <4>2 DEF Held, Left
    <3>5. CASE ofile[p] # {} \/ pc[p] = "newpipe" BY <3>2, <3>5 DEF Held, PipeTypeOK
    <3> QED BY <2>2, <3>1, <3>3, <3>4, <3>5 DEF Reaches
  <2> QED BY <2>1, <2>2 DEF PipeLifetime
<1> QED BY <1>1, PipeInvHolds, PTL

(* No sleeper is forgotten, for any number of processes and any size of    *)
(* the pipe: NoForgottenSleeper.                                           *)
THEOREM NoForgottenSleeperHolds == Spec => []NoForgottenSleeper
<1>1. PipeInv => NoForgottenSleeper
  <2> SUFFICES ASSUME PipeInv, Count = PIPESIZE PROVE Full
    BY DEF NoForgottenSleeper, PipeInv, SleepInv
  <2>1. nread \in Cells /\ nwrite \in Cells BY DEF PipeInv, LifeInv, PipeTypeOK
  <2>2. Count = IF nread <= nwrite THEN nwrite - nread ELSE nwrite - nread + Wrap BY <2>1, CountIs
  <2>3. PIPESIZE \in 0 .. PIPESIZE BY Constants
  <2>4. (nread + PIPESIZE) % Wrap = IF nread + PIPESIZE < Wrap THEN nread + PIPESIZE ELSE nread + PIPESIZE - Wrap
    BY <2>1, <2>3, Position
  <2> QED BY <2>1, <2>2, <2>4, Constants DEF Full, Cells
<1> QED BY <1>1, PipeInvHolds, PTL

-----------------------------------------------------------------------------
(* The refinement of Fifo.                                                 *)

(* n bytes of d from the counter i on, and d with s written from i on. *)
Part(d, i, n) == [j \in 1 .. n |-> d[(i + j - 1) % PIPESIZE]]
Fill(d, i, s) ==
    [x \in Index |-> IF \E j \in 1 .. Len(s) : (i + j - 1) % PIPESIZE = x
                       THEN s[CHOOSE j \in 1 .. Len(s) : (i + j - 1) % PIPESIZE = x]
                       ELSE d[x]]
Pages == [Index -> Bytes]

(* A stretch of the ring is a string of the length asked for. *)
LEMMA PartIs ==
  ASSUME NEW d \in Pages, NEW i \in Cells, NEW n \in Nat
  PROVE  /\ Part(d, i, n) \in Seq(Bytes) /\ Len(Part(d, i, n)) = n
         /\ \A j \in 1 .. n : Part(d, i, n)[j] = d[(i + j - 1) % PIPESIZE]
<1>1. ASSUME NEW j \in 1 .. n PROVE d[(i + j - 1) % PIPESIZE] \in Bytes
  <2> DEFINE a == i + j - 1
  <2>1. a \in Int BY Constants DEF Cells
  <2> HIDE DEF a
  <2>2. a % PIPESIZE \in Index BY <2>1, Constants, ModDef DEF Index
  <2> QED BY <2>2 DEF a, Pages
<1>2. Part(d, i, n) \in [1 .. n -> Bytes] BY <1>1 DEF Part
<1>3. Part(d, i, n) \in Seq(Bytes) /\ Len(Part(d, i, n)) = n BY <1>2
<1> QED BY <1>3 DEF Part

(* Two sequences with the same elements are the same. *)
LEMMA SameSeq ==
  ASSUME NEW S, NEW s \in Seq(S), NEW t \in Seq(S), Len(s) = Len(t), \A j \in 1 .. Len(s) : s[j] = t[j]
  PROVE  s = t
OBVIOUS

(* The place of a counter that has wrapped. *)
LEMMA Around ==
  ASSUME NEW a \in Int, NEW b \in Int
  PROVE  ((a % Wrap) + b) % PIPESIZE = (a + b) % PIPESIZE
<1> DEFINE w == a % Wrap
<1>1. w \in Int /\ Wrap \in Nat \ {0} /\ PIPESIZE \in Nat \ {0} /\ Wrap % PIPESIZE = 0 BY Constants, ModDef
<1>2. w % PIPESIZE = a % PIPESIZE BY <1>1, ModMod
<1> HIDE DEF w
<1>3. ((w % PIPESIZE) + b) % PIPESIZE = (w + b) % PIPESIZE BY <1>1, ModPlus
<1>4. ((a % PIPESIZE) + b) % PIPESIZE = (a + b) % PIPESIZE BY <1>1, ModPlus
<1>5. (w + b) % PIPESIZE = (a + b) % PIPESIZE BY <1>2, <1>3, <1>4
<1> QED BY <1>5 DEF w

(* The first k bytes, and what is left of the n. *)
LEMMA PartFirst ==
  ASSUME NEW d \in Pages, NEW i \in Cells, NEW n \in 0 .. PIPESIZE, NEW k \in 0 .. n
  PROVE  Part(d, i, k) = SubSeq(Part(d, i, n), 1, k)
<1> DEFINE s == Part(d, i, n)
           t == Part(d, i, k)
           u == SubSeq(s, 1, k)
<1>1. n \in Nat /\ k \in Nat /\ k <= n BY Constants
<1>2. s \in Seq(Bytes) /\ Len(s) = n /\ \A j \in 1 .. n : s[j] = d[(i + j - 1) % PIPESIZE] BY <1>1, PartIs
<1>3. t \in Seq(Bytes) /\ Len(t) = k /\ \A j \in 1 .. k : t[j] = d[(i + j - 1) % PIPESIZE] BY <1>1, PartIs
<1> HIDE DEF s, t
<1>4. u \in Seq(Bytes) /\ Len(u) = k /\ \A j \in 1 .. k : u[j] = s[j] BY <1>1, <1>2
<1>5. \A j \in 1 .. k : j \in 1 .. n BY <1>1
<1> HIDE DEF u
<1>6. t = u BY <1>2, <1>3, <1>4, <1>5, SameSeq
<1> QED BY <1>6 DEF s, t, u

(* Dropping k bytes leaves the rest of the stretch. *)
LEMMA PartRest ==
  ASSUME NEW d \in Pages, NEW i \in Cells, NEW n \in 0 .. PIPESIZE, NEW k \in 0 .. n
  PROVE  Part(d, (i + k) % Wrap, n - k) = SubSeq(Part(d, i, n), k + 1, n)
<1> DEFINE s == Part(d, i, n)
           m == (i + k) % Wrap
           l == n - k
           t == Part(d, m, l)
           u == SubSeq(s, k + 1, n)
<1>1. n \in Nat /\ k \in Nat /\ k <= n /\ l \in Nat /\ i \in Int /\ k \in 0 .. PIPESIZE BY Constants DEF Cells
<1>2. m \in Cells BY <1>1, Position
<1>3. s \in Seq(Bytes) /\ Len(s) = n /\ \A j \in 1 .. n : s[j] = d[(i + j - 1) % PIPESIZE] BY <1>1, PartIs
<1>4. t \in Seq(Bytes) /\ Len(t) = l /\ \A j \in 1 .. l : t[j] = d[(m + j - 1) % PIPESIZE]
  <2> HIDE DEF m, l
  <2> QED BY <1>1, <1>2, PartIs
<1>5. ASSUME NEW j \in 1 .. l PROVE t[j] = s[k + j]
  <2>1. k + j \in 1 .. n /\ i + k \in Int /\ j - 1 \in Int BY <1>1
  <2>2. (m + (j - 1)) % PIPESIZE = ((i + k) + (j - 1)) % PIPESIZE BY <2>1, Around
  <2>3. m + (j - 1) = m + j - 1 /\ (i + k) + (j - 1) = i + (k + j) - 1 BY <1>1, <1>2 DEF Cells
  <2>4. s[k + j] = d[(i + (k + j) - 1) % PIPESIZE] BY <1>3, <2>1
  <2>5. t[j] = d[(m + j - 1) % PIPESIZE] BY <1>4
  <2> HIDE DEF s, t, m
  <2> QED BY <2>2, <2>3, <2>4, <2>5
<1> HIDE DEF s, t
<1>6. u \in Seq(Bytes) /\ Len(u) = l /\ \A j \in 1 .. l : u[j] = s[k + j] BY <1>1, <1>3
<1> HIDE DEF u, m, l
<1>7. t = u BY <1>4, <1>5, <1>6, SameSeq
<1> QED BY <1>7 DEF s, t, u, m, l

(* The bytes written come after those that are there, and overwrite none. *)
LEMMA PartFill ==
  ASSUME NEW d \in Pages, NEW i \in Cells, NEW c \in 0 .. PIPESIZE, NEW s \in Seq(Bytes),
         c + Len(s) <= PIPESIZE, NEW w \in Cells, w = (i + c) % Wrap, Fill(d, w, s) \in Pages
  PROVE  Part(Fill(d, w, s), i, c + Len(s)) = Part(d, i, c) \o s
<1> DEFINE f == Fill(d, w, s)
           k == Len(s)
           n == c + k
           t == Part(f, i, n)
           q == Part(d, i, c)
           u == q \o s
<1>1. k \in Nat /\ c \in Nat /\ n \in Nat /\ i \in Int /\ n <= PIPESIZE /\ PIPESIZE \in Nat \ {0}
  BY Constants DEF Cells
<1>2. f \in Pages OBVIOUS
<1>3. t \in Seq(Bytes) /\ Len(t) = n /\ \A j \in 1 .. n : t[j] = f[(i + j - 1) % PIPESIZE]
  <2> HIDE DEF f, n
  <2> QED BY <1>1, <1>2, PartIs
<1>4. q \in Seq(Bytes) /\ Len(q) = c /\ \A j \in 1 .. c : q[j] = d[(i + j - 1) % PIPESIZE] BY <1>1, PartIs
<1>5. \A m \in Int : (w + m - 1) % PIPESIZE = (i + c + m - 1) % PIPESIZE
  <2> SUFFICES ASSUME NEW m \in Int PROVE (w + m - 1) % PIPESIZE = (i + c + m - 1) % PIPESIZE OBVIOUS
  <2>1. (((i + c) % Wrap) + (m - 1)) % PIPESIZE = ((i + c) + (m - 1)) % PIPESIZE
    <3> DEFINE x == i + c
               y == m - 1
    <3>1. x \in Int /\ y \in Int BY <1>1
    <3> HIDE DEF x, y
    <3>2. ((x % Wrap) + y) % PIPESIZE = (x + y) % PIPESIZE BY <3>1, Around
    <3> QED BY <3>2 DEF x, y
  <2>2. w + m - 1 = w + (m - 1) /\ i + c + m - 1 = (i + c) + (m - 1) BY <1>1 DEF Cells
  <2> QED BY <2>1, <2>2
<1>6. ASSUME NEW j \in 1 .. n PROVE (i + j - 1) % PIPESIZE \in Index
  <2> DEFINE a == i + j - 1
  <2>1. a \in Int BY <1>1
  <2> HIDE DEF a
  <2>2. a % PIPESIZE \in Index BY <1>1, <2>1, ModDef DEF Index
  <2> QED BY <2>2 DEF a
<1>7. ASSUME NEW j \in 1 .. n, NEW m \in 1 .. k, (i + j - 1) % PIPESIZE = (w + m - 1) % PIPESIZE
      PROVE  j = c + m
  <2> DEFINE a == i + j - 1
             b == i + c + m - 1
  <2>1. a \in Int /\ b \in Int BY <1>1
  <2>2. a % PIPESIZE = b % PIPESIZE BY <1>5, <1>7, <1>1
  <2>3. (a <= b => b < a + PIPESIZE) /\ (b <= a => a < b + PIPESIZE) /\ (a <= b \/ b <= a) BY <1>1
  <2>4. a = b
    <3> HIDE DEF a, b
    <3> QED BY <2>1, <2>2, <2>3, <1>1, ModApart
  <2> QED BY <2>4, <1>1
<1>8. ASSUME NEW j \in 1 .. c PROVE t[j] = d[(i + j - 1) % PIPESIZE]
  <2>1. j \in 1 .. n BY <1>1
  <2>2. ~\E m \in 1 .. k : (w + m - 1) % PIPESIZE = (i + j - 1) % PIPESIZE
    <3> SUFFICES ASSUME NEW m \in 1 .. k, (w + m - 1) % PIPESIZE = (i + j - 1) % PIPESIZE PROVE FALSE OBVIOUS
    <3>1. j = c + m BY <2>1, <1>7
    <3> QED BY <3>1, <1>1
  <2>3. f[(i + j - 1) % PIPESIZE] = d[(i + j - 1) % PIPESIZE] BY <2>1, <2>2, <1>6 DEF Fill
  <2> QED BY <2>1, <2>3, <1>3
<1>9. ASSUME NEW m \in 1 .. k PROVE t[c + m] = s[m]
  <2>1. c + m \in 1 .. n /\ m \in Int BY <1>1
  <2> DEFINE x == (i + (c + m) - 1) % PIPESIZE
             P(h) == (w + h - 1) % PIPESIZE = x
             g == CHOOSE h \in 1 .. k : P(h)
  <2>2. P(m)
    <3>1. i + (c + m) - 1 = i + c + m - 1 BY <1>1, <2>1
    <3> QED BY <3>1, <1>5, <2>1
  <2>3. g \in 1 .. k /\ P(g) BY <2>2
  <2>4. x \in Index BY <2>1, <1>6
  <2>5. f[x] = s[g] BY <2>2, <2>4 DEF Fill
  <2>6. c + m = c + g
    <3> HIDE DEF g
    <3> QED BY <2>1, <2>3, <1>7
  <2>7. m = g
    <3> HIDE DEF g
    <3> QED BY <2>1, <2>3, <2>6, <1>1
  <2>8. t[c + m] = f[x] BY <2>1, <1>3
  <2> HIDE DEF g, x, f, t
  <2> QED BY <2>5, <2>7, <2>8
<1> HIDE DEF f, t, q
<1>10. u \in Seq(Bytes) /\ Len(u) = n BY <1>1, <1>4, SMTT(60)
<1>11. ASSUME NEW j \in 1 .. n PROVE t[j] = u[j]
  <2>1. CASE j \in 1 .. c
    <3>1. u[j] = q[j] BY <2>1, <1>1, <1>4
    <3> QED BY <3>1, <2>1, <1>4, <1>8
  <2>2. CASE j \notin 1 .. c
    <3>1. j - c \in 1 .. k /\ j = c + (j - c) BY <2>2, <1>1
    <3>2. u[j] = s[j - c] BY <2>2, <1>1, <1>4
    <3> QED BY <3>1, <3>2, <1>9
  <2> QED BY <2>1, <2>2
<1> HIDE DEF u, n
<1>12. t = u BY <1>3, <1>10, <1>11, SameSeq
<1> QED BY <1>12 DEF t, u, q, f, n, k

Queue == IF allocated THEN Oldest(Count) ELSE <<>>

(* The abstract queue is the stretch from nread to nwrite. *)
LEMMA QueueIs ==
  ASSUME PipeInv
  PROVE  /\ data \in Pages /\ nread \in Cells /\ Count \in 0 .. PIPESIZE
         /\ \A n : Oldest(n) = Part(data, nread, n)
         /\ Oldest(Count) \in Seq(Bytes) /\ Len(Oldest(Count)) = Count
         /\ Queue \in Seq(Bytes) /\ Len(Queue) \in Nat
<1>1. data \in Pages /\ nread \in Cells /\ nwrite \in Cells BY DEF PipeInv, LifeInv, PipeTypeOK, Pages
<1>2. Count \in 0 .. PIPESIZE /\ Count \in Nat
  BY <1>1, CountIs, Constants DEF PipeInv, SleepInv, Cells
<1>3. \A n : Oldest(n) = Part(data, nread, n) BY DEF Oldest, Part
<1>4. Part(data, nread, Count) \in Seq(Bytes) /\ Len(Part(data, nread, Count)) = Count BY <1>1, <1>2, PartIs
<1>5. Oldest(Count) \in Seq(Bytes) /\ Len(Oldest(Count)) = Count BY <1>3, <1>4
<1>6. Queue \in Seq(Bytes)
  <2>1. CASE allocated BY <2>1, <1>5 DEF Queue
  <2>2. CASE ~allocated BY <2>2 DEF Queue
  <2> QED BY <2>1, <2>2
<1>7. Len(Queue) \in Nat BY <1>6
<1> QED BY <1>1, <1>2, <1>3, <1>5, <1>6, <1>7

(* A step that touches neither the bytes nor what waits to be written. *)
LEMMA FifoIdle ==
  ASSUME PipeInv, Queue' = Queue, buf' = buf, got' = <<>>
  PROVE  Contents!FifoNext
<1> DEFINE z == Queue
<1>1. z \in Seq(Bytes) /\ Len(z) \in Nat BY QueueIs
<1>2. SubSeq(z, 1, 0) = <<>> /\ SubSeq(z, 0 + 1, Len(z)) = z
  <2> HIDE DEF z
  <2> QED BY <1>1
<1>3. 0 \in 0 .. Len(z)
  <2> HIDE DEF z
  <2> QED BY <1>1
<1>4. Contents!Take(0) BY <1>2 DEF Contents!Take, Queue
<1> QED BY <1>3, <1>4 DEF Contents!FifoNext, Queue

(* A step of pipewrite() appends to the queue what it takes from the       *)
(* message.                                                                *)
LEMMA FifoWrite ==
  ASSUME PipeInv, NEW p \in Procs, WriteDone(p) \/ WriteGivesUp(p) \/ WriteBlocks(p), got' = <<>>
  PROVE  Contents!FifoNext
<1>1. CopyIn(p) BY WriteCases
<1>2. "w" \in ofile[p] BY <1>1 DEF CopyIn, PipeInv, LifeInv, PlaceInv, PlaceOK
<1>3. allocated /\ allocated' BY <1>1, <1>2, HeldOpen DEF PipeInv, CopyIn
<1>4. PICK k \in 0 .. PIPESIZE : k = Fits(p) /\ k <= Room /\ k <= Len(buf[p]) BY <1>1, CopyFacts
<1>5. PICK c \in 0 .. PIPESIZE : c = Count /\ c + k <= PIPESIZE
  <2>1. Count \in 0 .. PIPESIZE BY QueueIs
  <2> QED BY <2>1, <1>4, Constants DEF Room
<1>6. PICK s \in Seq(Bytes) : s = SubSeq(buf[p], 1, k) /\ Len(s) = k
  <2> DEFINE t == SubSeq(buf[p], 1, k)
  <2>1. buf[p] \in Seq(Bytes) /\ Len(buf[p]) \in Nat BY <1>1, CopyFacts
  <2>2. k \in Nat /\ k <= Len(buf[p]) BY <1>4, Constants
  <2>3. t \in Seq(Bytes) BY <2>1, <2>2, SubSeqProperties
  <2>4. Len(t) = k BY <2>1, <2>2
  <2> HIDE DEF t
  <2>5. \E s \in Seq(Bytes) : s = t /\ Len(s) = k BY <2>3, <2>4
  <2> QED BY <2>5 DEF t
<1>7. PICK d \in Pages : d = data BY QueueIs
<1>8. PICK i \in Cells : i = nread BY QueueIs
<1>9. PICK w \in Cells : w = nwrite BY DEF PipeInv, LifeInv, PipeTypeOK
<1>10. w = (i + c) % Wrap
  <2>1. c = IF i <= w THEN w - i ELSE w - i + Wrap BY <1>5, <1>8, <1>9, CountIs
  <2>2. (i + c) % Wrap = IF i + c < Wrap THEN i + c ELSE i + c - Wrap BY Position
  <2> QED BY <2>1, <2>2, Constants DEF Cells
<1>11. data' = Fill(d, w, s) /\ Fill(d, w, s) \in Pages
  <2>1. data' = Filled(SubSeq(buf[p], 1, k)) /\ data' \in [Index -> Bytes] BY <1>1, <1>4, CopyFacts
  <2> QED BY <2>1, <1>6, <1>7, <1>9, ZenonT(60) DEF Filled, Fill, Pages
<1>12. Queue' = Part(Fill(d, w, s), i, c + k)
  <2>1. Count' = c + k BY <1>1, <1>4, <1>5, CopyFacts
  <2>2. nread' = i BY <1>1, <1>8 DEF CopyIn
  <2> QED BY <2>1, <2>2, <1>3, <1>11 DEF Queue, Oldest, Part
<1>13. Queue = Part(d, i, c) BY <1>3, <1>5, <1>7, <1>8, QueueIs DEF Queue
<1>14. Queue' = Queue \o SubSeq(buf[p], 1, k)
  <2>1. c + Len(s) <= PIPESIZE BY <1>5, <1>6
  <2>2. Fill(d, w, s) \in Pages BY <1>11
  <2>3. /\ d \in Pages /\ i \in Cells /\ c \in 0 .. PIPESIZE /\ s \in Seq(Bytes) /\ w \in Cells
        /\ w = (i + c) % Wrap
    BY <1>5, <1>6, <1>7, <1>8, <1>9, <1>10
  <2>4. Part(Fill(d, w, s), i, c + Len(s)) = Part(d, i, c) \o s BY <2>1, <2>2, <2>3, PartFill
  <2> QED BY <2>4, <1>6, <1>12, <1>13
<1>15. Len(Queue) + k <= PIPESIZE
  <2>1. Len(Queue) = c BY <1>3, <1>5, QueueIs DEF Queue
  <2> QED BY <2>1, <1>5
<1>16. \/ buf' = [buf EXCEPT ![p] = SubSeq(buf[p], k + 1, Len(buf[p]))]
       \/ buf' = [buf EXCEPT ![p] = <<>>]
  BY <1>4, WriteCases
<1>17. Contents!Enter(p, k) BY <1>14, <1>15, <1>16 DEF Contents!Enter, Queue
<1>18. k \in 0 .. Len(buf[p]) BY <1>1, <1>4, CopyFacts
<1> QED BY <1>17, <1>18 DEF Contents!FifoNext

(* piperead() takes from the front of the queue. *)
LEMMA FifoRead ==
  ASSUME PipeInv, NEW p \in Procs, NEW n \in 0 .. MaxN, ReadDone(p, n)
  PROVE  Contents!FifoNext
<1>1. "r" \in ofile[p] BY DEF ReadDone, PipeInv, LifeInv, PlaceInv, PlaceOK
<1>2. allocated /\ allocated' BY <1>1, HeldOpen DEF PipeInv, ReadDone
<1>3. PICK k \in 0 .. PIPESIZE :
        k <= Count /\ got' = Oldest(k) /\ nread' = (nread + k) % Wrap /\ Count' = Count - k
  BY ReadFacts
<1>4. PICK c \in 0 .. PIPESIZE : c = Count BY QueueIs
<1>5. PICK d \in Pages : d = data /\ d = data' BY QueueIs DEF ReadDone
<1>6. PICK i \in Cells : i = nread BY QueueIs
<1>7. k \in 0 .. c BY <1>3, <1>4, Constants
<1>8. Queue = Part(d, i, c) /\ Len(Queue) = c BY <1>2, <1>4, <1>5, <1>6, QueueIs DEF Queue
<1>9. got' = Part(d, i, k) BY <1>3, <1>5, <1>6, QueueIs
<1>10. Queue' = Part(d, (i + k) % Wrap, c - k) BY <1>2, <1>3, <1>4, <1>5, <1>6 DEF Queue, Oldest, Part
<1>11. got' = SubSeq(Queue, 1, k) BY <1>7, <1>8, <1>9, PartFirst
<1>12. Queue' = SubSeq(Queue, k + 1, Len(Queue)) BY <1>7, <1>8, <1>10, PartRest
<1>13. Contents!Take(k) BY <1>11, <1>12 DEF Contents!Take, Queue, ReadDone
<1>14. k \in 0 .. Len(Queue) BY <1>7, <1>8
<1> QED BY <1>13, <1>14 DEF Contents!FifoNext, Queue

(* Every step of the pipe is a step of Fifo, or changes none of it. *)
LEMMA FifoStep ==
  ASSUME PipeInv, [Next]_vars
  PROVE  [Contents!FifoNext]_(Contents!fifovars)
<1>1. CASE UNCHANGED vars BY <1>1 DEF vars, Contents!fifovars, Oldest, Count
<1>2. ASSUME NEW p \in Procs, NEW n \in 0 .. MaxN, ReadDone(p, n) PROVE Contents!FifoNext BY <1>2, FifoRead
<1>3. ASSUME NEW p \in Procs, Step(p) \/ Announce(p), got' = <<>> PROVE Contents!FifoNext
  <2>1. CASE WriteDone(p) \/ WriteGivesUp(p) \/ WriteBlocks(p) BY <1>3, <2>1, FifoWrite
  <2>2. CASE kfree(p)
    <3>1. Contents!Discard BY <1>3, <2>2 DEF Contents!Discard, kfree
    <3> QED BY <3>1 DEF Contents!FifoNext
  <2>3. CASE \E s \in Messages : sys_write(p, s)
    <3>1. PICK s \in Messages : sys_write(p, s) BY <2>3
    <3>2. buf[p] = <<>> BY <3>1 DEF sys_write, PipeInv, LifeInv, PlaceInv, PlaceOK
    <3>3. Queue' = Queue BY <3>1 DEF sys_write, Queue, Oldest, Count
    <3>4. Contents!Submit(p, s) BY <1>3, <3>1, <3>2, <3>3 DEF Contents!Submit, sys_write, Queue
    <3>5. s \in Contents!Messages BY DEF Messages, Contents!Messages
    <3> QED BY <3>4, <3>5 DEF Contents!FifoNext
  <2>4. CASE pipealloc(p)
    <3>1. nread' = 0 /\ nwrite' = 0 /\ 0 \in Cells BY <2>4, Constants DEF pipealloc, Cells
    <3>2. (0 - 0) % Wrap = 0 BY <3>1, Distance
    <3>3. Count' = 0 BY <3>1, <3>2 DEF Count
    <3>4. Queue' = <<>>
      <4>1. Queue' = Oldest(Count)' BY <2>4 DEF Queue, pipealloc
      <4>2. Oldest(Count)' = [j \in 1 .. 0 |-> data'[(nread' + j - 1) % PIPESIZE]] BY <3>3 DEF Oldest
      <4> QED BY <4>1, <4>2
    <3>5. Queue = <<>> BY <2>4 DEF Queue, pipealloc
    <3> QED BY <1>3, <2>4, <3>4, <3>5, FifoIdle DEF pipealloc
  <2>5. ASSUME UNCHANGED <<allocated, data, nread, nwrite, buf>> PROVE Contents!FifoNext
    <3>1. Queue' = Queue BY <2>5 DEF Queue, Oldest, Count
    <3> QED BY <1>3, <2>5, <3>1, FifoIdle
  <2>6. CASE FdAlloc(p) \/ FdAllocFails(p) \/ sys_read(p) \/ ReadBlocks(p) \/ Sleep(p)
    BY <2>5, <2>6 DEF FdAlloc, FdAllocFails, sys_read, ReadBlocks, Sleep
  <2>7. CASE exit(p) \/ kill(p) \/ CloseDone(p) \/ \E e \in Ends : sys_close(p, e)
    BY <2>5, <2>7 DEF exit, kill, CloseDone, sys_close
  <2>8. CASE fileclose(p) \/ pipeclose(p) \/ \E q \in Procs : fork(p, q)
    BY <2>5, <2>8 DEF fileclose, pipeclose, fork
  <2> QED BY <1>3, <2>1, <2>2, <2>3, <2>4, <2>6, <2>7, <2>8 DEF Step, Announce
<1> QED BY <1>1, <1>2, <1>3 DEF Next

(* The ring and its wrapping counters implement a bounded FIFO, for any    *)
(* size of the pipe, any multiple of it at which the counters wrap, and    *)
(* any number of readers and writers: FifoRefinement.                      *)
THEOREM FifoRefinementHolds == Spec => FifoRefinement
<1>1. Init => Contents!FifoInit BY DEF Init, Contents!FifoInit
<1>2. PipeInv /\ [Next]_vars => [Contents!FifoNext]_(Contents!fifovars) BY FifoStep
<1> QED BY <1>1, <1>2, PipeInvHolds, PTL DEF Spec, FifoRefinement, Contents!FifoSpec

=============================================================================
