--------------------------- MODULE ConsoleProofs ----------------------------
(***************************************************************************)
(* The console's spinlock, input ring and refinement of Terminal, for any  *)
(* number of CPUs and any size of the ring.                                *)
(***************************************************************************)
EXTENDS Console, Modulo, WellFoundedInduction, SequenceTheorems

Locs  == {"idle", "acquire", "spin", "take", "inside", "release", "open", "popcli", "asleep", "iret"}
Owns  == {"take", "inside", "release", "open"}       \* has the lock
NoInt == Owns \cup {"spin", "popcli"}                \* between pushcli() and popcli()
Jobs  == [kind : {"none", "read", "write", "intr", "dump"}, n : Nat, got : Nat]
Index == 0 .. Wrap - 1

ConsoleTypeOK ==
    /\ buf \in [0 .. INPUT_BUF - 1 -> Stored] /\ r \in Index /\ w \in Index /\ e \in Index
    /\ locked \in BOOLEAN /\ owner \in CPUs \cup {NoCpu}
    /\ iflag \in [CPUs -> BOOLEAN] /\ ncli \in [CPUs -> Nat] /\ intena \in [CPUs -> BOOLEAN]
    /\ pc \in [Contexts -> Locs] /\ job \in [Contexts -> Jobs]
    /\ sleeping \subseteq CPUs /\ killed \subseteq CPUs /\ panic \in BOOLEAN

(* Processes read and write; the handler never sleeps. *)
JobInv ==
    /\ job[Handler].kind \in {"none", "intr", "dump"} /\ pc[Handler] # "asleep"
    /\ \A p \in CPUs : job[p].kind \in {"none", "read", "write"} /\ pc[p] # "iret"

(* The lock is taken by one context, and recorded as its CPU's while it is *)
(* inside.                                                                 *)
LockInv ==
    /\ \A x, y \in Contexts : pc[x] \in Owns /\ pc[y] \in Owns => x = y
    /\ locked <=> \E x \in Contexts : pc[x] \in Owns
    /\ \A x \in Contexts : Inside(x) => owner = CpuOf(x)
    /\ \A c \in CPUs : owner = c => \E x \in Contexts : Inside(x) /\ CpuOf(x) = c

(* What pushcli() and popcli() have left of the interrupt flag: a process  *)
(* found interrupts on, the handler found them off.                        *)
CpuInv ==
    /\ ~panic
    /\ pc[Handler] # "idle" => pc[1] \in {"idle", "acquire", "asleep"}
    /\ \A c \in CPUs : (c = 1 => pc[Handler] = "idle") =>
         IF pc[c] \in NoInt THEN ncli[c] = 1 /\ ~iflag[c] /\ intena[c] ELSE ncli[c] = 0 /\ iflag[c]
    /\ pc[Handler] # "idle" =>
         /\ ~iflag[1]
         /\ IF pc[Handler] \in NoInt THEN ncli[1] = 1 /\ ~intena[1] ELSE ncli[1] = 0

LockPart == ConsoleTypeOK /\ JobInv /\ LockInv /\ CpuInv

USE DEF input, lock, cpu, Goto, Runs, Holding, Handler, NoCpu, Leave

(* What the assumption on the constants gives: the ring divides the range  *)
(* of its indices, and context 0 is no CPU.                                *)
LEMMA Constants ==
  /\ NCPU \in Nat \ {0} /\ INPUT_BUF \in Nat \ {0} /\ Wrap \in Nat \ {0} /\ INPUT_BUF < Wrap /\ Wrap % INPUT_BUF = 0
  /\ ReadLengths \subseteq Nat /\ WriteLengths \subseteq Nat
  /\ 1 \in CPUs /\ 0 \notin CPUs /\ CPUs \subseteq Nat
BY ConsoleAssumption DEF CPUs

(* The distance of two indices. *)
LEMMA Distance ==
  ASSUME NEW i \in Index, NEW j \in Index
  PROVE  Plus(i, -j) = (IF j <= i THEN i - j ELSE i - j + Wrap) /\ Plus(i, -j) \in Index
<1> DEFINE a == i + (-j)
<1>1. a \in -Wrap .. 2 * Wrap - 1 /\ Wrap \in Nat \ {0} BY Constants DEF Index
<1>2. a % Wrap = IF a < 0 THEN a + Wrap ELSE IF a < Wrap THEN a ELSE a - Wrap
  <2> HIDE DEF a
  <2> QED BY <1>1, ModNear, Zenon
<1> QED BY <1>2, Constants DEF Plus, Index

(* One step, or a distance of at most one ring, forward or backward. *)
LEMMA Advance ==
  ASSUME NEW i \in Index, NEW j \in -Wrap .. Wrap
  PROVE  /\ Plus(i, j) \in Index
         /\ Plus(i, j) = IF i + j < 0 THEN i + j + Wrap ELSE IF i + j < Wrap THEN i + j ELSE i + j - Wrap
<1> DEFINE a == i + j
<1>1. a \in -Wrap .. 2 * Wrap /\ Wrap \in Nat \ {0} BY Constants DEF Index
<1>2. a \in -Wrap .. 2 * Wrap - 1 BY Constants DEF Index
<1>3. a % Wrap = IF a < 0 THEN a + Wrap ELSE IF a < Wrap THEN a ELSE a - Wrap
  <2> HIDE DEF a
  <2> QED BY <1>1, <1>2, ModNear, Zenon
<1> QED BY <1>2, <1>3, Constants DEF Plus, Index

(* The jobs the actions assign. *)
LEMMA JobFields ==
  /\ NoJob \in Jobs /\ NoJob.kind = "none" /\ NoJob.got = 0
  /\ \A k \in {"intr", "dump"} : [NoJob EXCEPT !.kind = k] \in Jobs /\ [NoJob EXCEPT !.kind = k].kind = k
  /\ \A j \in Jobs :
       /\ [j EXCEPT !.n = 0] \in Jobs /\ [j EXCEPT !.n = 0].kind = j.kind /\ [j EXCEPT !.n = 0].got = j.got
       /\ LET i == [j EXCEPT !.n = 0, !.got = @ + 1] IN i \in Jobs /\ i.kind = j.kind /\ i.got = j.got + 1
       /\ LET i == [j EXCEPT !.n = @ - 1, !.got = @ + 1] IN
          j.n > 0 => i \in Jobs /\ i.kind = j.kind /\ i.got = j.got + 1
       /\ LET i == [j EXCEPT !.n = @ - 1] IN j.n > 0 => i \in Jobs /\ i.kind = j.kind /\ i.got = j.got
<1>1. NoJob \in Jobs /\ NoJob.kind = "none" /\ NoJob.got = 0 BY DEF NoJob, Jobs
<1>2. ASSUME NEW k \in {"intr", "dump"}
      PROVE  [NoJob EXCEPT !.kind = k] \in Jobs /\ [NoJob EXCEPT !.kind = k].kind = k
  BY DEF NoJob, Jobs
<1>3. ASSUME NEW j \in Jobs
      PROVE  [j EXCEPT !.n = 0] \in Jobs /\ [j EXCEPT !.n = 0].kind = j.kind /\ [j EXCEPT !.n = 0].got = j.got
  BY DEF Jobs
<1>4. ASSUME NEW j \in Jobs, NEW i, i = [j EXCEPT !.n = 0, !.got = @ + 1]
      PROVE  i \in Jobs /\ i.kind = j.kind /\ i.got = j.got + 1
  <2> DEFINE h == [j EXCEPT !.n = 0]
  <2>1. h \in Jobs /\ h.kind = j.kind /\ h.got = j.got BY <1>3
  <2>2. i = [h EXCEPT !.got = @ + 1] BY <1>4 DEF Jobs
  <2> HIDE DEF h
  <2> QED BY <2>1, <2>2 DEF Jobs
<1>5. ASSUME NEW j \in Jobs, NEW i, j.n > 0, i = [j EXCEPT !.n = @ - 1, !.got = @ + 1]
      PROVE  i \in Jobs /\ i.kind = j.kind /\ i.got = j.got + 1
  <2> DEFINE h == [j EXCEPT !.n = @ - 1]
  <2>1. h \in Jobs /\ h.kind = j.kind /\ h.got = j.got BY <1>5 DEF Jobs
  <2>2. i = [h EXCEPT !.got = @ + 1] BY <1>5 DEF Jobs
  <2> HIDE DEF h
  <2> QED BY <2>1, <2>2 DEF Jobs
<1>6. ASSUME NEW j \in Jobs, NEW i, j.n > 0, i = [j EXCEPT !.n = @ - 1]
      PROVE  i \in Jobs /\ i.kind = j.kind /\ i.got = j.got
  BY <1>6 DEF Jobs
<1> QED BY <1>1, <1>2, <1>3, <1>4, <1>5, <1>6

(* Noting ^P changes only the count of the handler's job. *)
LEMMA JobN ==
  ASSUME NEW j \in Jobs
  PROVE  [j EXCEPT !.n = 1] \in Jobs /\ [j EXCEPT !.n = 1].kind = j.kind /\ [j EXCEPT !.n = 1].got = j.got
BY DEF Jobs

(* The lock is free and interrupts are enabled at the start. *)
LEMMA InitLock == Init => LockPart
<1> SUFFICES ASSUME Init PROVE LockPart OBVIOUS
<1> USE Constants DEF Init, NoJob, Contexts
<1>1. ConsoleTypeOK
  <2>1. buf \in [0 .. INPUT_BUF - 1 -> Stored] /\ r \in Index /\ w \in Index /\ e \in Index BY DEF Stored, Index
  <2>2. locked \in BOOLEAN /\ owner \in CPUs \cup {NoCpu} OBVIOUS
  <2>3. iflag \in [CPUs -> BOOLEAN] /\ ncli \in [CPUs -> Nat] /\ intena \in [CPUs -> BOOLEAN] OBVIOUS
  <2>4. pc \in [Contexts -> Locs] BY DEF Locs
  <2>5. job \in [Contexts -> Jobs] BY DEF Jobs
  <2> QED BY <2>1, <2>2, <2>3, <2>4, <2>5 DEF ConsoleTypeOK
<1>2. JobInv BY DEF JobInv
<1>3. LockInv BY DEF LockInv, Owns, Inside
<1>4. CpuInv BY DEF CpuInv, NoInt, Owns
<1> QED BY <1>1, <1>2, <1>3, <1>4 DEF LockPart

(* pushcli() disables interrupts before acquire() looks at the lock. *)
LEMMA PushcliLock ==
  ASSUME LockPart, NEW x \in Contexts, pushcli(x)
  PROVE  LockPart'
<1> USE Constants DEF LockPart, pushcli, Contexts, CpuOf, Pushed
<1>0. CpuOf(x) \in CPUs OBVIOUS
<1>1. ConsoleTypeOK'
  <2> USE <1>0 DEF ConsoleTypeOK
  <2>1. pc' \in [Contexts -> Locs] BY DEF Locs
  <2>2. ncli' \in [CPUs -> Nat] OBVIOUS
  <2>3. iflag' \in [CPUs -> BOOLEAN] /\ intena' \in [CPUs -> BOOLEAN] OBVIOUS
  <2> QED BY <2>1, <2>2, <2>3
<1>2. JobInv' BY DEF JobInv, ConsoleTypeOK
<1>3. LockInv' BY DEF LockInv, ConsoleTypeOK, Owns, Inside
<1>4. CpuInv'
  <2> USE DEF ConsoleTypeOK, NoInt, Owns
  <2>1. ~panic' BY DEF CpuInv, LockInv, Inside
  <2>2. pc'[Handler] # "idle" => pc'[1] \in {"idle", "acquire", "asleep"} BY DEF CpuInv
  <2>3. (\A c \in CPUs : (c = 1 => pc[Handler] = "idle") =>
         IF pc[c] \in NoInt THEN ncli[c] = 1 /\ ~iflag[c] /\ intena[c] ELSE ncli[c] = 0 /\ iflag[c])'
         BY DEF CpuInv
  <2>4. pc'[Handler] # "idle" =>
         /\ ~iflag'[1]
         /\ IF pc'[Handler] \in NoInt THEN ncli'[1] = 1 /\ ~intena'[1] ELSE ncli'[1] = 0 BY DEF CpuInv
  <2> QED BY <2>1, <2>2, <2>3, <2>4 DEF CpuInv
<1> QED BY <1>1, <1>2, <1>3, <1>4 DEF LockPart

(* xchg takes the lock only when it is free. *)
LEMMA XchgLock ==
  ASSUME LockPart, NEW x \in Contexts, xchg(x)
  PROVE  LockPart'
<1> USE Constants DEF LockPart, ConsoleTypeOK, Contexts, CpuOf, xchg
<1>1. ConsoleTypeOK' BY DEF Locs
<1>2. JobInv' BY DEF JobInv
<1>3. LockInv' BY DEF LockInv, Owns, Inside
<1>4. CpuInv' BY DEF CpuInv, NoInt, Owns
<1> QED BY <1>1, <1>2, <1>3, <1>4 DEF LockPart

(* acquire() records its CPU after it has the lock. *)
LEMMA SetOwnerLock ==
  ASSUME LockPart, NEW x \in Contexts, SetOwner(x)
  PROVE  LockPart'
<1> USE Constants DEF LockPart, ConsoleTypeOK, Contexts, CpuOf, SetOwner
<1>1. ConsoleTypeOK' BY DEF Locs
<1>2. JobInv' BY DEF JobInv
<1>3. LockInv' BY DEF LockInv, Owns, Inside
<1>4. CpuInv' BY DEF CpuInv, NoInt, Owns
<1> QED BY <1>1, <1>2, <1>3, <1>4 DEF LockPart

(* release() forgets the owner while it still has the lock. *)
LEMMA ClearOwnerLock ==
  ASSUME LockPart, NEW x \in Contexts, ClearOwner(x)
  PROVE  LockPart'
<1> USE Constants DEF LockPart, ConsoleTypeOK, Contexts, CpuOf, ClearOwner
<1>1. ConsoleTypeOK' BY DEF Locs
<1>2. JobInv' BY DEF JobInv
<1>3. LockInv' BY DEF LockInv, Owns, Inside
<1>4. CpuInv' BY DEF CpuInv, NoInt, Owns, LockInv, Inside
<1> QED BY <1>1, <1>2, <1>3, <1>4 DEF LockPart

(* release() frees a lock that has no owner. *)
LEMMA UnlockLock ==
  ASSUME LockPart, NEW x \in Contexts, Unlock(x)
  PROVE  LockPart'
<1> USE Constants DEF LockPart, ConsoleTypeOK, Contexts, CpuOf, Unlock
<1>1. ConsoleTypeOK' BY DEF Locs
<1>2. JobInv' BY DEF JobInv
<1>3. LockInv' BY DEF LockInv, Owns, Inside
<1>4. CpuInv' BY DEF CpuInv, NoInt, Owns
<1> QED BY <1>1, <1>2, <1>3, <1>4 DEF LockPart

(* Where popcli() leads. *)
LEMMA PopcliCases ==
  ASSUME NEW x, popcli(x)
  PROVE  \/ job[x].kind = "read" /\ pc' = [pc EXCEPT ![x] = "asleep"] /\ job' = job
         \/ /\ job[x].kind = "intr" /\ pc' = [pc EXCEPT ![x] = "acquire"]
            /\ job' = [job EXCEPT ![x] = [NoJob EXCEPT !.kind = "dump"]]
         \/ x = Handler /\ pc' = [pc EXCEPT ![x] = "iret"] /\ job' = [job EXCEPT ![x] = NoJob]
         \/ x # Handler /\ pc' = [pc EXCEPT ![x] = "idle"] /\ job' = [job EXCEPT ![x] = NoJob]
<1> HIDE DEF NoJob
<1> DEFINE A == job[x].kind = "read" /\ job[x].n > 0
           B == job[x].kind = "intr" /\ job[x].n > 0
           PA == Goto(x, "asleep") /\ UNCHANGED job
           PB == Goto(x, "acquire") /\ job' = [job EXCEPT ![x] = [NoJob EXCEPT !.kind = "dump"]]
           PC == Goto(x, "iret") /\ job' = [job EXCEPT ![x] = NoJob]
           PD == Goto(x, "idle") /\ job' = [job EXCEPT ![x] = NoJob]
<1>1. (CASE A -> PA [] B -> PB [] x = Handler -> PC [] OTHER -> PD)
  BY DEF popcli
<1>2. A => ~B OBVIOUS
<1>3. A => job[x].kind = "read" OBVIOUS
<1>4. B => job[x].kind = "intr" OBVIOUS
<1> HIDE DEF A, B, PA, PB, PC, PD
<1>5. (A /\ PA) \/ (B /\ PB) \/ (x = Handler /\ PC) \/ (x # Handler /\ PD) BY <1>1, <1>2
<1> QED BY <1>3, <1>4, <1>5 DEF PA, PB, PC, PD

(* popcli() enables interrupts only after the lock is free. *)
LEMMA PopcliLock ==
  ASSUME LockPart, NEW x \in Contexts, popcli(x)
  PROVE  LockPart'
<1> USE Constants DEF LockPart, ConsoleTypeOK, Contexts, CpuOf
<1> DEFINE c == CpuOf(x)
<1> DEFINE To(l) ==
        /\ pc' = [pc EXCEPT ![x] = l]
        /\ l \in {"asleep", "idle"} => x \in CPUs
        /\ l \in {"acquire", "iret"} => x = Handler
        /\ \E j \in Jobs :
             /\ job' = [job EXCEPT ![x] = j]
             /\ j.kind = job[x].kind \/ j.kind = "none" \/ (x = Handler /\ j.kind = "dump")
<1>1. \E l \in {"asleep", "acquire", "iret", "idle"} : To(l)
  <2> USE DEF JobInv
  <2>1. CASE job[x].kind = "read" /\ pc' = [pc EXCEPT ![x] = "asleep"] /\ job' = job
    <3>1. job' = [job EXCEPT ![x] = job[x]] /\ job[x] \in Jobs BY <2>1
    <3> QED BY <2>1, <3>1
  <2>2. CASE /\ job[x].kind = "intr" /\ pc' = [pc EXCEPT ![x] = "acquire"]
             /\ job' = [job EXCEPT ![x] = [NoJob EXCEPT !.kind = "dump"]]
    <3> DEFINE j == [NoJob EXCEPT !.kind = "dump"]
    <3>1. job' = [job EXCEPT ![x] = j] /\ pc' = [pc EXCEPT ![x] = "acquire"] BY <2>2
    <3>2. j \in Jobs /\ j.kind = "dump" BY JobFields
    <3>3. x = Handler BY <2>2
    <3> HIDE DEF j
    <3> QED BY <3>1, <3>2, <3>3
  <2>3. CASE x = Handler /\ pc' = [pc EXCEPT ![x] = "iret"] /\ job' = [job EXCEPT ![x] = NoJob]
    <3>1. NoJob \in Jobs /\ NoJob.kind = "none" BY JobFields
    <3>2. To("iret") BY <2>3, <3>1
    <3> QED BY <3>2
  <2>4. CASE x # Handler /\ pc' = [pc EXCEPT ![x] = "idle"] /\ job' = [job EXCEPT ![x] = NoJob]
    <3>1. NoJob \in Jobs /\ NoJob.kind = "none" BY JobFields
    <3>2. To("idle") BY <2>4, <3>1
    <3> QED BY <3>2
  <2> QED BY <2>1, <2>2, <2>3, <2>4, PopcliCases
<1>2. PICK l \in {"asleep", "acquire", "iret", "idle"} : To(l)
  BY <1>1
<1>3. /\ pc[x] = "popcli" /\ (x = 1 => pc[Handler] = "idle")
      /\ ncli' = [ncli EXCEPT ![c] = @ - 1]
      /\ panic' = (iflag[c] \/ ncli[c] = 0)
      /\ iflag' = [iflag EXCEPT ![c] = ncli[c] = 1 /\ intena[c]]
      /\ UNCHANGED <<buf, r, w, e, locked, owner, intena, sleeping, killed>>
  BY DEF popcli
<1>4. ~iflag[c] /\ ncli[c] = 1 /\ (intena[c] <=> x # Handler)
  BY <1>3 DEF CpuInv, NoInt
<1>5. ConsoleTypeOK'
  <2>1. job' \in [Contexts -> Jobs] BY <1>2
  <2>2. pc' \in [Contexts -> Locs] BY <1>2 DEF Locs
  <2>3. ncli' \in [CPUs -> Nat] BY <1>3, <1>4
  <2> QED BY <2>1, <2>2, <2>3, <1>3
<1>6. JobInv'
  <2>1. PICK j \in Jobs :
             /\ job' = [job EXCEPT ![x] = j]
             /\ j.kind = job[x].kind \/ j.kind = "none" \/ (x = Handler /\ j.kind = "dump")
    BY <1>2
  <2> QED BY <1>2, <2>1 DEF JobInv
<1>7. LockInv' BY <1>2, <1>3 DEF LockInv, Owns, Inside
<1>8. CpuInv' BY <1>2, <1>3, <1>4 DEF CpuInv, NoInt, Owns
<1> QED BY <1>5, <1>6, <1>7, <1>8

(* The handler starts on a CPU whose process is outside the lock. *)
LEMMA InterruptLock ==
  ASSUME LockPart, Interrupt
  PROVE  LockPart'
<1> USE Constants DEF LockPart, ConsoleTypeOK, Contexts, Interrupt
<1>1. ConsoleTypeOK' BY DEF Locs, Jobs, NoJob
<1>2. JobInv' BY DEF JobInv, NoJob
<1>3. LockInv' BY DEF LockInv, Owns, Inside
<1>4. pc[1] \notin NoInt /\ pc[1] \in {"idle", "acquire", "asleep"} /\ ncli[1] = 0
  BY DEF CpuInv, JobInv, NoInt, Owns, Locs
<1>5. CpuInv' BY <1>4 DEF CpuInv, NoInt, Owns
<1> QED BY <1>1, <1>2, <1>3, <1>5

(* iret finds the lock given up by the handler. *)
LEMMA IretLock ==
  ASSUME LockPart, iret
  PROVE  LockPart'
<1> USE Constants DEF LockPart, ConsoleTypeOK, Contexts, CpuOf, iret
<1>1. ConsoleTypeOK' BY DEF Locs
<1>2. JobInv' BY DEF JobInv
<1>3. LockInv' BY DEF LockInv, Owns, Inside
<1>4. CpuInv' BY DEF CpuInv, NoInt, Owns
<1> QED BY <1>1, <1>2, <1>3, <1>4 DEF LockPart

(* A process enters consoleread() or consolewrite() without the lock. *)
LEMMA CallLock ==
  ASSUME LockPart, NEW p \in CPUs, NEW kind \in {"read", "write"}, NEW n \in Nat, Call(p, kind, n)
  PROVE  LockPart'
<1> USE Constants DEF LockPart, ConsoleTypeOK, Contexts, CpuOf, Call
<1>1. ConsoleTypeOK' BY DEF Locs, Jobs
<1>2. JobInv' BY DEF JobInv, NoJob
<1>3. LockInv' BY DEF LockInv, Owns, Inside
<1>4. CpuInv' BY DEF CpuInv, NoInt, Owns
<1> QED BY <1>1, <1>2, <1>3, <1>4 DEF LockPart

(* consoleintr(), cprintf(), consoleread() or consolewrite() comes to its  *)
(* release().                                                              *)
LEMMA LeavesLock ==
  ASSUME LockPart, EndOfKeys \/ Dump \/ \E p \in CPUs : ReadWaits(p) \/ CallDone(p) \/ ReadChar(p)
  PROVE  LockPart'
<1> USE Constants DEF LockPart, ConsoleTypeOK, Contexts
<1> DEFINE Left(x) ==
        /\ Runs(x, "inside")
        /\ \E l \in {"inside", "release"} : pc' = [pc EXCEPT ![x] = l]
        /\ \E j \in Jobs : job' = [job EXCEPT ![x] = j] /\ j.kind = job[x].kind
        /\ sleeping' \subseteq CPUs /\ killed' \subseteq CPUs /\ r' \in Index
        /\ UNCHANGED <<buf, w, e, lock, cpu, panic>>
<1>1. \E x \in Contexts : Left(x)
  <2>1. CASE EndOfKeys \/ Dump
    <3>1. Runs(Handler, "inside") /\ pc' = [pc EXCEPT ![Handler] = "release"]
      BY <2>1 DEF EndOfKeys, Dump, InLoop
    <3>2. job' = [job EXCEPT ![Handler] = job[Handler]] /\ job[Handler] \in Jobs
      <4>1. job' = job \/ job' = [job EXCEPT ![Handler] = job[Handler]] BY <2>1 DEF EndOfKeys, Dump
      <4> QED BY <4>1
    <3> QED BY <2>1, <3>1, <3>2 DEF EndOfKeys, Dump
  <2>2. ASSUME NEW p \in CPUs, CallDone(p) PROVE Left(p)
    <3>1. job' = [job EXCEPT ![p] = job[p]] /\ job[p] \in Jobs BY <2>2 DEF CallDone
    <3> QED BY <2>2, <3>1 DEF CallDone
  <2>3. ASSUME NEW p \in CPUs, ReadWaits(p) PROVE Left(p)
    <3>1. \E j \in Jobs : job' = [job EXCEPT ![p] = j] /\ j.kind = job[p].kind
      <4>1. job' \in {[job EXCEPT ![p] = [job[p] EXCEPT !.n = 0]], [job EXCEPT ![p] = job[p]]}
        BY <2>3 DEF ReadWaits
      <4>2. job[p] \in Jobs OBVIOUS
      <4>3. [job[p] EXCEPT !.n = 0] \in Jobs /\ [job[p] EXCEPT !.n = 0].kind = job[p].kind BY <4>2 DEF Jobs
      <4> QED BY <4>1, <4>2, <4>3
    <3>2. pc' = [pc EXCEPT ![p] = "release"] /\ sleeping' \subseteq CPUs /\ killed' \subseteq CPUs BY <2>3 DEF ReadWaits
    <3> QED BY <2>3, <3>1, <3>2 DEF ReadWaits, Does
  <2>4. ASSUME NEW p \in CPUs, ReadChar(p) PROVE Left(p)
    <3>1. \E j \in Jobs : job' = [job EXCEPT ![p] = j] /\ j.kind = job[p].kind
      <4>1. job' \in {[job EXCEPT ![p] = [job[p] EXCEPT !.n = 0]],
                      [job EXCEPT ![p] = [job[p] EXCEPT !.n = 0, !.got = @ + 1]],
                      [job EXCEPT ![p].n = @ - 1, ![p].got = @ + 1]}
        BY <2>4 DEF ReadChar
      <4>2. [job EXCEPT ![p].n = @ - 1, ![p].got = @ + 1] = [job EXCEPT ![p] = [job[p] EXCEPT !.n = @ - 1, !.got = @ + 1]]
        BY DEF Jobs
      <4>3. job[p] \in Jobs /\ job[p].n > 0 BY <2>4 DEF ReadChar
      <4> DEFINE j1 == [job[p] EXCEPT !.n = 0]
                 j2 == [job[p] EXCEPT !.n = 0, !.got = @ + 1]
                 j3 == [job[p] EXCEPT !.n = @ - 1, !.got = @ + 1]
      <4>4. /\ j1 \in Jobs /\ j1.kind = job[p].kind
            /\ j2 \in Jobs /\ j2.kind = job[p].kind
            /\ j3 \in Jobs /\ j3.kind = job[p].kind
        BY <4>3, JobFields, Zenon
      <4>5. job' \in {[job EXCEPT ![p] = j1], [job EXCEPT ![p] = j2], [job EXCEPT ![p] = j3]} BY <4>1, <4>2
      <4> HIDE DEF j1, j2, j3
      <4> QED BY <4>4, <4>5
    <3>2. r' \in Index
      <4>1. Plus(r, 1) \in Index BY Advance
      <4> QED BY <2>4, <4>1 DEF ReadChar
    <3>3. \E l \in {"inside", "release"} : pc' = [pc EXCEPT ![p] = l]
      <4>1. pc' = pc \/ pc' = [pc EXCEPT ![p] = "release"] BY <2>4 DEF ReadChar
      <4>2. [pc EXCEPT ![p] = "inside"] = pc BY <2>4 DEF ReadChar, Does
      <4> QED BY <4>1, <4>2
    <3> QED BY <2>4, <3>1, <3>2, <3>3 DEF ReadChar, Does
  <2> QED BY <2>1, <2>2, <2>3, <2>4
<1>2. PICK x \in Contexts : Left(x) BY <1>1
<1>3. ConsoleTypeOK' BY <1>2 DEF Locs
<1>4. JobInv' BY <1>2 DEF JobInv
<1>5. LockInv' BY <1>2 DEF LockInv, Owns, Inside
<1>6. CpuInv' BY <1>2 DEF CpuInv, NoInt, Owns
<1> QED BY <1>3, <1>4, <1>5, <1>6

(* sleep() returns without the lock, to acquire it again. *)
LEMMA WakesLock ==
  ASSUME LockPart, NEW p \in CPUs, Wakes(p)
  PROVE  LockPart'
<1> USE Constants DEF LockPart, ConsoleTypeOK, Contexts, CpuOf, Wakes
<1>1. ConsoleTypeOK' BY DEF Locs
<1>2. JobInv' BY DEF JobInv
<1>3. LockInv' BY DEF LockInv, Owns, Inside
<1>4. CpuInv' BY DEF CpuInv, NoInt, Owns
<1> QED BY <1>1, <1>2, <1>3, <1>4 DEF LockPart

-----------------------------------------------------------------------------
(* How far ^U erases. *)
Stops(k) == Plus(e, -k) = w \/ buf[Plus(e, -k - 1) % INPUT_BUF] = NL
Erased   == CHOOSE i \in 0 .. Wrap - 1 : Stops(i) /\ \A j \in 0 .. i - 1 : ~Stops(j)

(* A set of naturals has a least element. *)
LEMMA LeastNat ==
  ASSUME NEW S, S \subseteq Nat, S # {}
  PROVE  \E x \in S : \A y \in S : x <= y
<1> DEFINE R == OpToRel(<, Nat)
<1>1. IsWellFoundedOn(R, Nat)
  BY NatLessThanWellFounded
<1>2. \E x \in S : \A y \in S : <<y, x>> \notin R
  <2> HIDE DEF R
  <2> QED BY <1>1, WFMin
<1>3. \E x \in S : \A y \in S : ~(y < x)
  BY <1>2 DEF OpToRel
<1> QED BY <1>3

(* ^U stops at the start of the line being edited at the latest. *)
LEMMA ErasedIs ==
  ASSUME ConsoleTypeOK
  PROVE  /\ Erased \in 0 .. Plus(e, -w) /\ Stops(Erased)
         /\ \A j \in 0 .. Erased - 1 : ~Stops(j)
<1> DEFINE S == {i \in 0 .. Wrap - 1 : Stops(i)}
           d == Plus(e, -w)
<1>0. e \in Index /\ w \in Index BY DEF ConsoleTypeOK
<1>1. d = IF w <= e THEN e - w ELSE e - w + Wrap BY <1>0, Distance
<1>2. d \in 0 .. Wrap - 1 /\ Plus(e, -d) = w
  <2>1. d \in 0 .. Wrap - 1 BY <1>0, <1>1, Constants DEF Index
  <2> HIDE DEF d
  <2>2. -d \in -Wrap .. Wrap BY <2>1, Constants
  <2>3. Plus(e, -d) = IF e + (-d) < 0 THEN e + (-d) + Wrap ELSE IF e + (-d) < Wrap THEN e + (-d) ELSE e + (-d) - Wrap
    BY <2>2, <1>0, Advance
  <2> QED BY <2>1, <2>3, <1>0, <1>1, Constants DEF Index
<1> HIDE DEF d
<1>3. d \in S BY <1>2 DEF Stops
<1>4. PICK i \in S : \A y \in S : i <= y
  <2>1. S \subseteq Nat /\ S # {} BY <1>3, Constants
  <2> QED BY <2>1, LeastNat
<1>5. i \in 0 .. Wrap - 1 /\ Stops(i) /\ \A j \in 0 .. i - 1 : ~Stops(j)
  BY <1>4, Constants
<1>6. Erased \in 0 .. Wrap - 1 /\ Stops(Erased) /\ \A j \in 0 .. Erased - 1 : ~Stops(j)
  BY <1>5 DEF Erased
<1>7. Erased <= d
  <2> HIDE DEF S
  <2> QED BY <1>6, <1>2, Constants DEF Stops
<1> QED BY <1>6, <1>7, <1>2 DEF d

(* ^U moves e back over the characters of the line. *)
LEMMA KeyUErases ==
  ASSUME KeyU PROVE e' = Plus(e, -Erased)
BY DEF KeyU, Erased, Stops

(* The steps that neither move a context nor touch the lock. *)
LEMMA QuietLock ==
  ASSUME LockPart,
         \/ KeyP \/ KeyU \/ KeyH \/ \E c \in Stored : KeyOther(c)
         \/ \E p \in CPUs : WriteChar(p) \/ kill(p) \/ exit(p)
         \/ UNCHANGED vars
  PROVE  LockPart'
<1> USE Constants DEF LockPart
<1> DEFINE Quiet ==
        /\ buf' \in [0 .. INPUT_BUF - 1 -> Stored] /\ w' \in Index /\ e' \in Index
        /\ job' \in [Contexts -> Jobs] /\ \A x \in Contexts : job'[x].kind = job[x].kind
        /\ sleeping' \subseteq CPUs /\ killed' \subseteq CPUs
        /\ UNCHANGED <<r, lock, cpu, pc, panic>>
<1>1. Quiet
  <2> USE DEF ConsoleTypeOK
  <2>1. CASE KeyP
    <3>1. 0 \in Contexts /\ job[0] \in Jobs BY DEF Contexts
    <3>2. [job[0] EXCEPT !.n = 1] \in Jobs /\ [job[0] EXCEPT !.n = 1].kind = job[0].kind BY <3>1, JobN
    <3>3. job' = [job EXCEPT ![0] = [job[0] EXCEPT !.n = 1]] BY <2>1 DEF KeyP
    <3>4. job' \in [Contexts -> Jobs] /\ \A x \in Contexts : job'[x].kind = job[x].kind
      BY <3>1, <3>2, <3>3
    <3> QED BY <2>1, <3>4 DEF KeyP
  <2>2. CASE KeyU
    <3>1. Plus(e, -w) \in Index
      <4>1. e \in Index /\ w \in Index OBVIOUS
      <4> QED BY <4>1, Distance
    <3>2. Erased \in 0 .. Wrap - 1 BY <3>1, ErasedIs DEF Index
    <3>3. -Erased \in -Wrap .. Wrap BY <3>2
    <3>4. e' \in Index BY <3>3, <2>2, KeyUErases, Advance
    <3> QED BY <2>2, <3>4 DEF KeyU
  <2>3. CASE KeyH
    <3>1. -1 \in -Wrap .. Wrap OBVIOUS
    <3>2. Plus(e, -1) \in Index BY <3>1, Advance
    <3> QED BY <2>3, <3>2 DEF KeyH
  <2>4. ASSUME NEW c \in Stored, KeyOther(c) PROVE Quiet
    <3>1. 1 \in -Wrap .. Wrap OBVIOUS
    <3>2. Plus(e, 1) \in Index BY <3>1, Advance
    <3>3. buf' \in [0 .. INPUT_BUF - 1 -> Stored] BY <2>4 DEF KeyOther
    <3>4. w' \in Index /\ e' \in Index /\ sleeping' \subseteq CPUs BY <2>4, <3>2 DEF KeyOther
    <3> QED BY <2>4, <3>3, <3>4 DEF KeyOther
  <2>5. ASSUME NEW p \in CPUs, WriteChar(p) PROVE Quiet
    <3>1. p \in Contexts /\ job[p] \in Jobs /\ job[p].n > 0 BY <2>5 DEF Contexts, WriteChar
    <3>2. [job[p] EXCEPT !.n = @ - 1] \in Jobs /\ [job[p] EXCEPT !.n = @ - 1].kind = job[p].kind
      BY <3>1, JobFields
    <3>3. job' = [job EXCEPT ![p] = [job[p] EXCEPT !.n = @ - 1]] BY <2>5 DEF WriteChar
    <3>4. job' \in [Contexts -> Jobs] /\ \A x \in Contexts : job'[x].kind = job[x].kind
      BY <3>1, <3>2, <3>3
    <3> QED BY <2>5, <3>4 DEF WriteChar
  <2>6. ASSUME NEW p \in CPUs, kill(p) \/ exit(p) PROVE Quiet
    BY <2>6 DEF kill, exit
  <2>7. CASE UNCHANGED vars BY <2>7 DEF vars
  <2> QED BY <2>1, <2>2, <2>3, <2>4, <2>5, <2>6, <2>7
<1>2. ConsoleTypeOK' BY <1>1 DEF ConsoleTypeOK
<1>3. JobInv' BY <1>1 DEF JobInv, Contexts
<1>4. LockInv' BY <1>1 DEF LockInv, Inside, Contexts
<1>5. CpuInv' BY <1>1 DEF CpuInv
<1> QED BY <1>2, <1>3, <1>4, <1>5

(* Every step of the console keeps the lock's part of the invariant. *)
LEMMA NextLock ==
  ASSUME LockPart, [Next]_vars
  PROVE  LockPart'
<1>1. ASSUME NEW x \in Contexts, pushcli(x) \/ xchg(x) \/ SetOwner(x) \/ ClearOwner(x) \/ Unlock(x) \/ popcli(x)
      PROVE  LockPart'
  BY <1>1, PushcliLock, XchgLock, SetOwnerLock, ClearOwnerLock, UnlockLock, PopcliLock
<1>2. ASSUME NEW p \in CPUs, NEW n \in Nat, Call(p, "read", n) \/ Call(p, "write", n)
      PROVE  LockPart'
  BY <1>2, CallLock
<1>3. CASE Interrupt \/ iret BY <1>3, InterruptLock, IretLock
<1>4. CASE EndOfKeys \/ Dump \/ \E p \in CPUs : ReadWaits(p) \/ CallDone(p) \/ ReadChar(p)
  BY <1>4, LeavesLock
<1>5. CASE \E p \in CPUs : Wakes(p) BY <1>5, WakesLock
<1>6. CASE \/ KeyP \/ KeyU \/ KeyH \/ \E c \in Stored : KeyOther(c)
           \/ \E p \in CPUs : WriteChar(p) \/ kill(p) \/ exit(p)
           \/ UNCHANGED vars
  BY <1>6, QuietLock
<1> QED BY <1>1, <1>2, <1>3, <1>4, <1>5, <1>6, Constants DEF Next

(* The lock's part of the invariant holds in every reachable state. *)
LEMMA LockAlways == Spec => []LockPart
<1>1. LockPart /\ [Next]_vars => LockPart' BY NextLock
<1> QED BY <1>1, InitLock, PTL DEF Spec

(* cons.lock keeps readers, writers and the interrupt handler apart, and   *)
(* pushcli() and popcli() keep the handler off a CPU that has the lock:    *)
(* LockDiscipline for any number of CPUs.                                  *)
THEOREM LockDisciplineHolds == Spec => []LockDiscipline
<1>1. LockPart => LockDiscipline
  <2> SUFFICES ASSUME LockPart PROVE LockDiscipline OBVIOUS
  <2> USE Constants DEF LockPart, CpuInv, LockInv, ConsoleTypeOK, Contexts, Owns, NoInt
  <2>1. ~panic /\ (pc[Handler] # "idle" => pc[1] \in {"idle", "acquire", "asleep"}) OBVIOUS
  <2>2. \A x, y \in Contexts : Inside(x) /\ pc[y] \in {"take", "inside", "release", "open"} => x = y BY DEF Inside
  <2>3. \A x \in Contexts : Inside(x) => Holding(CpuOf(x)) BY DEF Inside
  <2>4. \A c \in CPUs : (pc[c] \in {"idle", "asleep"} /\ (c = 1 => pc[Handler] = "idle")) => iflag[c] /\ ncli[c] = 0
    OBVIOUS
  <2> QED BY <2>1, <2>2, <2>3, <2>4 DEF LockDiscipline
<1> QED BY <1>1, LockAlways, PTL

-----------------------------------------------------------------------------
(* The ring: moving an index by one, and the place an index names. *)
LEMMA Around ==
  ASSUME NEW i \in Index, NEW j \in Index
  PROVE  /\ Plus(i, -i) = 0
         /\ Plus(j, -i) = 0 => i = j
         /\ Plus(i, Plus(j, -i)) = j
         /\ Plus(i, 1) \in Index /\ Plus(i, -1) \in Index
         /\ i # j => Plus(j, -Plus(i, 1)) = Plus(j, -i) - 1
         /\ i # j => Plus(Plus(j, -1), -i) = Plus(j, -i) - 1
         /\ Plus(j, -i) < Wrap - 1 => Plus(Plus(j, 1), -i) = Plus(j, -i) + 1
<1> USE Constants
<1>1. Plus(j, -i) = (IF i <= j THEN j - i ELSE j - i + Wrap) /\ Plus(j, -i) \in Index BY Distance
<1>2. Plus(i, -i) = 0
  <2>1. Plus(i, -i) = IF i <= i THEN i - i ELSE i - i + Wrap BY Distance
  <2> QED BY <2>1 DEF Index
<1>3. Plus(j, -i) = 0 => i = j BY <1>1 DEF Index
<1>4. 1 \in -Wrap .. Wrap /\ -1 \in -Wrap .. Wrap OBVIOUS
<1>5. Plus(i, 1) \in Index /\ Plus(i, 1) = IF i + 1 < 0 THEN i + 1 + Wrap ELSE IF i + 1 < Wrap THEN i + 1 ELSE i + 1 - Wrap
  BY <1>4, Advance
<1>6. Plus(j, 1) \in Index /\ Plus(j, 1) = IF j + 1 < 0 THEN j + 1 + Wrap ELSE IF j + 1 < Wrap THEN j + 1 ELSE j + 1 - Wrap
  BY <1>4, Advance
<1>7. /\ Plus(i, -1) \in Index
      /\ Plus(j, -1) \in Index
      /\ Plus(j, -1) = IF j + (-1) < 0 THEN j + (-1) + Wrap ELSE IF j + (-1) < Wrap THEN j + (-1) ELSE j + (-1) - Wrap
  BY <1>4, Advance
<1>8. i # j => Plus(j, -Plus(i, 1)) = Plus(j, -i) - 1
  <2> DEFINE k == Plus(i, 1)
  <2>1. k \in Index /\ k = IF i + 1 < Wrap THEN i + 1 ELSE i + 1 - Wrap BY <1>5 DEF Index
  <2> HIDE DEF k
  <2>2. Plus(j, -k) = IF k <= j THEN j - k ELSE j - k + Wrap BY <2>1, Distance
  <2>3. i # j => Plus(j, -k) = Plus(j, -i) - 1 BY <2>1, <2>2, <1>1 DEF Index
  <2> QED BY <2>3 DEF k
<1>9. i # j => Plus(Plus(j, -1), -i) = Plus(j, -i) - 1
  <2> DEFINE k == Plus(j, -1)
  <2>1. k \in Index /\ k = IF j - 1 < 0 THEN j - 1 + Wrap ELSE j - 1 BY <1>7 DEF Index
  <2> HIDE DEF k
  <2>2. Plus(k, -i) = IF i <= k THEN k - i ELSE k - i + Wrap BY <2>1, Distance
  <2>3. i # j => Plus(k, -i) = Plus(j, -i) - 1 BY <2>1, <2>2, <1>1 DEF Index
  <2> QED BY <2>3 DEF k
<1>10. Plus(j, -i) < Wrap - 1 => Plus(Plus(j, 1), -i) = Plus(j, -i) + 1
  <2> DEFINE k == Plus(j, 1)
  <2>1. k \in Index /\ k = IF j + 1 < Wrap THEN j + 1 ELSE j + 1 - Wrap BY <1>6 DEF Index
  <2> HIDE DEF k
  <2>2. Plus(k, -i) = IF i <= k THEN k - i ELSE k - i + Wrap BY <2>1, Distance
  <2>3. Plus(j, -i) < Wrap - 1 => Plus(k, -i) = Plus(j, -i) + 1 BY <2>1, <2>2, <1>1 DEF Index
  <2> QED BY <2>3 DEF k
<1>11. Plus(i, Plus(j, -i)) = j
  <2> DEFINE k == Plus(j, -i)
  <2>1. k \in Index /\ k = IF i <= j THEN j - i ELSE j - i + Wrap BY <1>1
  <2> HIDE DEF k
  <2>2. k \in -Wrap .. Wrap BY <2>1 DEF Index
  <2>3. Plus(i, k) = IF i + k < 0 THEN i + k + Wrap ELSE IF i + k < Wrap THEN i + k ELSE i + k - Wrap BY <2>2, Advance
  <2>4. Plus(i, k) = j BY <2>1, <2>3 DEF Index
  <2> QED BY <2>4 DEF k
<1> QED BY <1>2, <1>3, <1>5, <1>7, <1>8, <1>9, <1>10, <1>11

(* Index arithmetic modulo Wrap adds up. *)
LEMMA PlusPlus ==
  ASSUME NEW i \in Index, NEW j \in Int, NEW k \in Int
  PROVE  Plus(Plus(i, j), k) = Plus(i, j + k)
<1> DEFINE a == i + j
<1>1. a \in Int /\ i + (j + k) = a + k BY DEF Index
<1>2. Wrap \in Nat \ {0} BY Constants
<1> HIDE DEF a
<1>3. ((a % Wrap) + k) % Wrap = (a + k) % Wrap BY <1>1, <1>2, ModPlus
<1> QED BY <1>1, <1>3 DEF Plus, a

(* Indices less than a ring apart name different places. *)
LEMMA Places ==
  ASSUME NEW i \in Index, NEW j \in Int, NEW k \in Int, j < k, k < j + INPUT_BUF
  PROVE  /\ Plus(i, j) % INPUT_BUF \in 0 .. INPUT_BUF - 1
         /\ Plus(i, j) % INPUT_BUF # Plus(i, k) % INPUT_BUF
<1> DEFINE a == i + j
           b == i + k
<1>1. a \in Int /\ b \in Int /\ a < b /\ b < a + INPUT_BUF BY Constants DEF Index
<1>2. Wrap \in Nat \ {0} /\ INPUT_BUF \in Nat \ {0} /\ Wrap % INPUT_BUF = 0 BY Constants
<1> HIDE DEF a, b
<1>3. (a % Wrap) % INPUT_BUF = a % INPUT_BUF BY <1>1, <1>2, ModMod
<1>4. (b % Wrap) % INPUT_BUF = b % INPUT_BUF BY <1>1, <1>2, ModMod
<1>5. a % INPUT_BUF # b % INPUT_BUF
  <2>1. a <= b BY <1>1
  <2>2. ASSUME a % INPUT_BUF = b % INPUT_BUF PROVE a = b BY <1>1, <1>2, <2>1, <2>2, ModApart, Zenon
  <2> QED BY <2>2, <1>1
<1>6. a % INPUT_BUF \in 0 .. INPUT_BUF - 1 BY <1>1, <1>2, ModDef
<1> QED BY <1>3, <1>4, <1>5, <1>6 DEF Plus, a, b

(* The readable characters lie between r and w and the line being edited   *)
(* between w and e; together they fit, a full ring is all readable, a      *)
(* sleeping reader has nothing to read, and an unfinished line has no end. *)
RingInv ==
    /\ Plus(w, -r) + Plus(e, -w) <= INPUT_BUF
    /\ Plus(w, -r) + Plus(e, -w) = INPUT_BUF => e = w
    /\ sleeping # {} => r = w
EditInv == \A j \in 0 .. Plus(e, -w) - 1 : buf[Plus(w, j) % INPUT_BUF] \notin {NL, CtrlD}
ConsoleInv == LockPart /\ RingInv /\ EditInv

(* The characters in the ring. *)
LEMMA Contents ==
  ASSUME ConsoleTypeOK, RingInv
  PROVE  /\ Plus(w, -r) \in 0 .. INPUT_BUF /\ Plus(e, -w) \in 0 .. INPUT_BUF - 1
         /\ Plus(e, -r) = Plus(w, -r) + Plus(e, -w)
         /\ Plus(e, 1) = Plus(r, INPUT_BUF) <=> Plus(e, -r) + 1 = INPUT_BUF
<1> USE Constants
<1>0. r \in Index /\ w \in Index /\ e \in Index BY DEF ConsoleTypeOK
<1>1. Plus(w, -r) = (IF r <= w THEN w - r ELSE w - r + Wrap) /\ Plus(w, -r) \in Index BY <1>0, Distance
<1>2. Plus(e, -w) = (IF w <= e THEN e - w ELSE e - w + Wrap) /\ Plus(e, -w) \in Index BY <1>0, Distance
<1>3. Plus(e, -r) = (IF r <= e THEN e - r ELSE e - r + Wrap) /\ Plus(e, -r) \in Index BY <1>0, Distance
<1>4. 1 \in -Wrap .. Wrap /\ INPUT_BUF \in -Wrap .. Wrap OBVIOUS
<1>5. Plus(e, 1) \in Index /\ Plus(e, 1) = IF e + 1 < 0 THEN e + 1 + Wrap ELSE IF e + 1 < Wrap THEN e + 1 ELSE e + 1 - Wrap
  BY <1>0, <1>4, Advance
<1>6. /\ Plus(r, INPUT_BUF) \in Index
      /\ Plus(r, INPUT_BUF) = IF r + INPUT_BUF < 0 THEN r + INPUT_BUF + Wrap ELSE IF r + INPUT_BUF < Wrap THEN r + INPUT_BUF ELSE r + INPUT_BUF - Wrap
  BY <1>0, <1>4, Advance
<1>7. Plus(w, -r) \in 0 .. INPUT_BUF /\ Plus(e, -w) \in 0 .. INPUT_BUF - 1
  BY <1>0, <1>1, <1>2 DEF RingInv, Index
<1>8. Plus(e, -r) = Plus(w, -r) + Plus(e, -w) BY <1>0, <1>1, <1>2, <1>3 DEF RingInv, Index
<1>9. Plus(e, 1) = Plus(r, INPUT_BUF) <=> Plus(e, -r) + 1 = INPUT_BUF
  BY <1>0, <1>3, <1>5, <1>6, <1>7, <1>8 DEF Index, RingInv
<1> QED BY <1>7, <1>8, <1>9

(* ^U erases exactly the line being edited: it has no newline. *)
LEMMA KeyULine ==
  ASSUME ConsoleTypeOK, RingInv, EditInv, KeyU
  PROVE  e' = w
<1> USE Constants
<1>0. r \in Index /\ w \in Index /\ e \in Index BY DEF ConsoleTypeOK
<1> DEFINE d == Plus(e, -w)
           k == Erased
<1>1. k \in 0 .. d /\ Stops(k) BY ErasedIs
<1>2. d \in 0 .. INPUT_BUF - 1 BY Contents
<1>3. Plus(w, d) = e BY <1>0, Around
<1>4. e' = Plus(e, -k) BY KeyUErases
<1> HIDE DEF d, k
<1>5. Plus(Plus(w, d), -k) = Plus(w, d + (-k)) /\ Plus(Plus(w, d), -k - 1) = Plus(w, d + (-k - 1))
  BY <1>0, <1>1, <1>2, PlusPlus
<1>6. CASE k = d
  <2>1. Plus(w, 0) = w
    <3>1. 0 \in -Wrap .. Wrap OBVIOUS
    <3> QED BY <1>0, <3>1, Advance DEF Index
  <2>2. d + (-k) = 0 BY <1>1, <1>2, <1>6
  <2> QED BY <2>1, <2>2, <1>3, <1>4, <1>5
<1>7. CASE k # d
  <2> DEFINE j == d + (-k - 1)
  <2>1. j \in 0 .. d - 1 BY <1>1, <1>2, <1>7
  <2>2. buf[Plus(w, j) % INPUT_BUF] # NL
    <3> HIDE DEF j
    <3> QED BY <2>1 DEF EditInv, d
  <2>3. Plus(e, -k - 1) = Plus(w, j) BY <1>3, <1>5
  <2> HIDE DEF j
  <2>4. Plus(e, -k) = w BY <1>1, <2>2, <2>3 DEF Stops
  <2> QED BY <1>4, <2>4
<1> QED BY <1>6, <1>7

(* Which steps touch the ring or its sleepers. *)
LEMMA InputSteps ==
  ASSUME [Next]_vars
  PROVE  \/ KeyU \/ KeyH \/ \E c \in Stored : KeyOther(c)
         \/ \E p \in CPUs : ReadWaits(p) \/ ReadChar(p) \/ kill(p)
         \/ UNCHANGED <<buf, r, w, e, sleeping>>
<1> DEFINE Same == UNCHANGED <<buf, r, w, e, sleeping>>
<1>1. ASSUME NEW x \in Contexts, pushcli(x) \/ xchg(x) \/ SetOwner(x) \/ ClearOwner(x) \/ Unlock(x) \/ popcli(x)
      PROVE  Same
  BY <1>1 DEF pushcli, xchg, SetOwner, ClearOwner, Unlock, popcli
<1>2. CASE Interrupt \/ iret \/ KeyP \/ EndOfKeys \/ Dump \/ UNCHANGED vars
  BY <1>2 DEF Interrupt, iret, KeyP, EndOfKeys, Dump, vars
<1>3. ASSUME NEW p \in CPUs, WriteChar(p) \/ CallDone(p) \/ Wakes(p) \/ exit(p) PROVE Same
  BY <1>3 DEF WriteChar, CallDone, Wakes, exit
<1>4. ASSUME NEW p \in CPUs, NEW n, Call(p, "read", n) \/ Call(p, "write", n) PROVE Same
  BY <1>4 DEF Call
<1> QED BY <1>1, <1>2, <1>3, <1>4 DEF Next

(* A key is stored behind the others; when it ends the line, or fills the  *)
(* ring, all of the ring becomes readable.                                 *)
LEMMA KeyOtherRing ==
  ASSUME ConsoleTypeOK, RingInv, EditInv, NEW c \in Stored, KeyOther(c)
  PROVE  /\ RingInv' /\ EditInv'
         /\ Plus(e, -r) < INPUT_BUF
         /\ EndsLine(c) => Plus(w', -r') = Plus(e, -r) + 1 /\ Plus(e', -w') = 0
         /\ ~EndsLine(c) => w' = w /\ Plus(w', -r') = Plus(w, -r) /\ Plus(e', -w') = Plus(e, -w) + 1
         /\ EndsLine(c) <=> c \in {NL, CtrlD} \/ Plus(w, -r) + Plus(e, -w) + 1 = INPUT_BUF
<1> USE Constants
<1>0. r \in Index /\ w \in Index /\ e \in Index BY DEF ConsoleTypeOK
<1>1. /\ Plus(w, -r) \in 0 .. INPUT_BUF /\ Plus(e, -w) \in 0 .. INPUT_BUF - 1
      /\ Plus(e, -r) = Plus(w, -r) + Plus(e, -w)
      /\ Plus(e, 1) = Plus(r, INPUT_BUF) <=> Plus(e, -r) + 1 = INPUT_BUF
  BY Contents
<1>2. /\ Plus(e, -r) < INPUT_BUF /\ e' = Plus(e, 1) /\ r' = r
      /\ buf' = [buf EXCEPT ![e % INPUT_BUF] = c]
  BY DEF KeyOther, HasRoom
<1>3. EndsLine(c) <=> c \in {NL, CtrlD} \/ Plus(w, -r) + Plus(e, -w) + 1 = INPUT_BUF BY <1>1 DEF EndsLine
<1>4. /\ Plus(e, 1) \in Index
      /\ Plus(Plus(e, 1), -r) = Plus(e, -r) + 1 /\ Plus(Plus(e, 1), -w) = Plus(e, -w) + 1
  <2>1. Plus(e, -r) < Wrap - 1 /\ Plus(e, -w) < Wrap - 1 BY <1>1, <1>2
  <2> QED BY <2>1, <1>0, Around
<1>5. CASE EndsLine(c)
  <2>1. w' = Plus(e, 1) /\ sleeping' = {} BY <1>5 DEF KeyOther
  <2>2. Plus(e', -w') = 0 BY <1>2, <1>4, <2>1, Around
  <2>3. Plus(w', -r') = Plus(e, -r) + 1 BY <1>2, <1>4, <2>1
  <2>4. RingInv' BY <1>1, <1>2, <2>1, <2>2, <2>3 DEF RingInv
  <2>5. EditInv' BY <2>2 DEF EditInv
  <2> QED BY <1>2, <1>3, <1>5, <2>2, <2>3, <2>4, <2>5
<1>6. CASE ~EndsLine(c)
  <2>1. w' = w /\ sleeping' = sleeping BY <1>6 DEF KeyOther
  <2>2. Plus(e', -w') = Plus(e, -w) + 1 BY <1>2, <1>4, <2>1
  <2>3. Plus(w', -r') = Plus(w, -r) BY <1>2, <2>1
  <2>4. RingInv' BY <1>1, <1>2, <1>3, <1>6, <2>1, <2>2, <2>3 DEF RingInv
  <2>5. ASSUME NEW j \in 0 .. Plus(e', -w') - 1 PROVE (buf[Plus(w, j) % INPUT_BUF] \notin {NL, CtrlD})'
    <3> DEFINE d == Plus(e, -w)
    <3>1. Plus(w, d) = e BY <1>0, Around
    <3>2. d \in 0 .. INPUT_BUF - 1 /\ j \in 0 .. d BY <1>1, <2>2, <2>5
    <3>3. buf \in [0 .. INPUT_BUF - 1 -> Stored] /\ e % INPUT_BUF \in 0 .. INPUT_BUF - 1
      <4>1. e \in Int BY <1>0 DEF Index
      <4> QED BY <4>1, ModDef DEF ConsoleTypeOK
    <3> HIDE DEF d
    <3>4. CASE j = d
      <4>1. Plus(w, j)' = e BY <3>1, <3>4, <2>1 DEF Plus
      <4> QED BY <4>1, <3>3, <1>2, <1>3, <1>6
    <3>5. CASE j # d
      <4>1. j < d /\ d < j + INPUT_BUF /\ j \in Int /\ d \in Int BY <3>2, <3>5
      <4>2. Plus(w, j) % INPUT_BUF \in 0 .. INPUT_BUF - 1 /\ Plus(w, j) % INPUT_BUF # Plus(w, d) % INPUT_BUF
        BY <4>1, <1>0, Places
      <4>3. buf[Plus(w, j) % INPUT_BUF] \notin {NL, CtrlD} BY <4>1, <3>2 DEF EditInv, d
      <4>4. buf'[Plus(w, j) % INPUT_BUF] = buf[Plus(w, j) % INPUT_BUF] BY <4>2, <3>1, <3>3, <1>2
      <4>5. Plus(w, j)' = Plus(w, j) BY <2>1 DEF Plus
      <4> QED BY <4>3, <4>4, <4>5
    <3> QED BY <3>4, <3>5
  <2>6. EditInv' BY <2>5 DEF EditInv
  <2> QED BY <1>2, <1>3, <1>6, <2>1, <2>2, <2>3, <2>4, <2>6
<1> QED BY <1>5, <1>6

(* Every step keeps the ring within its size, and nobody asleep on a line. *)
LEMMA NextRing ==
  ASSUME ConsoleInv, [Next]_vars
  PROVE  RingInv' /\ EditInv'
<1> USE Constants
<1>0. r \in Index /\ w \in Index /\ e \in Index /\ ConsoleTypeOK /\ RingInv /\ EditInv
  BY DEF ConsoleInv, LockPart, ConsoleTypeOK
<1>1. /\ Plus(w, -r) \in 0 .. INPUT_BUF /\ Plus(e, -w) \in 0 .. INPUT_BUF - 1
  BY <1>0, Contents
<1>2. CASE KeyU
  <2>1. e' = w /\ w' = w /\ r' = r /\ buf' = buf /\ sleeping' = sleeping BY <1>0, <1>2, KeyULine DEF KeyU
  <2>2. Plus(e', -w') = 0 BY <2>1, <1>0, Around
  <2>3. Plus(w', -r') = Plus(w, -r) BY <2>1
  <2> QED BY <1>0, <1>1, <2>1, <2>2, <2>3 DEF RingInv, EditInv
<1>3. CASE KeyH
  <2>1. e' = Plus(e, -1) /\ e # w /\ w' = w /\ r' = r /\ buf' = buf /\ sleeping' = sleeping BY <1>3 DEF KeyH
  <2>2. Plus(e', -w') = Plus(e, -w) - 1 BY <2>1, <1>0, Around
  <2>3. Plus(w', -r') = Plus(w, -r) BY <2>1
  <2>4. RingInv' BY <1>0, <1>1, <2>1, <2>2, <2>3 DEF RingInv
  <2>5. ASSUME NEW j \in 0 .. Plus(e', -w') - 1 PROVE (buf[Plus(w, j) % INPUT_BUF] \notin {NL, CtrlD})'
    <3>1. j \in 0 .. Plus(e, -w) - 1 BY <2>2, <1>1
    <3>2. Plus(w, j)' = Plus(w, j) BY <2>1 DEF Plus
    <3> QED BY <3>1, <3>2, <2>1, <1>0 DEF EditInv
  <2> QED BY <2>4, <2>5 DEF EditInv
<1>4. ASSUME NEW c \in Stored, KeyOther(c) PROVE RingInv' /\ EditInv' BY <1>0, <1>4, KeyOtherRing
<1>5. ASSUME NEW p \in CPUs, ReadWaits(p) PROVE RingInv' /\ EditInv'
  <2>1. e' = e /\ w' = w /\ r' = r /\ buf' = buf /\ r = w BY <1>5 DEF ReadWaits, Empty
  <2>2. EditInv' BY <1>0, <2>1 DEF EditInv, Plus
  <2>3. RingInv' BY <1>0, <2>1 DEF RingInv, Plus
  <2> QED BY <2>2, <2>3
<1>6. ASSUME NEW p \in CPUs, ReadChar(p) PROVE RingInv' /\ EditInv'
  <2>1. e' = e /\ w' = w /\ (r' = r \/ r' = Plus(r, 1)) /\ buf' = buf /\ r # w /\ sleeping' = sleeping
    BY <1>6 DEF ReadChar, Empty
  <2>2. EditInv' BY <1>0, <2>1 DEF EditInv, Plus
  <2>3. Plus(w', -r') \in {Plus(w, -r), Plus(w, -r) - 1} BY <1>0, <2>1, Around
  <2>4. Plus(e', -w') = Plus(e, -w) BY <2>1
  <2>5. RingInv' BY <1>0, <1>1, <2>1, <2>3, <2>4 DEF RingInv
  <2> QED BY <2>2, <2>5
<1>7. ASSUME NEW p \in CPUs, kill(p) PROVE RingInv' /\ EditInv'
  <2>1. e' = e /\ w' = w /\ r' = r /\ buf' = buf /\ sleeping' \subseteq sleeping BY <1>7 DEF kill
  <2>2. EditInv' BY <1>0, <2>1 DEF EditInv, Plus
  <2>3. RingInv' BY <1>0, <2>1 DEF RingInv, Plus
  <2> QED BY <2>2, <2>3
<1>8. CASE UNCHANGED <<buf, r, w, e, sleeping>>
  BY <1>0, <1>8 DEF RingInv, EditInv, Plus
<1> QED BY <1>2, <1>3, <1>4, <1>5, <1>6, <1>7, <1>8, InputSteps

(* The console's invariant holds in every reachable state. *)
LEMMA ConsoleAlways == Spec => []ConsoleInv
<1>1. Init => ConsoleInv
  <2> SUFFICES ASSUME Init PROVE ConsoleInv OBVIOUS
  <2>1. r = 0 /\ w = 0 /\ e = 0 /\ sleeping = {} /\ 0 \in Index BY Constants DEF Init, Index
  <2>2. Plus(0, -0) = 0 BY <2>1, Around
  <2>3. RingInv /\ EditInv BY <2>1, <2>2, Constants DEF RingInv, EditInv
  <2> QED BY <2>3, InitLock DEF ConsoleInv
<1>2. ConsoleInv /\ [Next]_vars => ConsoleInv'
  BY NextRing, NextLock DEF ConsoleInv
<1> QED BY <1>1, <1>2, PTL DEF Spec

(* No reader sleeps over characters it could read, or over a ring too full *)
(* to take the key that would wake it: NoReaderLeftBehind for any ring     *)
(* whose places divide the range of the unsigned indices.                  *)
THEOREM NoReaderLeftBehindHolds == Spec => []NoReaderLeftBehind
<1>1. ConsoleInv => NoReaderLeftBehind
  <2> SUFFICES ASSUME ConsoleInv PROVE NoReaderLeftBehind OBVIOUS
  <2>1. ConsoleTypeOK /\ RingInv BY DEF ConsoleInv, LockPart
  <2>2. r = w => Plus(e, -r) < INPUT_BUF BY <2>1, Contents, Constants
  <2> QED BY <2>1, <2>2 DEF NoReaderLeftBehind, HasRoom, RingInv
<1> QED BY <1>1, ConsoleAlways, PTL

-----------------------------------------------------------------------------
(* The refinement of Terminal. *)
Bufs == [0 .. INPUT_BUF - 1 -> Stored]
Part(b, i, k) == [j \in 1 .. k |-> b[Plus(i, j - 1) % INPUT_BUF]]
Line == Span(r, Plus(w, -r))
Edit == Span(w, Plus(e, -w))
Got  == [p \in CPUs |-> job[p].got]

(* A stretch of the ring is a string of the length asked for. *)
LEMMA PartIs ==
  ASSUME NEW b \in Bufs, NEW i \in Index, NEW k \in Nat
  PROVE  /\ Part(b, i, k) \in Seq(Stored) /\ Len(Part(b, i, k)) = k
         /\ \A j \in 1 .. k : Part(b, i, k)[j] = b[Plus(i, j - 1) % INPUT_BUF]
<1>1. ASSUME NEW j \in 1 .. k PROVE b[Plus(i, j - 1) % INPUT_BUF] \in Stored
  <2> DEFINE a == Plus(i, j - 1)
             h == i + (j - 1)
  <2>1. h \in Int /\ Wrap \in Nat \ {0} /\ INPUT_BUF \in Nat \ {0} BY Constants DEF Index
  <2>2. a \in Int
    <3> HIDE DEF h
    <3>1. h % Wrap \in 0 .. Wrap - 1 BY <2>1, ModDef
    <3>2. a = h % Wrap BY DEF h, Plus
    <3> QED BY <3>1, <3>2, <2>1
  <2> HIDE DEF a, h
  <2>3. a % INPUT_BUF \in 0 .. INPUT_BUF - 1 BY <2>1, <2>2, ModDef
  <2> QED BY <2>3 DEF a, Bufs
<1>2. Part(b, i, k) \in [1 .. k -> Stored] BY <1>1 DEF Part
<1>3. Part(b, i, k) \in Seq(Stored) /\ Len(Part(b, i, k)) = k BY <1>2
<1> QED BY <1>3 DEF Part

(* A sequence is its length and its elements. *)
LEMMA SameSeq ==
  ASSUME NEW S, NEW s \in Seq(S), NEW t \in Seq(S), Len(s) = Len(t), \A j \in 1 .. Len(s) : s[j] = t[j]
  PROVE  s = t
OBVIOUS

(* Tail, Front and Append of the characters from an index on. *)
LEMMA PartTail ==
  ASSUME NEW b \in Bufs, NEW i \in Index, NEW k \in Nat \ {0}
  PROVE  /\ Part(b, i, k) # <<>> /\ Head(Part(b, i, k)) = b[i % INPUT_BUF]
         /\ Tail(Part(b, i, k)) = Part(b, Plus(i, 1), k - 1)
<1> USE Constants
<1> DEFINE s == Part(b, i, k)
           n == Plus(i, 1)
           t == Part(b, n, k - 1)
<1>1. n \in Index BY Around
<1>2. s \in Seq(Stored) /\ Len(s) = k /\ \A j \in 1 .. k : s[j] = b[Plus(i, j - 1) % INPUT_BUF]
  BY PartIs
<1>3. t \in Seq(Stored) /\ Len(t) = k - 1 /\ \A j \in 1 .. k - 1 : t[j] = b[Plus(n, j - 1) % INPUT_BUF]
  <2> DEFINE m == k - 1
  <2>1. m \in Nat OBVIOUS
  <2> HIDE DEF m, n
  <2>2. Part(b, n, m) \in Seq(Stored) /\ Len(Part(b, n, m)) = m /\ \A j \in 1 .. m : Part(b, n, m)[j] = b[Plus(n, j - 1) % INPUT_BUF]
    BY <2>1, <1>1, PartIs
  <2> QED BY <2>2 DEF m
<1>4. ASSUME NEW j \in 1 .. k - 1 PROVE t[j] = s[j + 1]
  <2>1. Plus(n, j - 1) = Plus(i, 1 + (j - 1)) BY PlusPlus
  <2>2. 1 + (j - 1) = (j + 1) - 1 /\ j + 1 \in 1 .. k OBVIOUS
  <2> HIDE DEF s, t, n
  <2>3. t[j] = b[Plus(n, j - 1) % INPUT_BUF] BY <1>3
  <2>4. s[j + 1] = b[Plus(i, (j + 1) - 1) % INPUT_BUF] BY <1>2, <2>2
  <2> QED BY <2>1, <2>2, <2>3, <2>4
<1>5. Plus(i, 1 - 1) = i
  <2>1. 0 \in -Wrap .. Wrap OBVIOUS
  <2>2. Plus(i, 0) = i BY <2>1, Advance DEF Index
  <2> QED BY <2>2
<1> HIDE DEF s, t, n
<1>6. s # <<>> /\ Head(s) = b[i % INPUT_BUF] BY <1>2, <1>5
<1>7. Tail(s) \in Seq(Stored) /\ Len(Tail(s)) = k - 1 /\ \A j \in 1 .. k - 1 : Tail(s)[j] = s[j + 1]
  BY <1>2
<1>8. Tail(s) = t BY <1>3, <1>4, <1>7, SameSeq
<1> QED BY <1>6, <1>8 DEF s, t, n

(* A backspace shortens a stretch by its last character. *)
LEMMA PartFront ==
  ASSUME NEW b \in Bufs, NEW i \in Index, NEW k \in Nat \ {0}
  PROVE  Part(b, i, k) # <<>> /\ T!Front(Part(b, i, k)) = Part(b, i, k - 1)
<1> DEFINE s == Part(b, i, k)
           m == k - 1
           t == Part(b, i, m)
<1>1. m \in Nat OBVIOUS
<1>2. s \in Seq(Stored) /\ Len(s) = k /\ \A j \in 1 .. k : s[j] = b[Plus(i, j - 1) % INPUT_BUF]
  BY PartIs
<1>3. t \in Seq(Stored) /\ Len(t) = m /\ \A j \in 1 .. m : t[j] = b[Plus(i, j - 1) % INPUT_BUF]
  <2> HIDE DEF m
  <2> QED BY <1>1, PartIs
<1> HIDE DEF s, t
<1>4. SubSeq(s, 1, Len(s) - 1) \in Seq(Stored) /\ Len(SubSeq(s, 1, Len(s) - 1)) = m
      /\ \A j \in 1 .. m : SubSeq(s, 1, Len(s) - 1)[j] = s[j]
  BY <1>2
<1>5. SubSeq(s, 1, Len(s) - 1) = t
  <2> DEFINE u == SubSeq(s, 1, Len(s) - 1)
  <2> HIDE DEF m
  <2>0. \A j \in 1 .. m : s[j] = t[j]
    <3>1. \A j \in 1 .. m : j \in 1 .. k BY <1>1 DEF m
    <3> QED BY <3>1, <1>2, <1>3
  <2>1. u \in Seq(Stored) /\ Len(u) = m /\ \A j \in 1 .. m : u[j] = t[j] BY <2>0, <1>4
  <2> HIDE DEF u
  <2>2. u = t BY <2>1, <1>3, SameSeq
  <2> QED BY <2>2 DEF u
<1> QED BY <1>2, <1>5 DEF T!Front, s, t

(* A character stored at e lengthens the stretch that ends there. *)
LEMMA PartAppend ==
  ASSUME NEW b \in Bufs, NEW i \in Index, NEW k \in 0 .. INPUT_BUF - 1, NEW c \in Stored
  PROVE  Part([b EXCEPT ![Plus(i, k) % INPUT_BUF] = c], i, k + 1) = Append(Part(b, i, k), c)
<1> USE Constants
<1> DEFINE at == Plus(i, k) % INPUT_BUF
           d == [b EXCEPT ![at] = c]
           s == Part(b, i, k)
           t == Part(d, i, k + 1)
<1>1. d \in Bufs BY DEF Bufs
<1>2. s \in Seq(Stored) /\ Len(s) = k /\ \A j \in 1 .. k : s[j] = b[Plus(i, j - 1) % INPUT_BUF]
  <2>1. k \in Nat OBVIOUS
  <2> QED BY <2>1, PartIs
<1>3. t \in Seq(Stored) /\ Len(t) = k + 1 /\ \A j \in 1 .. k + 1 : t[j] = d[Plus(i, j - 1) % INPUT_BUF]
  <2> DEFINE m == k + 1
  <2>1. m \in Nat OBVIOUS
  <2> HIDE DEF m, d
  <2>2. Part(d, i, m) \in Seq(Stored) /\ Len(Part(d, i, m)) = m /\ \A j \in 1 .. m : Part(d, i, m)[j] = d[Plus(i, j - 1) % INPUT_BUF]
    BY <2>1, <1>1, PartIs
  <2> QED BY <2>2 DEF m
<1> HIDE DEF s, t, d
<1>4. ASSUME NEW j \in 1 .. k PROVE t[j] = s[j]
  <2> DEFINE l == j - 1
             from == Plus(i, l) % INPUT_BUF
  <2>1. l < k /\ k < l + INPUT_BUF /\ l \in Int /\ k \in Int /\ j \in 1 .. k + 1 OBVIOUS
  <2>2. from \in 0 .. INPUT_BUF - 1 /\ from # at
    <3> HIDE DEF l
    <3> QED BY <2>1, Places
  <2>3. t[j] = d[from] /\ s[j] = b[from] BY <1>2, <1>3, <2>1
  <2> HIDE DEF from, at
  <2>4. d[from] = b[from] BY <2>2 DEF d, Bufs
  <2> QED BY <2>3, <2>4
<1>5. t[k + 1] = c
  <2>1. at \in 0 .. INPUT_BUF - 1
    <3>1. k < k + INPUT_BUF /\ k \in Int /\ k - INPUT_BUF + 1 < k + 1 OBVIOUS
    <3> DEFINE h == i + k
               a == h % Wrap
    <3>2. h \in Int /\ Wrap \in Nat \ {0} /\ INPUT_BUF \in Nat \ {0} BY DEF Index
    <3> HIDE DEF h
    <3>3. a \in Int BY <3>2, ModDef
    <3> HIDE DEF a
    <3>4. a % INPUT_BUF \in 0 .. INPUT_BUF - 1 BY <3>2, <3>3, ModDef
    <3> QED BY <3>4 DEF a, h, Plus
  <2>2. k + 1 \in 1 .. k + 1 /\ (k + 1) - 1 = k OBVIOUS
  <2>3. t[k + 1] = d[at] BY <2>2, <1>3
  <2> HIDE DEF at
  <2> QED BY <2>1, <2>3 DEF d, Bufs
<1>6. /\ Append(s, c) \in Seq(Stored) /\ Len(Append(s, c)) = k + 1
      /\ \A j \in 1 .. k : Append(s, c)[j] = s[j]
      /\ Append(s, c)[k + 1] = c
  BY <1>2
<1>7. \A j \in 1 .. k + 1 : t[j] = Append(s, c)[j] BY <1>4, <1>5, <1>6
<1>8. t = Append(s, c) BY <1>3, <1>6, <1>7, SameSeq
<1> QED BY <1>8 DEF s, t, d

(* A stretch of the ring is the join of its two pieces. *)
LEMMA PartConcat ==
  ASSUME NEW b \in Bufs, NEW i \in Index, NEW k \in Nat, NEW l \in Nat, Plus(i, k) \in Index
  PROVE  Part(b, i, k + l) = Part(b, i, k) \o Part(b, Plus(i, k), l)
<1> DEFINE s == Part(b, i, k)
           n == Plus(i, k)
           t == Part(b, n, l)
           m == k + l
           u == Part(b, i, m)
<1>1. m \in Nat OBVIOUS
<1>2. s \in Seq(Stored) /\ Len(s) = k /\ \A j \in 1 .. k : s[j] = b[Plus(i, j - 1) % INPUT_BUF] BY PartIs
<1>3. t \in Seq(Stored) /\ Len(t) = l /\ \A j \in 1 .. l : t[j] = b[Plus(n, j - 1) % INPUT_BUF]
  <2> HIDE DEF n
  <2> QED BY PartIs DEF n
<1>4. u \in Seq(Stored) /\ Len(u) = m /\ \A j \in 1 .. m : u[j] = b[Plus(i, j - 1) % INPUT_BUF]
  <2> HIDE DEF m
  <2> QED BY <1>1, PartIs
<1> HIDE DEF s, t, u
<1>5. ASSUME NEW j \in k + 1 .. m PROVE u[j] = t[j - k]
  <2>1. Plus(n, (j - k) - 1) = Plus(i, k + ((j - k) - 1)) BY PlusPlus
  <2>2. k + ((j - k) - 1) = j - 1 /\ j - k \in 1 .. l /\ j \in 1 .. m OBVIOUS
  <2> QED BY <1>3, <1>4, <2>1, <2>2
<1>6. ASSUME NEW j \in 1 .. k PROVE u[j] = s[j] BY <1>2, <1>4
<1>7. /\ s \o t \in Seq(Stored) /\ Len(s \o t) = m
      /\ \A j \in 1 .. k : (s \o t)[j] = s[j]
      /\ \A j \in k + 1 .. m : (s \o t)[j] = t[j - k]
  <2>1. s \o t \in Seq(Stored) /\ Len(s \o t) = m BY <1>2, <1>3, ConcatProperties
  <2>2. ASSUME NEW j \in 1 .. k PROVE (s \o t)[j] = s[j] BY <1>2, <1>3
  <2>3. ASSUME NEW j \in k + 1 .. m PROVE (s \o t)[j] = t[j - k]
    <3>1. j \in 1 .. Len(s) + Len(t) /\ j > Len(s) BY <1>2, <1>3
    <3> QED BY <3>1, <1>2, <1>3, ConcatProperties
  <2> QED BY <2>1, <2>2, <2>3
<1>8. \A j \in 1 .. m : u[j] = (s \o t)[j]
  <2> HIDE DEF m
  <2> QED BY <1>1, <1>5, <1>6, <1>7
<1>9. u = s \o t BY <1>4, <1>7, <1>8, SameSeq
<1> QED BY <1>9 DEF s, t, u

(* The abstract terminal's lines are the stretches from r to w and from w  *)
(* to e.                                                                   *)
LEMMA LineIs ==
  /\ Line = Part(buf, r, Plus(w, -r)) /\ Edit = Part(buf, w, Plus(e, -w))
  /\ Line' = Part(buf', r', Plus(w', -r')) /\ Edit' = Part(buf', w', Plus(e', -w'))
BY DEF Line, Edit, Span, Part, Plus

(* A key that is stored is typed. *)
LEMMA KeyOtherTypes ==
  ASSUME ConsoleInv, NEW c \in Stored, KeyOther(c)
  PROVE  T!Type(c)
<1> USE Constants
<1> DEFINE A == Plus(w, -r)
           B == Plus(e, -w)
<1>0. /\ r \in Index /\ w \in Index /\ e \in Index /\ buf \in Bufs
      /\ ConsoleTypeOK /\ RingInv /\ EditInv
  BY DEF ConsoleInv, LockPart, ConsoleTypeOK, Bufs
<1>1. /\ A \in 0 .. INPUT_BUF /\ B \in 0 .. INPUT_BUF - 1 /\ Plus(e, -r) = A + B
  BY <1>0, Contents
<1>2. /\ Plus(e, -r) < INPUT_BUF
      /\ EndsLine(c) => Plus(w', -r') = Plus(e, -r) + 1 /\ Plus(e', -w') = 0
      /\ ~EndsLine(c) => w' = w /\ Plus(w', -r') = A /\ Plus(e', -w') = B + 1
      /\ EndsLine(c) <=> c \in {NL, CtrlD} \/ A + B + 1 = INPUT_BUF
  BY <1>0, KeyOtherRing
<1>3. buf' = [buf EXCEPT ![e % INPUT_BUF] = c] /\ r' = r /\ job' = job BY DEF KeyOther
<1>4. Plus(w, B) = e /\ Plus(r, A) = w /\ Plus(r, Plus(e, -r)) = e BY <1>0, Around
<1> HIDE DEF A, B
<1>5. Plus(r, A + B) = e BY <1>1, <1>4
<1> DEFINE L == Part(buf, r, A)
           E == Part(buf, w, B)
<1>6. Line = L /\ Edit = E BY LineIs DEF A, B
<1>7. L \in Seq(Stored) /\ Len(L) = A /\ E \in Seq(Stored) /\ Len(E) = B
  <2>1. A \in Nat /\ B \in Nat BY <1>1
  <2>2. L \in Seq(Stored) /\ Len(L) = A BY <2>1, <1>0, PartIs, Zenon
  <2>3. E \in Seq(Stored) /\ Len(E) = B BY <2>1, <1>0, PartIs, Zenon
  <2> QED BY <2>2, <2>3
<1>8. Part(buf', r, A + B + 1) = Append(Part(buf, r, A + B), c)
  <2> DEFINE k == A + B
  <2>1. k \in 0 .. INPUT_BUF - 1 BY <1>1, <1>2
  <2> HIDE DEF k
  <2>2. Part([buf EXCEPT ![Plus(r, k) % INPUT_BUF] = c], r, k + 1) = Append(Part(buf, r, k), c)
    BY <2>1, <1>0, PartAppend, ZenonT(60)
  <2> QED BY <2>2, <1>3, <1>5 DEF k
<1>9. Part(buf', w, B + 1) = Append(E, c)
  <2>1. Part([buf EXCEPT ![Plus(w, B) % INPUT_BUF] = c], w, B + 1) = Append(Part(buf, w, B), c)
    BY <1>0, <1>1, PartAppend, ZenonT(60)
  <2> QED BY <2>1, <1>3, <1>4
<1>10. Part(buf, r, A + B) = L \o E
  <2>1. A \in Nat /\ B \in Nat /\ Plus(r, A) \in Index BY <1>0, <1>1, <1>4
  <2>2. Part(buf, r, A + B) = Part(buf, r, A) \o Part(buf, Plus(r, A), B)
    BY <2>1, <1>0, PartConcat
  <2> QED BY <2>2, <1>4
<1> DEFINE Ends == c \in {NL, CtrlD} \/ A + B + 1 = INPUT_BUF
<1>11. ASSUME Ends PROVE Line' = Line \o Append(Edit, c) /\ Edit' = <<>>
  <2>1. EndsLine(c) BY <1>2, <1>11
  <2>2. Line' = Append(L \o E, c) BY <2>1, <1>2, <1>1, <1>3, <1>8, <1>10, LineIs
  <2> DEFINE b1 == buf'
             w1 == w'
  <2>3. Edit' = Part(b1, w1, 0) BY <2>1, <1>2, LineIs
  <2>4. Edit' = <<>>
    <3> HIDE DEF b1, w1
    <3> QED BY <2>3 DEF Part
  <2> HIDE DEF L, E
  <2>5. Append(L \o E, c) = L \o Append(E, c)
    <3>1. Append(L \o E, c) \in Seq(Stored) /\ L \o Append(E, c) \in Seq(Stored) BY <1>7
    <3>2. Len(Append(L \o E, c)) = Len(L \o Append(E, c)) BY <1>7
    <3>3. \A j \in 1 .. Len(Append(L \o E, c)) : Append(L \o E, c)[j] = (L \o Append(E, c))[j] BY <1>7
    <3> QED BY <3>1, <3>2, <3>3, SameSeq
  <2> QED BY <1>6, <2>2, <2>4, <2>5
<1>12. ASSUME ~Ends PROVE Edit' = Append(Edit, c) /\ Line' = Line
  <2>1. ~EndsLine(c) BY <1>2, <1>12
  <2>2. Edit' = Append(E, c) BY <2>1, <1>2, <1>9, LineIs
  <2>3. Line' = Part(buf', r, A) BY <2>1, <1>2, <1>3, LineIs
  <2>4. Part(buf', r, A) = L
    <3>1. buf' \in Bufs BY <1>0, <1>3 DEF Bufs
    <3>2. Part(buf', r, A) \in Seq(Stored) /\ Len(Part(buf', r, A)) = A
          /\ \A j \in 1 .. A : Part(buf', r, A)[j] = buf'[Plus(r, j - 1) % INPUT_BUF]
      <4>1. A \in Nat BY <1>1
      <4> QED BY <4>1, <3>1, <1>0, PartIs, ZenonT(60)
    <3>3. \A j \in 1 .. A : L[j] = buf[Plus(r, j - 1) % INPUT_BUF] BY DEF Part
    <3>4. ASSUME NEW j \in 1 .. A PROVE buf'[Plus(r, j - 1) % INPUT_BUF] = buf[Plus(r, j - 1) % INPUT_BUF]
      <4> DEFINE l == j - 1
                 k == A + B
                 from == Plus(r, l) % INPUT_BUF
                 at == Plus(r, k) % INPUT_BUF
      <4>1. l < k /\ k < l + INPUT_BUF /\ l \in Int /\ k \in Int BY <1>1, <1>2
      <4>2. from \in 0 .. INPUT_BUF - 1 /\ from # at
        <5> HIDE DEF l, k
        <5> QED BY <4>1, <1>0, Places
      <4>3. at = e % INPUT_BUF BY <1>5
      <4> HIDE DEF from, at
      <4>4. buf'[from] = buf[from] BY <4>2, <4>3, <1>0, <1>3 DEF Bufs
      <4> QED BY <4>4 DEF from
    <3>5. \A j \in 1 .. A : Part(buf', r, A)[j] = L[j] BY <3>2, <3>3, <3>4
    <3> DEFINE M == Part(buf', r, A)
    <3>6. M \in Seq(Stored) /\ Len(M) = A /\ \A j \in 1 .. A : M[j] = L[j] BY <3>2, <3>5
    <3> HIDE DEF L, M
    <3>7. M = L BY <3>6, <1>7, SameSeq
    <3> QED BY <3>7 DEF M, L
  <2> QED BY <1>6, <2>2, <2>3, <2>4
<1>13. Len(Line) + Len(Edit) = A + B BY <1>6, <1>7
<1>14. Len(Line) + Len(Edit) < INPUT_BUF BY <1>1, <1>2, <1>13
<1>15. IF c \in {NL, CtrlD} \/ Len(Line) + Len(Edit) + 1 = INPUT_BUF
         THEN Line' = Line \o Append(Edit, c) /\ Edit' = <<>>
         ELSE Edit' = Append(Edit, c) /\ Line' = Line
  <2>1. CASE Ends
    <3>1. Line' = Line \o Append(Edit, c) /\ Edit' = <<>> BY <1>11, <2>1
    <3> QED BY <2>1, <3>1, <1>13
  <2>2. CASE ~Ends
    <3>1. Edit' = Append(Edit, c) /\ Line' = Line BY <1>12, <2>2
    <3> QED BY <2>2, <3>1, <1>13
  <2> QED BY <2>1, <2>2
<1>16. Got' = Got BY <1>3 DEF Got
<1> QED BY <1>14, <1>15, <1>16 DEF T!Type, Line, Edit, Got

(* ^H takes back the last character, ^U all of the line. *)
LEMMA KeysErase ==
  ASSUME ConsoleInv, KeyH \/ KeyU
  PROVE  T!Erase \/ T!KillLine
<1> USE Constants
<1> DEFINE B == Plus(e, -w)
<1>0. /\ r \in Index /\ w \in Index /\ e \in Index /\ buf \in Bufs
      /\ ConsoleTypeOK /\ RingInv /\ EditInv
  BY DEF ConsoleInv, LockPart, ConsoleTypeOK, Bufs
<1>1. w' = w /\ r' = r /\ buf' = buf /\ job' = job BY DEF KeyH, KeyU
<1>2. Line' = Line /\ Got' = Got BY <1>1, LineIs DEF Got
<1>3. CASE KeyU
  <2>1. e' = w BY <1>0, <1>3, KeyULine
  <2>2. Plus(e', -w') = 0 BY <2>1, <1>0, <1>1, Around
  <2>3. Edit' = Part(buf, w, 0) BY <2>2, <1>1, LineIs
  <2>4. Edit' = <<>> BY <2>3 DEF Part
  <2> QED BY <2>4, <1>2 DEF T!KillLine, Line, Edit, Got
<1>4. CASE KeyH
  <2>1. e # w /\ e' = Plus(e, -1) BY <1>4 DEF KeyH
  <2>2. Plus(e', -w') = B - 1 /\ B # 0 BY <2>1, <1>0, <1>1, Around
  <2>3. B \in Nat \ {0} BY <2>2, <1>0, Contents
  <2>4. Edit = Part(buf, w, B) /\ Edit' = Part(buf, w, B - 1) BY <2>2, <1>1, LineIs
  <2> HIDE DEF B
  <2>5. Part(buf, w, B) # <<>> /\ T!Front(Part(buf, w, B)) = Part(buf, w, B - 1)
    BY <2>3, <1>0, PartFront, Zenon
  <2>6. Edit # <<>> /\ Edit' = T!Front(Edit) BY <2>4, <2>5
  <2> QED BY <2>6, <1>2 DEF T!Erase, Line, Edit, Got
<1> QED BY <1>3, <1>4

(* What a call has been given changes as its job does. *)
LEMMA GotChanges ==
  ASSUME NEW p \in CPUs, NEW j, job \in [Contexts -> Jobs], job' = [job EXCEPT ![p] = j]
  PROVE  Got' = [Got EXCEPT ![p] = j.got]
BY DEF Got, Contexts

(* A character read is given once, in order; a ^D only to a call that has  *)
(* nothing yet.                                                            *)
LEMMA ReadCharGives ==
  ASSUME ConsoleInv, NEW p \in CPUs, ReadChar(p)
  PROVE  T!Give(p) \/ T!GiveEof(p) \/ UNCHANGED T!tvars
<1> USE Constants
<1> DEFINE A == Plus(w, -r)
           c == buf[r % INPUT_BUF]
           g == job[p].got
<1>0. /\ r \in Index /\ w \in Index /\ e \in Index /\ buf \in Bufs
      /\ ConsoleTypeOK /\ RingInv /\ EditInv
      /\ p \in Contexts /\ job \in [Contexts -> Jobs] /\ job[p] \in Jobs /\ g \in Nat
  BY DEF ConsoleInv, LockPart, ConsoleTypeOK, Bufs, Contexts, Jobs
<1>1. w' = w /\ e' = e /\ buf' = buf /\ r # w /\ job[p].n > 0 BY DEF ReadChar, Empty
<1>2. Edit' = Edit BY <1>1, LineIs
<1>3. A \in Nat \ {0}
  <2>1. A # 0 BY <1>0, <1>1, Around
  <2> QED BY <2>1, <1>0, Contents
<1>4. Line = Part(buf, r, A) BY LineIs
<1>5. Plus(w, -Plus(r, 1)) = A - 1 BY <1>0, <1>1, Around
<1>6. r' = Plus(r, 1) => Line' = Part(buf, Plus(r, 1), A - 1) BY <1>1, <1>5, LineIs
<1>7. r' = r => Line' = Line BY <1>1, LineIs
<1>8. Line # <<>> /\ Head(Line) = c /\ (r' = Plus(r, 1) => Line' = Tail(Line))
  <2> HIDE DEF A
  <2>1. /\ Part(buf, r, A) # <<>> /\ Head(Part(buf, r, A)) = buf[r % INPUT_BUF]
        /\ Tail(Part(buf, r, A)) = Part(buf, Plus(r, 1), A - 1)
    BY <1>3, <1>0, PartTail, SMTT(60)
  <2> QED BY <2>1, <1>4, <1>6
<1>9. Got[p] = g BY DEF Got
<1> DEFINE j1 == [job[p] EXCEPT !.n = 0]
           j2 == [job[p] EXCEPT !.n = 0, !.got = @ + 1]
           j3 == [job[p] EXCEPT !.n = @ - 1, !.got = @ + 1]
<1>10. j1.got = g /\ j2.got = g + 1 /\ j3.got = g + 1 BY <1>0, <1>1, JobFields, Zenon
<1>11. CASE c = CtrlD
  <2>1. r' = (IF g > 0 THEN r ELSE Plus(r, 1)) /\ job' = [job EXCEPT ![p] = j1] BY <1>11 DEF ReadChar, PutBack
  <2> HIDE DEF j1, j2, j3
  <2>2. Got' = [Got EXCEPT ![p] = g] BY <2>1, <1>0, <1>10, GotChanges
  <2>3. Got' = Got BY <2>2, <1>9 DEF Got
  <2>4. CASE g > 0
    <3>1. Line' = Line BY <2>1, <2>4, <1>7
    <3> QED BY <3>1, <2>3, <1>2 DEF T!tvars, Line, Edit, Got
  <2>5. CASE ~(g > 0)
    <3>1. Line' = Tail(Line) /\ Got[p] = 0 BY <2>1, <2>5, <1>0, <1>8, <1>9
    <3>2. Line # <<>> /\ Head(Line) = CtrlD /\ Got[p] = 0 /\ Line' = Tail(Line) /\ Edit' = Edit /\ Got' = Got
      BY <3>1, <1>8, <1>11, <2>3, <1>2
    <3> QED BY <3>2 DEF T!GiveEof, Line, Edit, Got
  <2> QED BY <2>4, <2>5
<1>12. CASE c # CtrlD
  <2>1. r' = Plus(r, 1) /\ job' \in {[job EXCEPT ![p] = j2], [job EXCEPT ![p].n = @ - 1, ![p].got = @ + 1]}
    BY <1>12 DEF ReadChar
  <2>2. [job EXCEPT ![p].n = @ - 1, ![p].got = @ + 1] = [job EXCEPT ![p] = j3] BY <1>0 DEF Jobs
  <2>3. job' = [job EXCEPT ![p] = j2] \/ job' = [job EXCEPT ![p] = j3] BY <2>1, <2>2
  <2> HIDE DEF j1, j2, j3
  <2>4. Got' = [Got EXCEPT ![p] = g + 1] BY <2>3, <1>0, <1>10, GotChanges
  <2>5. Got' = [Got EXCEPT ![p] = @ + 1] BY <2>4, <1>9
  <2>6. Line # <<>> /\ Head(Line) # CtrlD /\ Line' = Tail(Line) /\ Edit' = Edit BY <2>1, <1>8, <1>12, <1>2
  <2> QED BY <2>5, <2>6 DEF T!Give, Line, Edit, Got
<1> QED BY <1>11, <1>12

(* The other steps give nobody anything; a call that returns or begins has *)
(* been given nothing.                                                     *)
LEMMA OthersGive ==
  ASSUME ConsoleInv, [Next]_vars, UNCHANGED <<buf, r, w, e>>, ~(\E p \in CPUs : ReadChar(p))
  PROVE  UNCHANGED T!tvars \/ \E p \in CPUs : T!Return(p)
<1> USE Constants
<1>0. /\ ConsoleTypeOK /\ job \in [Contexts -> Jobs] /\ 0 \in Contexts /\ 0 \notin CPUs
      /\ CPUs \subseteq Contexts
  BY DEF ConsoleInv, LockPart, ConsoleTypeOK, Contexts
<1>1. Line' = Line /\ Edit' = Edit BY LineIs
<1>2. ASSUME Got' = Got PROVE UNCHANGED T!tvars BY <1>1, <1>2 DEF T!tvars, Line, Edit, Got
<1>3. ASSUME NEW p \in CPUs, Got' = [Got EXCEPT ![p] = 0] PROVE T!Return(p)
  BY <1>1, <1>3 DEF T!Return, Line, Edit, Got
<1>4. ASSUME job' = job PROVE Got' = Got BY <1>4 DEF Got
<1>5. ASSUME NEW j, job' = [job EXCEPT ![Handler] = j] PROVE Got' = Got
  <2>1. \A p \in CPUs : job'[p] = job[p] BY <1>0, <1>5
  <2> QED BY <2>1 DEF Got
<1>6. ASSUME NEW p \in CPUs, NEW j, job' = [job EXCEPT ![p] = j], j.got = job[p].got PROVE Got' = Got
  <2>1. Got' = [Got EXCEPT ![p] = job[p].got] BY <1>0, <1>6, GotChanges
  <2> QED BY <2>1 DEF Got
<1>7. ASSUME NEW p \in CPUs, NEW j, job' = [job EXCEPT ![p] = j], j.got = 0 PROVE T!Return(p)
  <2>1. Got' = [Got EXCEPT ![p] = 0] BY <1>0, <1>7, GotChanges
  <2> QED BY <2>1, <1>3
<1>8. ASSUME NEW x \in Contexts, pushcli(x) \/ xchg(x) \/ SetOwner(x) \/ ClearOwner(x) \/ Unlock(x) PROVE Got' = Got
  BY <1>8, <1>4 DEF pushcli, xchg, SetOwner, ClearOwner, Unlock
<1>9. ASSUME NEW x \in Contexts, popcli(x) PROVE Got' = Got \/ \E p \in CPUs : T!Return(p)
  <2>1. CASE x = Handler
    <3>1. job' = job \/ \E j : job' = [job EXCEPT ![Handler] = j] BY <1>9, <2>1, PopcliCases
    <3> QED BY <3>1, <1>4, <1>5
  <2>2. CASE x \in CPUs
    <3>1. job[x].kind # "intr" BY <2>2 DEF ConsoleInv, LockPart, JobInv
    <3>2. job' = job \/ job' = [job EXCEPT ![x] = NoJob] BY <1>9, <2>2, <3>1, PopcliCases
    <3> QED BY <2>2, <3>2, <1>4, <1>7, JobFields
  <2> QED BY <2>1, <2>2 DEF Contexts
<1>10. CASE Interrupt \/ iret \/ KeyP \/ EndOfKeys \/ Dump
  <2>1. job' = job \/ \E j : job' = [job EXCEPT ![Handler] = j]
    BY <1>10 DEF Interrupt, iret, KeyP, EndOfKeys, Dump
  <2>2. Got' = Got BY <2>1, <1>4, <1>5
  <2> QED BY <2>2, <1>2
<1>11. CASE KeyU \/ KeyH \/ \E c \in Stored : KeyOther(c)
  BY <1>11, <1>4, <1>2 DEF KeyU, KeyH, KeyOther
<1>12. ASSUME NEW p \in CPUs, NEW n, Call(p, "read", n) \/ Call(p, "write", n) PROVE T!Return(p)
  <2>1. \E kind : job' = [job EXCEPT ![p] = [kind |-> kind, n |-> n, got |-> 0]] BY <1>12 DEF Call
  <2>2. PICK kind : job' = [job EXCEPT ![p] = [kind |-> kind, n |-> n, got |-> 0]] BY <2>1
  <2> DEFINE j == [kind |-> kind, n |-> n, got |-> 0]
  <2>3. job' = [job EXCEPT ![p] = j] /\ j.got = 0 BY <2>2
  <2> HIDE DEF j
  <2> QED BY <2>3, <1>7
<1>13. ASSUME NEW p \in CPUs, ReadWaits(p) \/ WriteChar(p) \/ CallDone(p) \/ Wakes(p) \/ kill(p) \/ exit(p)
       PROVE  Got' = Got
  <2>1. CASE CallDone(p) \/ Wakes(p) \/ kill(p) \/ exit(p)
    BY <2>1, <1>4 DEF CallDone, Wakes, kill, exit
  <2>2. job[p] \in Jobs BY <1>0
  <2>3. CASE ReadWaits(p)
    <3>1. job' = [job EXCEPT ![p] = [job[p] EXCEPT !.n = 0]] \/ job' = [job EXCEPT ![p] = job[p]]
      BY <2>3 DEF ReadWaits
    <3>2. [job[p] EXCEPT !.n = 0].got = job[p].got BY <2>2, JobFields
    <3> QED BY <3>1, <3>2, <1>6
  <2>4. CASE WriteChar(p)
    <3>1. job' = [job EXCEPT ![p] = [job[p] EXCEPT !.n = @ - 1]] /\ job[p].n > 0 BY <2>4, <1>0 DEF WriteChar
    <3>2. [job[p] EXCEPT !.n = @ - 1].got = job[p].got BY <2>2, <3>1, JobFields
    <3> QED BY <3>1, <3>2, <1>6
  <2> QED BY <1>13, <2>1, <2>3, <2>4
<1>14. CASE UNCHANGED vars BY <1>14, <1>4, <1>2 DEF vars
<1> QED BY <1>2, <1>8, <1>9, <1>10, <1>11, <1>12, <1>13, <1>14 DEF Next

(* Every step of the console is a step of the abstract terminal, or        *)
(* changes none of it.                                                     *)
LEMMA TerminalStep ==
  ASSUME ConsoleInv, [Next]_vars
  PROVE  [T!TermNext]_(T!tvars)
<1>1. CASE KeyH \/ KeyU BY <1>1, KeysErase DEF T!TermNext
<1>2. ASSUME NEW c \in Stored, KeyOther(c) PROVE T!TermNext BY <1>2, KeyOtherTypes DEF T!TermNext
<1>3. ASSUME NEW p \in CPUs, ReadChar(p) PROVE [T!TermNext]_(T!tvars) BY <1>3, ReadCharGives DEF T!TermNext
<1>4. CASE ~(\E p \in CPUs : ReadChar(p)) /\ UNCHANGED <<buf, r, w, e>>
  BY <1>4, OthersGive DEF T!TermNext
<1>5. ASSUME NEW p \in CPUs, ReadWaits(p) \/ kill(p) PROVE UNCHANGED <<buf, r, w, e>>
  BY <1>5 DEF ReadWaits, kill
<1> QED BY <1>1, <1>2, <1>3, <1>4, <1>5, InputSteps

(* The empty ring is a terminal without input. *)
LEMMA TerminalStart == Init => T!TermInit
<1> SUFFICES ASSUME Init PROVE T!TermInit OBVIOUS
<1>1. r = 0 /\ w = 0 /\ e = 0 /\ 0 \in Index BY Constants DEF Init, Index
<1>2. Plus(0, -0) = 0 BY <1>1, Around
<1>3. Line = <<>> /\ Edit = <<>> BY <1>1, <1>2 DEF Line, Edit, Span
<1>4. Got = [p \in CPUs |-> 0] BY DEF Got, Init, NoJob, Contexts
<1> QED BY <1>3, <1>4 DEF T!TermInit, Line, Edit, Got

(* The ring of unsigned indices implements the terminal: every step of the *)
(* interrupt handler and of the readers is a step of Terminal or none.     *)
THEOREM TerminalRefinementHolds == Spec => TerminalRefinement
<1>1. Init => T!TermInit BY TerminalStart
<1>2. ConsoleInv /\ [Next]_vars => [T!TermNext]_(T!tvars) BY TerminalStep
<1> QED BY <1>1, <1>2, ConsoleAlways, PTL DEF Spec, TerminalRefinement, T!TermSpec
=============================================================================
