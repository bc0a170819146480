----------------------------- MODULE ProcProofs -----------------------------
(***************************************************************************)
(* The inductive invariant of the process table, the proof that every step *)
(* common to both kernels preserves it, and at the end the steps of the    *)
(* two schedulers and what follows for each kernel: the invariant holds of *)
(* both, for any number of slots and CPUs, and each scheduler follows its  *)
(* order, the FCFS one creation times, the priority one, which keeps       *)
(* ptable.lock from one process to the next, priorities.                   *)
(***************************************************************************)
EXTENDS FcfsSched, PrioritySched, WellFoundedInduction, TLAPS

ForkLocs == {"kstack", "copy", "ready"}

(* A slot without a live process has no kernel thread to resume; an EMBRYO *)
(* one has at most a stack prepared for forkret.                           *)
PcInv == \A s \in Slot :
    /\ state[s] \in {"UNUSED", "ZOMBIE"} => pc[s] = "none"
    /\ state[s] = "EMBRYO" => pc[s] \in {"none", "forkret"}

(* What fork() knows between its critical sections: np is an EMBRYO slot   *)
(* nobody else works on, with what has been allocated so far.              *)
ForkInv ==
    /\ \A p \in Slot : np[p] # NULL <=> pc[p] \in ForkLocs
    /\ \A p \in Slot : np[p] # NULL => state[np[p]] = "EMBRYO"
    /\ \A p, q \in Slot : np[p] # NULL /\ np[p] = np[q] => p = q
    /\ \A p \in Slot : pc[p] = "kstack" => pc[np[p]] = "none"
    /\ \A p \in Slot : pc[p] \in {"copy", "ready"} => kstack[np[p]]
    /\ \A p \in Slot : pc[p] = "ready" => pgdir[np[p]]

(* CPU 0's timer interrupt found ptable.lock not held by its own CPU; it   *)
(* holds tickslock up to the wakeup and not at the end of trap().          *)
IsrInv ==
    /\ isr # "off" => ptlock # 0
    /\ isr = "wakeup" => tickslock = 0
    /\ isr = "tail" => tickslock # 0

(* Who holds tickslock: the timer interrupt, or a process in sys_sleep     *)
(* that has not entered sched().                                           *)
TicksInv == \A c \in CPU : tickslock = c =>
    \/ c = 0 /\ isr = "wakeup"
    \/ cproc[c] # NULL /\ pc[cproc[c]] = "tosleep" /\ ptlock # c

CpuInv ==
    /\ OneCpuPerProcess
    /\ \A c \in CPU : cproc[c] # NULL => state[cproc[c]] \notin {"UNUSED", "EMBRYO"}

(* FamilyTree, with what fork() has done to the child's parent pointer.    *)
FamilyInv ==
    /\ FamilyTree
    /\ \A s \in Slot : parent[s] # s
    /\ \A p \in Slot : pc[p] \in {"kstack", "copy"} => parent[np[p]] = NULL
    /\ \A p \in Slot : pc[p] = "ready" => parent[np[p]] = p

(* No slot, in use or not, has a pid that is still to be issued.           *)
PidInv == SlotsAndPids /\ \A s \in Slot : pid[s] < nextpid

(* From the test of ticks to the sleep() the process keeps tickslock, so   *)
(* no tick comes in between.                                               *)
TickWaitInv ==
    /\ NoLostTick
    /\ \A p \in Slot : pc[p] = "tosleep" =>
        /\ ticks < arg[p]
        /\ \E c \in CPU : cproc[c] = p /\ tickslock = c /\ ptlock # c /\ ~InIsr(c)

(* Whoever sleeps in wait() or procstat() sleeps on its own channel.       *)
ExitWaitInv ==
    /\ NoLostExit
    /\ \A s \in Slot : state[s] = "SLEEPING" /\ pc[s] \in {"waiting", "pstat"} => chan[s] = s

Inv == /\ TypeOK /\ PcInv /\ ForkInv /\ IsrInv /\ TicksInv /\ CpuInv /\ StackSafe
       /\ FamilyInv /\ PidInv /\ TickWaitInv /\ ExitWaitInv

USE DEF NULL, Free, lockvars, timevars, memvars, idvars, thread, ForkLocs,
        InIsr, At, Syscall, SwitchedIn, Goto, HoldAcrossSwtch

-----------------------------------------------------------------------------
(* A set of naturals has a least element. *)
LEMMA LeastNat ==
  ASSUME NEW S, S \subseteq Nat, S # {}
  PROVE  \E x \in S : \A y \in S : x <= y
<1> DEFINE R == OpToRel(<, Nat)
<1>1. IsWellFoundedOn(R, Nat)
  BY NatLessThanWellFounded
<1>2. \E x \in S : \A y \in S : <<y, x>> \notin R
  <2> HIDE DEF R
  <2> QED BY <1>1, WFMin
<1>3. \E x \in S : \A y \in S : ~(y < x)
  BY <1>2 DEF OpToRel
<1> QED BY <1>3

(* The null pointer and the channel &ticks are no slots, Free is no CPU. *)
LEMMA NotNull ==
  /\ NULL \notin Slot /\ TicksChan \notin Slot \cup {NULL} /\ InitProc \in Slot
  /\ Free \notin CPU /\ 0 \in CPU
BY SizeAssumption DEF Slot, CPU, InitProc, TicksChan

(* A scan of the table that can end at a slot of S ends at a slot of S. *)
LEMMA FirstInSet ==
  ASSUME NEW S, S \subseteq Slot, S # {}
  PROVE  First(S) \in S
<1>1. S \subseteq Nat
  BY SizeAssumption DEF Slot
<1>2. \E x \in S : \A y \in S : x <= y
  BY <1>1, LeastNat
<1> QED BY <1>2 DEF First

(* The state userinit() leaves satisfies the invariant. *)
LEMMA InitInv ==
  ASSUME Init
  PROVE  Inv
<1> USE SizeAssumption DEF Init, Slot, CPU, InitProc
<1>1. TypeOK BY DEF TypeOK, LockOwner, Locs, ProcStates, TicksChan
<1>2. PcInv BY DEF PcInv
<1>3. ForkInv BY DEF ForkInv
<1>4. IsrInv BY DEF IsrInv
<1>5. TicksInv BY DEF TicksInv
<1>6. CpuInv BY DEF CpuInv, OneCpuPerProcess
<1>7. StackSafe BY DEF StackSafe
<1>8. FamilyInv BY DEF FamilyInv, FamilyTree, Alive
<1>9. PidInv BY DEF PidInv, SlotsAndPids
<1>10. TickWaitInv BY DEF TickWaitInv, NoLostTick
<1>11. ExitWaitInv BY DEF ExitWaitInv, NoLostExit
<1> QED BY <1>1, <1>2, <1>3, <1>4, <1>5, <1>6, <1>7, <1>8, <1>9, <1>10, <1>11 DEF Inv

(* Every wakeup leaves a process as it was or makes a sleeper RUNNABLE. *)
LEMMA WakeupMoves ==
  ASSUME NEW ch, NEW st \in [Slot -> ProcStates]
  PROVE  /\ wakeup1(ch, st) \in [Slot -> ProcStates]
         /\ \A q \in Slot : \/ wakeup1(ch, st)[q] = st[q]
                            \/ st[q] = "SLEEPING" /\ wakeup1(ch, st)[q] = "RUNNABLE"
BY DEF wakeup1, ProcStates

-----------------------------------------------------------------------------
(* fork() *)

(* fork() without a free slot. *)
LEMMA ForkNoSlotInv ==
  ASSUME Inv, NEW c \in CPU, ForkNoSlot(c)
  PROVE  Inv'
<1> USE DEF Inv
<1>1. TypeOK'
  BY SizeAssumption, BoundAssumption DEF ForkNoSlot, TypeOK, Locs, ProcStates, LockOwner
<1>2. (PcInv /\ ForkInv)'
  BY NotNull DEF ForkNoSlot, PcInv, TypeOK, ForkInv, CpuInv, OneCpuPerProcess, StackSafe
<1>3. (IsrInv /\ TicksInv)'
  BY NotNull
    DEF ForkNoSlot, TicksInv, IsrInv, TickWaitInv, PcInv, TypeOK, ForkInv, CpuInv, OneCpuPerProcess
<1>4. CpuInv'
  BY NotNull DEF ForkNoSlot, CpuInv, OneCpuPerProcess, TypeOK, ForkInv
<1>5. StackSafe'
  BY NotNull DEF ForkNoSlot, StackSafe, CpuInv, OneCpuPerProcess, TypeOK, ForkInv
<1>6. FamilyInv'
  BY NotNull DEF ForkNoSlot, FamilyInv, FamilyTree, Alive, CpuInv, TypeOK, ForkInv
<1>7. PidInv'
  BY NotNull DEF ForkNoSlot, PidInv, SlotsAndPids, TypeOK, ForkInv
<1>8. TickWaitInv'
  BY NotNull
    DEF ForkNoSlot, TickWaitInv, NoLostTick, TypeOK, CpuInv, OneCpuPerProcess, PcInv, ForkInv
<1>9. ExitWaitInv'
  BY NotNull DEF ForkNoSlot, ExitWaitInv, NoLostExit, TypeOK, CpuInv, PcInv, ForkInv
<1> QED BY <1>1, <1>2, <1>3, <1>4, <1>5, <1>6, <1>7, <1>8, <1>9

(* The new slot was UNUSED, so no other fork() works on it. *)
LEMMA allocprocInv ==
  ASSUME Inv, NEW c \in CPU, allocproc(c)
  PROVE  Inv'
<1> USE DEF Inv
<1>a. FreeSlot \in Slot /\ state[FreeSlot] = "UNUSED"
  <2> DEFINE S == {s \in Slot : state[s] = "UNUSED"}
  <2>1. S # {} /\ S \subseteq Slot BY DEF allocproc
  <2>2. First(S) \in S BY <2>1, FirstInSet
  <2> QED BY <2>2 DEF FreeSlot
<1>b. cproc[c] \in Slot /\ cproc[c] # FreeSlot /\ pc[cproc[c]] = "user"
  BY <1>a DEF allocproc, TypeOK
<1>c. \A q \in Slot : np[q] # FreeSlot
  BY <1>a, NotNull DEF ForkInv
<1>d. \A d \in CPU : cproc[d] # FreeSlot
  BY <1>a, NotNull DEF CpuInv
<1>1. TypeOK'
  BY <1>a, <1>b, <1>c, <1>d, SizeAssumption, BoundAssumption
    DEF allocproc, TypeOK, Locs, ProcStates, LockOwner
<1>2. (PcInv /\ ForkInv)'
  BY <1>a, <1>b, <1>c, <1>d, NotNull
    DEF allocproc, PcInv, TypeOK, ForkInv, CpuInv, OneCpuPerProcess, StackSafe
<1>3. (IsrInv /\ TicksInv)'
  BY <1>a, <1>b, <1>c, <1>d, NotNull
    DEF allocproc, TicksInv, IsrInv, TickWaitInv, PcInv, TypeOK, ForkInv, CpuInv, OneCpuPerProcess
<1>4. CpuInv'
  BY <1>a, <1>b, <1>c, <1>d, NotNull DEF allocproc, CpuInv, OneCpuPerProcess, TypeOK, ForkInv
<1>5. StackSafe'
  BY <1>a, <1>b, <1>c, <1>d, NotNull
    DEF allocproc, StackSafe, CpuInv, OneCpuPerProcess, TypeOK, ForkInv
<1>6. FamilyInv'
  BY <1>a, <1>b, <1>c, <1>d, NotNull
    DEF allocproc, FamilyInv, FamilyTree, Alive, CpuInv, TypeOK, ForkInv
<1>7. PidInv'
  BY <1>a, <1>b, <1>c, <1>d, NotNull DEF allocproc, PidInv, SlotsAndPids, TypeOK, ForkInv
<1>8. TickWaitInv'
  BY <1>a, <1>b, <1>c, <1>d, NotNull
    DEF allocproc, TickWaitInv, NoLostTick, TypeOK, CpuInv, OneCpuPerProcess, PcInv, ForkInv
<1>9. ExitWaitInv'
  BY <1>a, <1>b, <1>c, <1>d, NotNull
    DEF allocproc, ExitWaitInv, NoLostExit, TypeOK, CpuInv, PcInv, ForkInv
<1> QED BY <1>1, <1>2, <1>3, <1>4, <1>5, <1>6, <1>7, <1>8, <1>9

(* The stack goes to the EMBRYO slot of this fork(). *)
LEMMA KallocStackInv ==
  ASSUME Inv, NEW c \in CPU, KallocStack(c)
  PROVE  Inv'
<1> USE DEF Inv
<1>1. TypeOK'
  BY SizeAssumption, BoundAssumption DEF KallocStack, TypeOK, Locs, ProcStates, LockOwner
<1>2. (PcInv /\ ForkInv)'
  BY NotNull DEF KallocStack, PcInv, TypeOK, ForkInv, CpuInv, OneCpuPerProcess, StackSafe
<1>3. (IsrInv /\ TicksInv)'
  BY NotNull
    DEF KallocStack, TicksInv, IsrInv, TickWaitInv, PcInv, TypeOK, ForkInv, CpuInv, OneCpuPerProcess
<1>4. CpuInv'
  BY NotNull DEF KallocStack, CpuInv, OneCpuPerProcess, TypeOK, ForkInv
<1>5. StackSafe'
  BY NotNull DEF KallocStack, StackSafe, CpuInv, OneCpuPerProcess, TypeOK, ForkInv
<1>6. FamilyInv'
  BY NotNull DEF KallocStack, FamilyInv, FamilyTree, Alive, CpuInv, TypeOK, ForkInv
<1>7. PidInv'
  BY NotNull DEF KallocStack, PidInv, SlotsAndPids, TypeOK, ForkInv
<1>8. TickWaitInv'
  BY NotNull
    DEF KallocStack, TickWaitInv, NoLostTick, TypeOK, CpuInv, OneCpuPerProcess, PcInv, ForkInv
<1>9. ExitWaitInv'
  BY NotNull DEF KallocStack, ExitWaitInv, NoLostExit, TypeOK, CpuInv, PcInv, ForkInv
<1> QED BY <1>1, <1>2, <1>3, <1>4, <1>5, <1>6, <1>7, <1>8, <1>9

(* The slot given back without ptable.lock is this fork()'s own. *)
LEMMA KallocFailsInv ==
  ASSUME Inv, NEW c \in CPU, KallocFails(c)
  PROVE  Inv'
<1> USE DEF Inv
<1>1. TypeOK'
  BY SizeAssumption, BoundAssumption DEF KallocFails, TypeOK, Locs, ProcStates, LockOwner
<1>2. (PcInv /\ ForkInv)'
  BY NotNull DEF KallocFails, PcInv, TypeOK, ForkInv, CpuInv, OneCpuPerProcess, StackSafe
<1>3. (IsrInv /\ TicksInv)'
  BY NotNull
    DEF KallocFails, TicksInv, IsrInv, TickWaitInv, PcInv, TypeOK, ForkInv, CpuInv, OneCpuPerProcess
<1>4. CpuInv'
  BY NotNull DEF KallocFails, CpuInv, OneCpuPerProcess, TypeOK, ForkInv
<1>5. StackSafe'
  BY NotNull DEF KallocFails, StackSafe, CpuInv, OneCpuPerProcess, TypeOK, ForkInv
<1>6. FamilyInv'
  BY NotNull DEF KallocFails, FamilyInv, FamilyTree, Alive, CpuInv, TypeOK, ForkInv
<1>7. PidInv'
  BY NotNull DEF KallocFails, PidInv, SlotsAndPids, TypeOK, ForkInv
<1>8. TickWaitInv'
  BY NotNull
    DEF KallocFails, TickWaitInv, NoLostTick, TypeOK, CpuInv, OneCpuPerProcess, PcInv, ForkInv
<1>9. ExitWaitInv'
  BY NotNull DEF KallocFails, ExitWaitInv, NoLostExit, TypeOK, CpuInv, PcInv, ForkInv
<1> QED BY <1>1, <1>2, <1>3, <1>4, <1>5, <1>6, <1>7, <1>8, <1>9

(* The page table goes to the same slot. *)
LEMMA ForkCopyInv ==
  ASSUME Inv, NEW c \in CPU, ForkCopy(c)
  PROVE  Inv'
<1> USE DEF Inv
<1>1. TypeOK'
  BY SizeAssumption, BoundAssumption DEF ForkCopy, TypeOK, Locs, ProcStates, LockOwner
<1>2. (PcInv /\ ForkInv)'
  BY NotNull DEF ForkCopy, PcInv, TypeOK, ForkInv, CpuInv, OneCpuPerProcess, StackSafe
<1>3. (IsrInv /\ TicksInv)'
  BY NotNull
    DEF ForkCopy, TicksInv, IsrInv, TickWaitInv, PcInv, TypeOK, ForkInv, CpuInv, OneCpuPerProcess
<1>4. CpuInv'
  BY NotNull DEF ForkCopy, CpuInv, OneCpuPerProcess, TypeOK, ForkInv
<1>5. StackSafe'
  BY NotNull DEF ForkCopy, StackSafe, CpuInv, OneCpuPerProcess, TypeOK, ForkInv
<1>6. FamilyInv'
  BY NotNull DEF ForkCopy, FamilyInv, FamilyTree, Alive, CpuInv, TypeOK, ForkInv
<1>7. PidInv'
  BY NotNull DEF ForkCopy, PidInv, SlotsAndPids, TypeOK, ForkInv
<1>8. TickWaitInv'
  BY NotNull
    DEF ForkCopy, TickWaitInv, NoLostTick, TypeOK, CpuInv, OneCpuPerProcess, PcInv, ForkInv
<1>9. ExitWaitInv'
  BY NotNull DEF ForkCopy, ExitWaitInv, NoLostExit, TypeOK, CpuInv, PcInv, ForkInv
<1> QED BY <1>1, <1>2, <1>3, <1>4, <1>5, <1>6, <1>7, <1>8, <1>9

(* Again the slot is this fork()'s own, and no CPU is on its stack. *)
LEMMA CopyuvmFailsInv ==
  ASSUME Inv, NEW c \in CPU, CopyuvmFails(c)
  PROVE  Inv'
<1> USE DEF Inv
<1>1. TypeOK'
  BY SizeAssumption, BoundAssumption DEF CopyuvmFails, TypeOK, Locs, ProcStates, LockOwner
<1>2. (PcInv /\ ForkInv)'
  BY NotNull DEF CopyuvmFails, PcInv, TypeOK, ForkInv, CpuInv, OneCpuPerProcess, StackSafe
<1>3. (IsrInv /\ TicksInv)'
  BY NotNull
    DEF CopyuvmFails, TicksInv, IsrInv, TickWaitInv, PcInv, TypeOK, ForkInv, CpuInv, OneCpuPerProcess
<1>4. CpuInv'
  BY NotNull DEF CopyuvmFails, CpuInv, OneCpuPerProcess, TypeOK, ForkInv
<1>5. StackSafe'
  BY NotNull DEF CopyuvmFails, StackSafe, CpuInv, OneCpuPerProcess, TypeOK, ForkInv
<1>6. FamilyInv'
  BY NotNull DEF CopyuvmFails, FamilyInv, FamilyTree, Alive, CpuInv, TypeOK, ForkInv
<1>7. PidInv'
  BY NotNull DEF CopyuvmFails, PidInv, SlotsAndPids, TypeOK, ForkInv
<1>8. TickWaitInv'
  BY NotNull
    DEF CopyuvmFails, TickWaitInv, NoLostTick, TypeOK, CpuInv, OneCpuPerProcess, PcInv, ForkInv
<1>9. ExitWaitInv'
  BY NotNull DEF CopyuvmFails, ExitWaitInv, NoLostExit, TypeOK, CpuInv, PcInv, ForkInv
<1> QED BY <1>1, <1>2, <1>3, <1>4, <1>5, <1>6, <1>7, <1>8, <1>9

(* The child becomes RUNNABLE with stack and page table. *)
LEMMA ForkReadyInv ==
  ASSUME Inv, NEW c \in CPU, ForkReady(c)
  PROVE  Inv'
<1> USE DEF Inv
<1>1. TypeOK'
  BY SizeAssumption, BoundAssumption DEF ForkReady, TypeOK, Locs, ProcStates, LockOwner
<1>2. (PcInv /\ ForkInv)'
  BY NotNull DEF ForkReady, PcInv, TypeOK, ForkInv, CpuInv, OneCpuPerProcess, StackSafe
<1>3. (IsrInv /\ TicksInv)'
  BY NotNull
    DEF ForkReady, TicksInv, IsrInv, TickWaitInv, PcInv, TypeOK, ForkInv, CpuInv, OneCpuPerProcess
<1>4. CpuInv'
  BY NotNull DEF ForkReady, CpuInv, OneCpuPerProcess, TypeOK, ForkInv
<1>5. StackSafe'
  BY NotNull DEF ForkReady, StackSafe, CpuInv, OneCpuPerProcess, TypeOK, ForkInv
<1>6. FamilyInv'
  BY NotNull DEF ForkReady, FamilyInv, FamilyTree, Alive, CpuInv, TypeOK, ForkInv
<1>7. PidInv'
  BY NotNull DEF ForkReady, PidInv, SlotsAndPids, TypeOK, ForkInv
<1>8. TickWaitInv'
  BY NotNull
    DEF ForkReady, TickWaitInv, NoLostTick, TypeOK, CpuInv, OneCpuPerProcess, PcInv, ForkInv
<1>9. ExitWaitInv'
  BY NotNull DEF ForkReady, ExitWaitInv, NoLostExit, TypeOK, CpuInv, PcInv, ForkInv
<1> QED BY <1>1, <1>2, <1>3, <1>4, <1>5, <1>6, <1>7, <1>8, <1>9

-----------------------------------------------------------------------------
(* exit() *)

(* User code calls exit(). *)
LEMMA ExitCallInv ==
  ASSUME Inv, NEW c \in CPU, ExitCall(c)
  PROVE  Inv'
<1> USE DEF Inv
<1>1. TypeOK'
  BY SizeAssumption, BoundAssumption DEF ExitCall, TypeOK, Locs, ProcStates, LockOwner
<1>2. (PcInv /\ ForkInv)'
  BY NotNull DEF ExitCall, PcInv, TypeOK, ForkInv, CpuInv, OneCpuPerProcess, StackSafe
<1>3. (IsrInv /\ TicksInv)'
  BY NotNull
    DEF ExitCall, TicksInv, IsrInv, TickWaitInv, PcInv, TypeOK, ForkInv, CpuInv, OneCpuPerProcess
<1>4. CpuInv'
  BY NotNull DEF ExitCall, CpuInv, OneCpuPerProcess, TypeOK, ForkInv
<1>5. StackSafe'
  BY NotNull DEF ExitCall, StackSafe, CpuInv, OneCpuPerProcess, TypeOK, ForkInv
<1>6. FamilyInv'
  BY NotNull DEF ExitCall, FamilyInv, FamilyTree, Alive, CpuInv, TypeOK, ForkInv
<1>7. PidInv'
  BY NotNull DEF ExitCall, PidInv, SlotsAndPids, TypeOK, ForkInv
<1>8. TickWaitInv'
  BY NotNull
    DEF ExitCall, TickWaitInv, NoLostTick, TypeOK, CpuInv, OneCpuPerProcess, PcInv, ForkInv
<1>9. ExitWaitInv'
  BY NotNull DEF ExitCall, ExitWaitInv, NoLostExit, TypeOK, CpuInv, PcInv, ForkInv
<1> QED BY <1>1, <1>2, <1>3, <1>4, <1>5, <1>6, <1>7, <1>8, <1>9

(* A trap kills the process. *)
LEMMA UserFaultInv ==
  ASSUME Inv, NEW c \in CPU, UserFault(c)
  PROVE  Inv'
<1> USE DEF Inv
<1>1. TypeOK'
  BY SizeAssumption, BoundAssumption DEF UserFault, TypeOK, Locs, ProcStates, LockOwner
<1>2. (PcInv /\ ForkInv)'
  BY NotNull DEF UserFault, PcInv, TypeOK, ForkInv, CpuInv, OneCpuPerProcess, StackSafe
<1>3. (IsrInv /\ TicksInv)'
  BY NotNull
    DEF UserFault, TicksInv, IsrInv, TickWaitInv, PcInv, TypeOK, ForkInv, CpuInv, OneCpuPerProcess
<1>4. CpuInv'
  BY NotNull DEF UserFault, CpuInv, OneCpuPerProcess, TypeOK, ForkInv
<1>5. StackSafe'
  BY NotNull DEF UserFault, StackSafe, CpuInv, OneCpuPerProcess, TypeOK, ForkInv
<1>6. FamilyInv'
  BY NotNull DEF UserFault, FamilyInv, FamilyTree, Alive, CpuInv, TypeOK, ForkInv
<1>7. PidInv'
  BY NotNull DEF UserFault, PidInv, SlotsAndPids, TypeOK, ForkInv
<1>8. TickWaitInv'
  BY NotNull
    DEF UserFault, TickWaitInv, NoLostTick, TypeOK, CpuInv, OneCpuPerProcess, PcInv, ForkInv
<1>9. ExitWaitInv'
  BY NotNull DEF UserFault, ExitWaitInv, NoLostExit, TypeOK, CpuInv, PcInv, ForkInv
<1> QED BY <1>1, <1>2, <1>3, <1>4, <1>5, <1>6, <1>7, <1>8, <1>9

(* trap() after syscall(). *)
LEMMA SyscallReturnInv ==
  ASSUME Inv, NEW c \in CPU, SyscallReturn(c)
  PROVE  Inv'
<1> USE DEF Inv
<1>1. TypeOK'
  BY SizeAssumption, BoundAssumption DEF SyscallReturn, TypeOK, Locs, ProcStates, LockOwner
<1>2. (PcInv /\ ForkInv)'
  BY NotNull DEF SyscallReturn, PcInv, TypeOK, ForkInv, CpuInv, OneCpuPerProcess, StackSafe
<1>3. (IsrInv /\ TicksInv)'
  BY NotNull
    DEF SyscallReturn, TicksInv, IsrInv, TickWaitInv, PcInv, TypeOK, ForkInv, CpuInv, OneCpuPerProcess
<1>4. CpuInv'
  BY NotNull DEF SyscallReturn, CpuInv, OneCpuPerProcess, TypeOK, ForkInv
<1>5. StackSafe'
  BY NotNull DEF SyscallReturn, StackSafe, CpuInv, OneCpuPerProcess, TypeOK, ForkInv
<1>6. FamilyInv'
  BY NotNull DEF SyscallReturn, FamilyInv, FamilyTree, Alive, CpuInv, TypeOK, ForkInv
<1>7. PidInv'
  BY NotNull DEF SyscallReturn, PidInv, SlotsAndPids, TypeOK, ForkInv
<1>8. TickWaitInv'
  BY NotNull
    DEF SyscallReturn, TickWaitInv, NoLostTick, TypeOK, CpuInv, OneCpuPerProcess, PcInv, ForkInv
<1>9. ExitWaitInv'
  BY NotNull DEF SyscallReturn, ExitWaitInv, NoLostExit, TypeOK, CpuInv, PcInv, ForkInv
<1> QED BY <1>1, <1>2, <1>3, <1>4, <1>5, <1>6, <1>7, <1>8, <1>9

(* init must not exit. *)
LEMMA InitExitsInv ==
  ASSUME Inv, NEW c \in CPU, InitExits(c)
  PROVE  Inv'
<1> USE DEF Inv
<1>1. TypeOK'
  BY SizeAssumption, BoundAssumption DEF InitExits, TypeOK, Locs, ProcStates, LockOwner
<1>2. (PcInv /\ ForkInv)'
  BY NotNull DEF InitExits, PcInv, TypeOK, ForkInv, CpuInv, OneCpuPerProcess, StackSafe
<1>3. (IsrInv /\ TicksInv)'
  BY NotNull
    DEF InitExits, TicksInv, IsrInv, TickWaitInv, PcInv, TypeOK, ForkInv, CpuInv, OneCpuPerProcess
<1>4. CpuInv'
  BY NotNull DEF InitExits, CpuInv, OneCpuPerProcess, TypeOK, ForkInv
<1>5. StackSafe'
  BY NotNull DEF InitExits, StackSafe, CpuInv, OneCpuPerProcess, TypeOK, ForkInv
<1>6. FamilyInv'
  BY NotNull DEF InitExits, FamilyInv, FamilyTree, Alive, CpuInv, TypeOK, ForkInv
<1>7. PidInv'
  BY NotNull DEF InitExits, PidInv, SlotsAndPids, TypeOK, ForkInv
<1>8. TickWaitInv'
  BY NotNull
    DEF InitExits, TickWaitInv, NoLostTick, TypeOK, CpuInv, OneCpuPerProcess, PcInv, ForkInv
<1>9. ExitWaitInv'
  BY NotNull DEF InitExits, ExitWaitInv, NoLostExit, TypeOK, CpuInv, PcInv, ForkInv
<1> QED BY <1>1, <1>2, <1>3, <1>4, <1>5, <1>6, <1>7, <1>8, <1>9

(* Nothing happens after panic(). *)
LEMMA PanickedInv ==
  ASSUME Inv, NEW c \in CPU, Panicked(c)
  PROVE  Inv'
<1> USE DEF Inv
<1>1. TypeOK'
  BY SizeAssumption, BoundAssumption
    DEF Panicked, procvars, TypeOK, Locs, ProcStates, LockOwner
<1>2. (PcInv /\ ForkInv)'
  BY NotNull
    DEF Panicked, procvars, PcInv, TypeOK, ForkInv, CpuInv, OneCpuPerProcess, StackSafe
<1>3. (IsrInv /\ TicksInv)'
  BY NotNull
    DEF Panicked, procvars, TicksInv, IsrInv, TickWaitInv, PcInv, TypeOK, ForkInv, CpuInv, OneCpuPerProcess
<1>4. CpuInv'
  BY NotNull DEF Panicked, procvars, CpuInv, OneCpuPerProcess, TypeOK, ForkInv
<1>5. StackSafe'
  BY NotNull DEF Panicked, procvars, StackSafe, CpuInv, OneCpuPerProcess, TypeOK, ForkInv
<1>6. FamilyInv'
  BY NotNull DEF Panicked, procvars, FamilyInv, FamilyTree, Alive, CpuInv, TypeOK, ForkInv
<1>7. PidInv'
  BY NotNull DEF Panicked, procvars, PidInv, SlotsAndPids, TypeOK, ForkInv
<1>8. TickWaitInv'
  BY NotNull
    DEF Panicked, procvars, TickWaitInv, NoLostTick, TypeOK, CpuInv, OneCpuPerProcess, PcInv, ForkInv
<1>9. ExitWaitInv'
  BY NotNull DEF Panicked, procvars, ExitWaitInv, NoLostExit, TypeOK, CpuInv, PcInv, ForkInv
<1> QED BY <1>1, <1>2, <1>3, <1>4, <1>5, <1>6, <1>7, <1>8, <1>9

(* exit() up to sched(): no CPU holds ptable.lock, so every process on a    *)
(* CPU is RUNNING and no wakeup concerns one.                               *)
LEMMA ExitInv ==
  ASSUME Inv, NEW c \in CPU, Exit(c)
  PROVE  Inv'
<1> USE DEF Inv
<1> DEFINE p == cproc[c]
<1>a. /\ p \in Slot /\ state[p] = "RUNNING" /\ ptlock = Free /\ pc[p] = "exit" /\ ptlock' = c
  BY DEF Exit, TypeOK
<1>b. /\ state' \in [Slot -> ProcStates] /\ state'[p] = "ZOMBIE"
      /\ \A q \in Slot \ {p} : \/ state'[q] = state[q]
                               \/ state[q] = "SLEEPING" /\ state'[q] = "RUNNABLE"
  <2>1. /\ ExitWakeups(p) \in [Slot -> ProcStates]
        /\ \A q \in Slot : \/ ExitWakeups(p)[q] = state[q]
                           \/ state[q] = "SLEEPING" /\ ExitWakeups(p)[q] = "RUNNABLE"
    BY WakeupMoves DEF ExitWakeups, TypeOK
  <2> QED BY <1>a, <2>1 DEF Exit, ProcStates
<1>c. parent' \in [Slot -> Slot \cup {NULL}]
  BY SizeAssumption DEF Exit, Adopt, InitProc, Slot, TypeOK
<1>d. \A d \in CPU : cproc[d] # NULL => state[cproc[d]] = "RUNNING"
  BY <1>a, NotNull DEF CpuInv, OneCpuPerProcess
<1>e. /\ p # InitProc
      /\ \A q \in Slot : parent'[q] = IF parent[q] = p THEN InitProc ELSE parent[q]
  BY DEF Exit, Adopt, Children
<1>f. \A q \in Slot \ {p} : state'[q] = "SLEEPING" =>
        /\ chan[q] # parent[p]
        /\ (\E z \in Slot : parent[z] = p /\ state[z] = "ZOMBIE") => chan[q] # InitProc
  BY <1>a DEF Exit, ExitWakeups, Children, wakeup1
<1>1. TypeOK'
  BY <1>a, <1>b, <1>c, <1>d, <1>e, <1>f, SizeAssumption, BoundAssumption
    DEF Exit, TypeOK, Locs, ProcStates, LockOwner
<1>2. (PcInv /\ ForkInv)'
  BY <1>a, <1>b, <1>c, <1>d, <1>e, <1>f, NotNull
    DEF Exit, PcInv, TypeOK, ForkInv, CpuInv, OneCpuPerProcess, StackSafe
<1>3. (IsrInv /\ TicksInv)'
  BY <1>a, <1>b, <1>c, <1>d, <1>e, <1>f, NotNull
    DEF Exit, TicksInv, IsrInv, TickWaitInv, PcInv, TypeOK, ForkInv, CpuInv, OneCpuPerProcess
<1>4. CpuInv'
  BY <1>a, <1>b, <1>c, <1>d, <1>e, <1>f, NotNull
    DEF Exit, CpuInv, OneCpuPerProcess, TypeOK, ForkInv
<1>5. StackSafe'
  BY <1>a, <1>b, <1>c, <1>d, <1>e, <1>f, NotNull
    DEF Exit, StackSafe, CpuInv, OneCpuPerProcess, TypeOK, ForkInv
<1>6. FamilyInv'
  BY <1>a, <1>b, <1>c, <1>d, <1>e, <1>f, NotNull
    DEF Exit, FamilyInv, FamilyTree, Alive, CpuInv, TypeOK, ForkInv
<1>7. PidInv'
  BY <1>a, <1>b, <1>c, <1>d, <1>e, <1>f, NotNull
    DEF Exit, PidInv, SlotsAndPids, TypeOK, ForkInv
<1>8. TickWaitInv'
  BY <1>a, <1>b, <1>c, <1>d, <1>e, <1>f, NotNull
    DEF Exit, TickWaitInv, NoLostTick, TypeOK, CpuInv, OneCpuPerProcess, PcInv, ForkInv
<1>9. ExitWaitInv'
  BY <1>a, <1>b, <1>c, <1>d, <1>e, <1>f, NotNull
    DEF Exit, ExitWaitInv, NoLostExit, FamilyInv, TypeOK, CpuInv, PcInv, ForkInv
<1> QED BY <1>1, <1>2, <1>3, <1>4, <1>5, <1>6, <1>7, <1>8, <1>9

-----------------------------------------------------------------------------
(* wait() and procstat() *)

(* No CPU is on the stack of the zombie that is freed: it would hold        *)
(* ptable.lock.                                                             *)
LEMMA ReapInv ==
  ASSUME Inv, NEW c \in CPU, NEW l \in {"waiting", "pstat"}, ScanEntry(c, l),
         NEW Z \in SUBSET {q \in Slot : state[q] = "ZOMBIE"}, Reap(c, Z)
  PROVE  Inv'
<1> USE DEF Inv
<1>a. /\ cproc[c] \in Slot /\ state[cproc[c]] = "RUNNING"
      /\ pc[cproc[c]] \in {"user", "waiting", "pstat"} /\ ptlock \in {Free, c}
  BY DEF ScanEntry, TypeOK
<1>b. \A d \in CPU : cproc[d] # NULL => state[cproc[d]] = "RUNNING"
  BY <1>a, NotNull DEF CpuInv, OneCpuPerProcess
<1>c. tickslock # c /\ (c = 0 => isr = "off")
  BY <1>a, NotNull DEF ScanEntry, TicksInv, IsrInv, TypeOK
<1>d. First(Z) \in Slot /\ state[First(Z)] = "ZOMBIE"
  <2>1. First(Z) \in Z BY FirstInSet DEF Reap
  <2> QED BY <2>1
<1>1. TypeOK'
  BY <1>a, <1>b, <1>c, <1>d, SizeAssumption, BoundAssumption
    DEF Reap, TypeOK, Locs, ProcStates, LockOwner
<1>2. (PcInv /\ ForkInv)'
  BY <1>a, <1>b, <1>c, <1>d, NotNull
    DEF Reap, PcInv, TypeOK, ForkInv, CpuInv, OneCpuPerProcess, StackSafe
<1>3. (IsrInv /\ TicksInv)'
  BY <1>a, <1>b, <1>c, <1>d, NotNull
    DEF Reap, TicksInv, IsrInv, TickWaitInv, PcInv, TypeOK, ForkInv, CpuInv, OneCpuPerProcess
<1>4. CpuInv'
  BY <1>a, <1>b, <1>c, <1>d, NotNull DEF Reap, CpuInv, OneCpuPerProcess, TypeOK, ForkInv
<1>5. StackSafe'
  BY <1>a, <1>b, <1>c, <1>d, NotNull
    DEF Reap, StackSafe, CpuInv, OneCpuPerProcess, TypeOK, ForkInv
<1>6. FamilyInv'
  BY <1>a, <1>b, <1>c, <1>d, NotNull
    DEF Reap, FamilyInv, FamilyTree, Alive, CpuInv, TypeOK, ForkInv
<1>7. PidInv'
  BY <1>a, <1>b, <1>c, <1>d, NotNull DEF Reap, PidInv, SlotsAndPids, TypeOK, ForkInv
<1>8. TickWaitInv'
  BY <1>a, <1>b, <1>c, <1>d, NotNull
    DEF Reap, TickWaitInv, NoLostTick, TypeOK, CpuInv, OneCpuPerProcess, PcInv, ForkInv
<1>9. ExitWaitInv'
  BY <1>a, <1>b, <1>c, <1>d, NotNull
    DEF Reap, ExitWaitInv, NoLostExit, TypeOK, CpuInv, PcInv, ForkInv
<1> QED BY <1>1, <1>2, <1>3, <1>4, <1>5, <1>6, <1>7, <1>8, <1>9

(* The call returns -1. *)
LEMMA GiveUpInv ==
  ASSUME Inv, NEW c \in CPU, NEW l \in {"waiting", "pstat"}, ScanEntry(c, l),
         NEW Z \in SUBSET {q \in Slot : state[q] = "ZOMBIE"}, GiveUp(c, Z)
  PROVE  Inv'
<1> USE DEF Inv
<1>a. /\ cproc[c] \in Slot /\ state[cproc[c]] = "RUNNING"
      /\ pc[cproc[c]] \in {"user", "waiting", "pstat"} /\ ptlock \in {Free, c}
  BY DEF ScanEntry, TypeOK
<1>b. \A d \in CPU : cproc[d] # NULL => state[cproc[d]] = "RUNNING"
  BY <1>a, NotNull DEF CpuInv, OneCpuPerProcess
<1>c. tickslock # c /\ (c = 0 => isr = "off")
  BY <1>a, NotNull DEF ScanEntry, TicksInv, IsrInv, TypeOK
<1>1. TypeOK'
  BY <1>a, <1>b, <1>c, SizeAssumption, BoundAssumption
    DEF GiveUp, TypeOK, Locs, ProcStates, LockOwner
<1>2. (PcInv /\ ForkInv)'
  BY <1>a, <1>b, <1>c, NotNull
    DEF GiveUp, PcInv, TypeOK, ForkInv, CpuInv, OneCpuPerProcess, StackSafe
<1>3. (IsrInv /\ TicksInv)'
  BY <1>a, <1>b, <1>c, NotNull
    DEF GiveUp, TicksInv, IsrInv, TickWaitInv, PcInv, TypeOK, ForkInv, CpuInv, OneCpuPerProcess
<1>4. CpuInv'
  BY <1>a, <1>b, <1>c, NotNull DEF GiveUp, CpuInv, OneCpuPerProcess, TypeOK, ForkInv
<1>5. StackSafe'
  BY <1>a, <1>b, <1>c, NotNull DEF GiveUp, StackSafe, CpuInv, OneCpuPerProcess, TypeOK, ForkInv
<1>6. FamilyInv'
  BY <1>a, <1>b, <1>c, NotNull
    DEF GiveUp, FamilyInv, FamilyTree, Alive, CpuInv, TypeOK, ForkInv
<1>7. PidInv'
  BY <1>a, <1>b, <1>c, NotNull DEF GiveUp, PidInv, SlotsAndPids, TypeOK, ForkInv
<1>8. TickWaitInv'
  BY <1>a, <1>b, <1>c, NotNull
    DEF GiveUp, TickWaitInv, NoLostTick, TypeOK, CpuInv, OneCpuPerProcess, PcInv, ForkInv
<1>9. ExitWaitInv'
  BY <1>a, <1>b, <1>c, NotNull
    DEF GiveUp, ExitWaitInv, NoLostExit, TypeOK, CpuInv, PcInv, ForkInv
<1> QED BY <1>1, <1>2, <1>3, <1>4, <1>5, <1>6, <1>7, <1>8, <1>9

(* sleep(curproc, &ptable.lock). *)
LEMMA SleepOnSelfInv ==
  ASSUME Inv, NEW c \in CPU, NEW l \in {"waiting", "pstat"}, ScanEntry(c, l),
         NEW Z \in SUBSET {q \in Slot : state[q] = "ZOMBIE"}, NEW n \in Nat,
         \A q \in Slot : parent[q] = cproc[c] /\ state[q] = "ZOMBIE"
            => q \in Z \/ (l = "pstat" /\ pid[q] # n), SleepOnSelf(c, Z, l, n)
  PROVE  Inv'
<1> USE DEF Inv
<1>a. /\ cproc[c] \in Slot /\ state[cproc[c]] = "RUNNING"
      /\ pc[cproc[c]] \in {"user", "waiting", "pstat"} /\ ptlock \in {Free, c}
  BY DEF ScanEntry, TypeOK
<1>b. \A d \in CPU : cproc[d] # NULL => state[cproc[d]] = "RUNNING"
  BY <1>a, NotNull DEF CpuInv, OneCpuPerProcess
<1>c. tickslock # c /\ (c = 0 => isr = "off")
  BY <1>a, NotNull DEF ScanEntry, TicksInv, IsrInv, TypeOK
<1>1. TypeOK'
  BY <1>a, <1>b, <1>c, SizeAssumption, BoundAssumption
    DEF SleepOnSelf, TypeOK, Locs, ProcStates, LockOwner
<1>2. (PcInv /\ ForkInv)'
  BY <1>a, <1>b, <1>c, NotNull
    DEF SleepOnSelf, PcInv, TypeOK, ForkInv, CpuInv, OneCpuPerProcess, StackSafe
<1>3. (IsrInv /\ TicksInv)'
  BY <1>a, <1>b, <1>c, NotNull
    DEF SleepOnSelf, TicksInv, IsrInv, TickWaitInv, PcInv, TypeOK, ForkInv, CpuInv, OneCpuPerProcess
<1>4. CpuInv'
  BY <1>a, <1>b, <1>c, NotNull DEF SleepOnSelf, CpuInv, OneCpuPerProcess, TypeOK, ForkInv
<1>5. StackSafe'
  BY <1>a, <1>b, <1>c, NotNull
    DEF SleepOnSelf, StackSafe, CpuInv, OneCpuPerProcess, TypeOK, ForkInv
<1>6. FamilyInv'
  BY <1>a, <1>b, <1>c, NotNull
    DEF SleepOnSelf, FamilyInv, FamilyTree, Alive, CpuInv, TypeOK, ForkInv
<1>7. PidInv'
  BY <1>a, <1>b, <1>c, NotNull DEF SleepOnSelf, PidInv, SlotsAndPids, TypeOK, ForkInv
<1>8. TickWaitInv'
  BY <1>a, <1>b, <1>c, NotNull
    DEF SleepOnSelf, TickWaitInv, NoLostTick, TypeOK, CpuInv, OneCpuPerProcess, PcInv, ForkInv
<1>9. ExitWaitInv'
  BY <1>a, <1>b, <1>c, NotNull
    DEF SleepOnSelf, ExitWaitInv, NoLostExit, TypeOK, CpuInv, PcInv, ForkInv
<1> QED BY <1>1, <1>2, <1>3, <1>4, <1>5, <1>6, <1>7, <1>8, <1>9

(* wait() *)
LEMMA WaitInv ==
  ASSUME Inv, NEW c \in CPU, Wait(c)
  PROVE  Inv'
<1> DEFINE zs == {q \in Children(cproc[c]) : state[q] = "ZOMBIE"}
<1>1. /\ zs \in SUBSET {q \in Slot : state[q] = "ZOMBIE"}
      /\ \A q \in Slot : parent[q] = cproc[c] /\ state[q] = "ZOMBIE" => q \in zs
  BY DEF Children
<1>2. ScanEntry(c, "waiting") /\ (Reap(c, zs) \/ GiveUp(c, zs) \/ SleepOnSelf(c, zs, "waiting", 0))
  BY DEF Wait
<1> HIDE DEF zs
<1>3. CASE Reap(c, zs) BY <1>1, <1>2, <1>3, ReapInv
<1>4. CASE GiveUp(c, zs) BY <1>1, <1>2, <1>4, GiveUpInv
<1>5. CASE SleepOnSelf(c, zs, "waiting", 0) BY <1>1, <1>2, <1>5, SleepOnSelfInv
<1> QED BY <1>2, <1>3, <1>4, <1>5

(* procstat() *)
LEMMA ProcstatInv ==
  ASSUME Inv, NEW c \in CPU, NEW n \in Nat, Procstat(c, n)
  PROVE  Inv'
<1> DEFINE zs == {q \in Children(cproc[c]) : state[q] = "ZOMBIE" /\ pid[q] = n}
<1>1. /\ zs \in SUBSET {q \in Slot : state[q] = "ZOMBIE"}
      /\ \A q \in Slot : parent[q] = cproc[c] /\ state[q] = "ZOMBIE" => q \in zs \/ pid[q] # n
  BY DEF Children
<1>2. ScanEntry(c, "pstat") /\ (Reap(c, zs) \/ GiveUp(c, zs) \/ SleepOnSelf(c, zs, "pstat", n))
  BY DEF Procstat
<1> HIDE DEF zs
<1>3. CASE Reap(c, zs) BY <1>1, <1>2, <1>3, ReapInv
<1>4. CASE GiveUp(c, zs) BY <1>1, <1>2, <1>4, GiveUpInv
<1>5. CASE SleepOnSelf(c, zs, "pstat", n) BY <1>1, <1>2, <1>5, SleepOnSelfInv
<1> QED BY <1>2, <1>3, <1>4, <1>5

-----------------------------------------------------------------------------
(* sys_sleep(), kill() and ps() *)

(* sys_sleep() from the system call. *)
LEMMA SleepCallInv ==
  ASSUME Inv, NEW c \in CPU, NEW n \in Int, SleepCall(c, n)
  PROVE  Inv'
<1> USE DEF Inv
<1>a. Deadline(n) \in Nat
  BY BoundAssumption DEF Deadline, TypeOK
<1>1. TypeOK'
  BY <1>a, SizeAssumption
    DEF SleepCall, SleepTest, KeepTickslock, TypeOK, Locs, ProcStates, LockOwner
<1>2. (PcInv /\ ForkInv)'
  BY NotNull
    DEF SleepCall, SleepTest, KeepTickslock, PcInv, TypeOK, ForkInv, CpuInv, OneCpuPerProcess, StackSafe
<1>3. (IsrInv /\ TicksInv)'
  BY NotNull
    DEF SleepCall, SleepTest, KeepTickslock, TicksInv, IsrInv, TickWaitInv, PcInv, TypeOK, ForkInv, CpuInv, OneCpuPerProcess
<1>4. CpuInv'
  BY NotNull DEF SleepCall, SleepTest, KeepTickslock, CpuInv, OneCpuPerProcess, TypeOK, ForkInv
<1>5. StackSafe'
  BY NotNull
    DEF SleepCall, SleepTest, KeepTickslock, StackSafe, CpuInv, OneCpuPerProcess, TypeOK, ForkInv
<1>6. FamilyInv'
  BY NotNull
    DEF SleepCall, SleepTest, KeepTickslock, FamilyInv, FamilyTree, Alive, CpuInv, TypeOK, ForkInv
<1>7. PidInv'
  BY NotNull DEF SleepCall, SleepTest, KeepTickslock, PidInv, SlotsAndPids, TypeOK, ForkInv
<1>8. TickWaitInv'
  BY <1>a, NotNull
    DEF SleepCall, SleepTest, KeepTickslock, TickWaitInv, NoLostTick, TypeOK, CpuInv, OneCpuPerProcess, PcInv, ForkInv
<1>9. ExitWaitInv'
  BY NotNull
    DEF SleepCall, SleepTest, KeepTickslock, ExitWaitInv, NoLostExit, TypeOK, CpuInv, PcInv, ForkInv
<1> QED BY <1>1, <1>2, <1>3, <1>4, <1>5, <1>6, <1>7, <1>8, <1>9

(* sys_sleep() after a wakeup. *)
LEMMA SleepAgainInv ==
  ASSUME Inv, NEW c \in CPU, SleepAgain(c)
  PROVE  Inv'
<1> USE DEF Inv
<1>1. TypeOK'
  BY SizeAssumption, BoundAssumption
    DEF SleepAgain, SleepTest, KeepTickslock, TypeOK, Locs, ProcStates, LockOwner
<1>2. (PcInv /\ ForkInv)'
  BY NotNull
    DEF SleepAgain, SleepTest, KeepTickslock, PcInv, TypeOK, ForkInv, CpuInv, OneCpuPerProcess, StackSafe
<1>3. (IsrInv /\ TicksInv)'
  BY NotNull
    DEF SleepAgain, SleepTest, KeepTickslock, TicksInv, IsrInv, TickWaitInv, PcInv, TypeOK, ForkInv, CpuInv, OneCpuPerProcess
<1>4. CpuInv'
  BY NotNull
    DEF SleepAgain, SleepTest, KeepTickslock, CpuInv, OneCpuPerProcess, TypeOK, ForkInv
<1>5. StackSafe'
  BY NotNull
    DEF SleepAgain, SleepTest, KeepTickslock, StackSafe, CpuInv, OneCpuPerProcess, TypeOK, ForkInv
<1>6. FamilyInv'
  BY NotNull
    DEF SleepAgain, SleepTest, KeepTickslock, FamilyInv, FamilyTree, Alive, CpuInv, TypeOK, ForkInv
<1>7. PidInv'
  BY NotNull DEF SleepAgain, SleepTest, KeepTickslock, PidInv, SlotsAndPids, TypeOK, ForkInv
<1>8. TickWaitInv'
  BY NotNull
    DEF SleepAgain, SleepTest, KeepTickslock, TickWaitInv, NoLostTick, TypeOK, CpuInv, OneCpuPerProcess, PcInv, ForkInv
<1>9. ExitWaitInv'
  BY NotNull
    DEF SleepAgain, SleepTest, KeepTickslock, ExitWaitInv, NoLostExit, TypeOK, CpuInv, PcInv, ForkInv
<1> QED BY <1>1, <1>2, <1>3, <1>4, <1>5, <1>6, <1>7, <1>8, <1>9

(* sleep(&ticks, &tickslock) releases tickslock before sched(). *)
LEMMA SleepOnTicksInv ==
  ASSUME Inv, NEW c \in CPU, SleepOnTicks(c)
  PROVE  Inv'
<1> USE DEF Inv
<1>1. TypeOK'
  BY SizeAssumption, BoundAssumption
    DEF SleepOnTicks, ReleaseLk, TypeOK, Locs, ProcStates, LockOwner
<1>2. (PcInv /\ ForkInv)'
  BY NotNull
    DEF SleepOnTicks, ReleaseLk, PcInv, TypeOK, ForkInv, CpuInv, OneCpuPerProcess, StackSafe
<1>3. (IsrInv /\ TicksInv)'
  BY NotNull
    DEF SleepOnTicks, ReleaseLk, TicksInv, IsrInv, TickWaitInv, PcInv, TypeOK, ForkInv, CpuInv, OneCpuPerProcess
<1>4. CpuInv'
  BY NotNull DEF SleepOnTicks, ReleaseLk, CpuInv, OneCpuPerProcess, TypeOK, ForkInv
<1>5. StackSafe'
  BY NotNull DEF SleepOnTicks, ReleaseLk, StackSafe, CpuInv, OneCpuPerProcess, TypeOK, ForkInv
<1>6. FamilyInv'
  BY NotNull DEF SleepOnTicks, ReleaseLk, FamilyInv, FamilyTree, Alive, CpuInv, TypeOK, ForkInv
<1>7. PidInv'
  BY NotNull DEF SleepOnTicks, ReleaseLk, PidInv, SlotsAndPids, TypeOK, ForkInv
<1>8. TickWaitInv'
  BY NotNull
    DEF SleepOnTicks, ReleaseLk, TickWaitInv, NoLostTick, TypeOK, CpuInv, OneCpuPerProcess, PcInv, ForkInv
<1>9. ExitWaitInv'
  BY NotNull
    DEF SleepOnTicks, ReleaseLk, ExitWaitInv, NoLostExit, TypeOK, CpuInv, PcInv, ForkInv
<1> QED BY <1>1, <1>2, <1>3, <1>4, <1>5, <1>6, <1>7, <1>8, <1>9

(* sleep() returns. *)
LEMMA WokenUpInv ==
  ASSUME Inv, NEW c \in CPU, WokenUp(c)
  PROVE  Inv'
<1> USE DEF Inv
<1>1. TypeOK'
  BY SizeAssumption, BoundAssumption DEF WokenUp, TypeOK, Locs, ProcStates, LockOwner
<1>2. (PcInv /\ ForkInv)'
  BY NotNull DEF WokenUp, PcInv, TypeOK, ForkInv, CpuInv, OneCpuPerProcess, StackSafe
<1>3. (IsrInv /\ TicksInv)'
  BY NotNull
    DEF WokenUp, TicksInv, IsrInv, TickWaitInv, PcInv, TypeOK, ForkInv, CpuInv, OneCpuPerProcess
<1>4. CpuInv'
  BY NotNull DEF WokenUp, CpuInv, OneCpuPerProcess, TypeOK, ForkInv
<1>5. StackSafe'
  BY NotNull DEF WokenUp, StackSafe, CpuInv, OneCpuPerProcess, TypeOK, ForkInv
<1>6. FamilyInv'
  BY NotNull DEF WokenUp, FamilyInv, FamilyTree, Alive, CpuInv, TypeOK, ForkInv
<1>7. PidInv'
  BY NotNull DEF WokenUp, PidInv, SlotsAndPids, TypeOK, ForkInv
<1>8. TickWaitInv'
  BY NotNull
    DEF WokenUp, TickWaitInv, NoLostTick, TypeOK, CpuInv, OneCpuPerProcess, PcInv, ForkInv
<1>9. ExitWaitInv'
  BY NotNull DEF WokenUp, ExitWaitInv, NoLostExit, TypeOK, CpuInv, PcInv, ForkInv
<1> QED BY <1>1, <1>2, <1>3, <1>4, <1>5, <1>6, <1>7, <1>8, <1>9

(* kill() holds ptable.lock, so the sleeper it wakes is on no CPU. *)
LEMMA KillInv ==
  ASSUME Inv, NEW c \in CPU, NEW n \in Nat, Kill(c, n)
  PROVE  Inv'
<1> USE DEF Inv
<1> DEFINE hit == {q \in Slot : pid[q] = n}
<1>a. /\ state' \in [Slot -> ProcStates] /\ killed' \in [Slot -> BOOLEAN]
      /\ \A q \in Slot : \/ state'[q] = state[q]
                         \/ state[q] = "SLEEPING" /\ state'[q] = "RUNNABLE"
  <2>1. CASE hit = {}
    BY <2>1 DEF Kill, TypeOK
  <2>2. CASE hit # {}
    <3>1. First(hit) \in Slot BY <2>2, FirstInSet
    <3> QED BY <2>2, <3>1 DEF Kill, TypeOK, ProcStates
  <2> QED BY <2>1, <2>2
<1>b. cproc[c] \in Slot /\ ptlock = Free /\ pc[cproc[c]] = "user" /\ pc' = [pc EXCEPT ![cproc[c]] = "ret"]
  BY DEF Kill, TypeOK
<1>c. \A d \in CPU : cproc[d] # NULL => state[cproc[d]] = "RUNNING"
  BY <1>b, NotNull DEF CpuInv, OneCpuPerProcess
<1>1. TypeOK'
  <2>1. pc' \in [Slot -> Locs] BY <1>b DEF TypeOK, Locs
  <2>2. UNCHANGED <<lockvars, timevars, memvars, idvars, chan, cproc, np, arg>> BY DEF Kill
  <2> QED BY <1>a, <2>1, <2>2 DEF TypeOK
<1>2. (PcInv /\ ForkInv)'
  BY <1>a, <1>b, <1>c, NotNull
    DEF Kill, PcInv, TypeOK, ForkInv, CpuInv, OneCpuPerProcess, StackSafe
<1>3. (IsrInv /\ TicksInv)'
  BY <1>a, <1>b, <1>c, NotNull
    DEF Kill, TicksInv, IsrInv, TickWaitInv, PcInv, TypeOK, ForkInv, CpuInv, OneCpuPerProcess
<1>4. CpuInv'
  BY <1>a, <1>b, <1>c, NotNull DEF Kill, CpuInv, OneCpuPerProcess, TypeOK, ForkInv
<1>5. StackSafe'
  BY <1>a, <1>b, <1>c, NotNull DEF Kill, StackSafe, CpuInv, OneCpuPerProcess, TypeOK, ForkInv
<1>6. FamilyInv'
  BY <1>a, <1>b, <1>c, NotNull DEF Kill, FamilyInv, FamilyTree, Alive, CpuInv, TypeOK, ForkInv
<1>7. PidInv'
  BY <1>a, <1>b, <1>c, NotNull, SMTT(60) DEF Kill, PidInv, SlotsAndPids, TypeOK, ForkInv
<1>8. TickWaitInv'
  BY <1>a, <1>b, <1>c, NotNull
    DEF Kill, TickWaitInv, NoLostTick, TypeOK, CpuInv, OneCpuPerProcess, PcInv, ForkInv
<1>9. ExitWaitInv'
  BY <1>a, <1>b, <1>c, NotNull
    DEF Kill, ExitWaitInv, NoLostExit, TypeOK, CpuInv, PcInv, ForkInv
<1> QED BY <1>1, <1>2, <1>3, <1>4, <1>5, <1>6, <1>7, <1>8, <1>9

(* ps() changes only end times. *)
LEMMA PsInv ==
  ASSUME Inv, NEW c \in CPU, Ps(c)
  PROVE  Inv'
<1> USE DEF Inv
<1>1. TypeOK'
  BY SizeAssumption, BoundAssumption DEF Ps, TypeOK, Locs, ProcStates, LockOwner
<1>2. (PcInv /\ ForkInv)'
  BY NotNull DEF Ps, PcInv, TypeOK, ForkInv, CpuInv, OneCpuPerProcess, StackSafe
<1>3. (IsrInv /\ TicksInv)'
  BY NotNull
    DEF Ps, TicksInv, IsrInv, TickWaitInv, PcInv, TypeOK, ForkInv, CpuInv, OneCpuPerProcess
<1>4. CpuInv'
  BY NotNull DEF Ps, CpuInv, OneCpuPerProcess, TypeOK, ForkInv
<1>5. StackSafe'
  BY NotNull DEF Ps, StackSafe, CpuInv, OneCpuPerProcess, TypeOK, ForkInv
<1>6. FamilyInv'
  BY NotNull DEF Ps, FamilyInv, FamilyTree, Alive, CpuInv, TypeOK, ForkInv
<1>7. PidInv'
  BY NotNull DEF Ps, PidInv, SlotsAndPids, TypeOK, ForkInv
<1>8. TickWaitInv'
  BY NotNull DEF Ps, TickWaitInv, NoLostTick, TypeOK, CpuInv, OneCpuPerProcess, PcInv, ForkInv
<1>9. ExitWaitInv'
  BY NotNull DEF Ps, ExitWaitInv, NoLostExit, TypeOK, CpuInv, PcInv, ForkInv
<1> QED BY <1>1, <1>2, <1>3, <1>4, <1>5, <1>6, <1>7, <1>8, <1>9

-----------------------------------------------------------------------------
(* The timer interrupt and yield() *)

(* The tick takes tickslock. *)
LEMMA TickInv ==
  ASSUME Inv, Tick
  PROVE  Inv'
<1> USE DEF Inv
<1>a. 0 \in CPU BY SizeAssumption DEF CPU
<1>1. TypeOK'
  BY <1>a, SizeAssumption, BoundAssumption
    DEF Tick, Interruptible, TypeOK, Locs, ProcStates, LockOwner
<1>2. (PcInv /\ ForkInv)'
  BY <1>a, NotNull
    DEF Tick, Interruptible, PcInv, TypeOK, ForkInv, CpuInv, OneCpuPerProcess, StackSafe
<1>3. (IsrInv /\ TicksInv)'
  BY <1>a, NotNull
    DEF Tick, Interruptible, TicksInv, IsrInv, TickWaitInv, PcInv, TypeOK, ForkInv, CpuInv, OneCpuPerProcess
<1>4. CpuInv'
  BY <1>a, NotNull DEF Tick, Interruptible, CpuInv, OneCpuPerProcess, TypeOK, ForkInv
<1>5. StackSafe'
  BY <1>a, NotNull
    DEF Tick, Interruptible, StackSafe, CpuInv, OneCpuPerProcess, TypeOK, ForkInv
<1>6. FamilyInv'
  BY <1>a, NotNull
    DEF Tick, Interruptible, FamilyInv, FamilyTree, Alive, CpuInv, TypeOK, ForkInv
<1>7. PidInv'
  BY <1>a, NotNull DEF Tick, Interruptible, PidInv, SlotsAndPids, TypeOK, ForkInv
<1>8. TickWaitInv'
  BY <1>a, NotNull
    DEF Tick, Interruptible, TickWaitInv, NoLostTick, TypeOK, CpuInv, OneCpuPerProcess, PcInv, ForkInv
<1>9. ExitWaitInv'
  BY <1>a, NotNull
    DEF Tick, Interruptible, ExitWaitInv, NoLostExit, TypeOK, CpuInv, PcInv, ForkInv
<1> QED BY <1>1, <1>2, <1>3, <1>4, <1>5, <1>6, <1>7, <1>8, <1>9

(* wakeup(&ticks) finds only sleepers that are on no CPU. *)
LEMMA TickWakeupInv ==
  ASSUME Inv, TickWakeup
  PROVE  Inv'
<1> USE DEF Inv
<1>a. /\ state' \in [Slot -> ProcStates]
      /\ \A q \in Slot : \/ state'[q] = state[q]
                         \/ state[q] = "SLEEPING" /\ state'[q] = "RUNNABLE"
  BY WakeupMoves DEF TickWakeup, TypeOK
<1>c. \A q \in Slot : state'[q] = "SLEEPING" => chan[q] # TicksChan
  BY DEF TickWakeup, wakeup1
<1>b. \A d \in CPU : cproc[d] # NULL => state[cproc[d]] = "RUNNING"
  BY NotNull DEF TickWakeup, CpuInv, OneCpuPerProcess
<1>1. TypeOK'
  BY <1>a, <1>b, <1>c, SizeAssumption, BoundAssumption
    DEF TickWakeup, TypeOK, Locs, ProcStates, LockOwner
<1>2. (PcInv /\ ForkInv)'
  BY <1>a, <1>b, <1>c, NotNull
    DEF TickWakeup, PcInv, TypeOK, ForkInv, CpuInv, OneCpuPerProcess, StackSafe
<1>3. (IsrInv /\ TicksInv)'
  BY <1>a, <1>b, <1>c, NotNull
    DEF TickWakeup, TicksInv, IsrInv, TickWaitInv, PcInv, TypeOK, ForkInv, CpuInv, OneCpuPerProcess
<1>4. CpuInv'
  BY <1>a, <1>b, <1>c, NotNull DEF TickWakeup, CpuInv, OneCpuPerProcess, TypeOK, ForkInv
<1>5. StackSafe'
  BY <1>a, <1>b, <1>c, NotNull
    DEF TickWakeup, StackSafe, CpuInv, OneCpuPerProcess, TypeOK, ForkInv
<1>6. FamilyInv'
  BY <1>a, <1>b, <1>c, NotNull
    DEF TickWakeup, FamilyInv, FamilyTree, Alive, CpuInv, TypeOK, ForkInv
<1>7. PidInv'
  BY <1>a, <1>b, <1>c, NotNull, SMTT(60) DEF TickWakeup, PidInv, SlotsAndPids, TypeOK, ForkInv
<1>8. TickWaitInv'
  BY <1>a, <1>b, <1>c, NotNull
    DEF TickWakeup, TickWaitInv, NoLostTick, IsrInv, TypeOK, CpuInv, OneCpuPerProcess, PcInv, ForkInv
<1>9. ExitWaitInv'
  BY <1>a, <1>b, <1>c, NotNull
    DEF TickWakeup, ExitWaitInv, NoLostExit, TypeOK, CpuInv, PcInv, ForkInv
<1> QED BY <1>1, <1>2, <1>3, <1>4, <1>5, <1>6, <1>7, <1>8, <1>9

(* The end of trap(): the process exits or yields with ptable.lock held. *)
LEMMA TimerTailInv ==
  ASSUME Inv, NEW c \in CPU, TimerTail(c)
  PROVE  Inv'
<1> USE DEF Inv
<1>1. TypeOK'
  BY SizeAssumption, BoundAssumption
    DEF TimerTail, Interruptible, TypeOK, Locs, ProcStates, LockOwner
<1>2. (PcInv /\ ForkInv)'
  BY NotNull
    DEF TimerTail, Interruptible, PcInv, TypeOK, ForkInv, CpuInv, OneCpuPerProcess, StackSafe
<1>3. (IsrInv /\ TicksInv)'
  BY NotNull
    DEF TimerTail, Interruptible, TicksInv, IsrInv, TickWaitInv, PcInv, TypeOK, ForkInv, CpuInv, OneCpuPerProcess
<1>4. CpuInv'
  BY NotNull DEF TimerTail, Interruptible, CpuInv, OneCpuPerProcess, TypeOK, ForkInv
<1>5. StackSafe'
  BY NotNull DEF TimerTail, Interruptible, StackSafe, CpuInv, OneCpuPerProcess, TypeOK, ForkInv
<1>6. FamilyInv'
  BY NotNull
    DEF TimerTail, Interruptible, FamilyInv, FamilyTree, Alive, CpuInv, TypeOK, ForkInv
<1>7. PidInv'
  BY NotNull DEF TimerTail, Interruptible, PidInv, SlotsAndPids, TypeOK, ForkInv
<1>8. TickWaitInv'
  BY NotNull
    DEF TimerTail, Interruptible, TickWaitInv, NoLostTick, TypeOK, CpuInv, OneCpuPerProcess, PcInv, ForkInv
<1>9. ExitWaitInv'
  BY NotNull
    DEF TimerTail, Interruptible, ExitWaitInv, NoLostExit, TypeOK, CpuInv, PcInv, ForkInv
<1> QED BY <1>1, <1>2, <1>3, <1>4, <1>5, <1>6, <1>7, <1>8, <1>9

(* yield() returns. *)
LEMMA YieldReturnInv ==
  ASSUME Inv, NEW c \in CPU, YieldReturn(c)
  PROVE  Inv'
<1> USE DEF Inv
<1>1. TypeOK'
  BY SizeAssumption, BoundAssumption DEF YieldReturn, TypeOK, Locs, ProcStates, LockOwner
<1>2. (PcInv /\ ForkInv)'
  BY NotNull DEF YieldReturn, PcInv, TypeOK, ForkInv, CpuInv, OneCpuPerProcess, StackSafe
<1>3. (IsrInv /\ TicksInv)'
  BY NotNull
    DEF YieldReturn, TicksInv, IsrInv, TickWaitInv, PcInv, TypeOK, ForkInv, CpuInv, OneCpuPerProcess
<1>4. CpuInv'
  BY NotNull DEF YieldReturn, CpuInv, OneCpuPerProcess, TypeOK, ForkInv
<1>5. StackSafe'
  BY NotNull DEF YieldReturn, StackSafe, CpuInv, OneCpuPerProcess, TypeOK, ForkInv
<1>6. FamilyInv'
  BY NotNull DEF YieldReturn, FamilyInv, FamilyTree, Alive, CpuInv, TypeOK, ForkInv
<1>7. PidInv'
  BY NotNull DEF YieldReturn, PidInv, SlotsAndPids, TypeOK, ForkInv
<1>8. TickWaitInv'
  BY NotNull
    DEF YieldReturn, TickWaitInv, NoLostTick, TypeOK, CpuInv, OneCpuPerProcess, PcInv, ForkInv
<1>9. ExitWaitInv'
  BY NotNull DEF YieldReturn, ExitWaitInv, NoLostExit, TypeOK, CpuInv, PcInv, ForkInv
<1> QED BY <1>1, <1>2, <1>3, <1>4, <1>5, <1>6, <1>7, <1>8, <1>9

(* A new process returns to user space. *)
LEMMA forkretInv ==
  ASSUME Inv, NEW c \in CPU, forkret(c)
  PROVE  Inv'
<1> USE DEF Inv
<1>1. TypeOK'
  BY SizeAssumption, BoundAssumption DEF forkret, TypeOK, Locs, ProcStates, LockOwner
<1>2. (PcInv /\ ForkInv)'
  BY NotNull DEF forkret, PcInv, TypeOK, ForkInv, CpuInv, OneCpuPerProcess, StackSafe
<1>3. (IsrInv /\ TicksInv)'
  BY NotNull
    DEF forkret, TicksInv, IsrInv, TickWaitInv, PcInv, TypeOK, ForkInv, CpuInv, OneCpuPerProcess
<1>4. CpuInv'
  BY NotNull DEF forkret, CpuInv, OneCpuPerProcess, TypeOK, ForkInv
<1>5. StackSafe'
  BY NotNull DEF forkret, StackSafe, CpuInv, OneCpuPerProcess, TypeOK, ForkInv
<1>6. FamilyInv'
  BY NotNull DEF forkret, FamilyInv, FamilyTree, Alive, CpuInv, TypeOK, ForkInv
<1>7. PidInv'
  BY NotNull DEF forkret, PidInv, SlotsAndPids, TypeOK, ForkInv
<1>8. TickWaitInv'
  BY NotNull
    DEF forkret, TickWaitInv, NoLostTick, TypeOK, CpuInv, OneCpuPerProcess, PcInv, ForkInv
<1>9. ExitWaitInv'
  BY NotNull DEF forkret, ExitWaitInv, NoLostExit, TypeOK, CpuInv, PcInv, ForkInv
<1> QED BY <1>1, <1>2, <1>3, <1>4, <1>5, <1>6, <1>7, <1>8, <1>9

-----------------------------------------------------------------------------
(* The schedulers' side of the swtch *)

(* A scheduler holding ptable.lock switches to a process that is on no CPU. *)
LEMMA SwitchToInv ==
  ASSUME Inv, NEW c \in CPU, NEW p \in Slot, state[p] = "RUNNABLE",
         cproc[c] = NULL, ptlock \in {Free, c}, ~InIsr(c), SwitchTo(c, p),
         UNCHANGED <<tickslock, isr, timevars, memvars, idvars, killed, chan, thread>>
  PROVE  Inv'
<1> USE DEF Inv
<1>a. \A d \in CPU : cproc[d] # NULL => state[cproc[d]] = "RUNNING"
  BY NotNull DEF CpuInv, OneCpuPerProcess
<1>1. TypeOK'
  BY <1>a DEF SwitchTo, TypeOK, LockOwner, ProcStates
<1>2. (PcInv /\ ForkInv)'
  BY <1>a, NotNull DEF SwitchTo, PcInv, ForkInv, TypeOK
<1>3. (IsrInv /\ TicksInv)'
  BY <1>a, NotNull DEF SwitchTo, IsrInv, TicksInv, TypeOK
<1>4. CpuInv'
  BY <1>a, NotNull DEF SwitchTo, CpuInv, OneCpuPerProcess, TypeOK
<1>5. StackSafe'
  BY <1>a, NotNull DEF SwitchTo, StackSafe, TypeOK
<1>6. FamilyInv'
  BY <1>a, NotNull DEF SwitchTo, FamilyInv, FamilyTree, Alive, TypeOK
<1>7. PidInv'
  BY <1>a, NotNull DEF SwitchTo, PidInv, SlotsAndPids, TypeOK
<1>8. TickWaitInv'
  BY <1>a, NotNull DEF SwitchTo, TickWaitInv, NoLostTick, TypeOK
<1>9. ExitWaitInv'
  BY <1>a, NotNull DEF SwitchTo, ExitWaitInv, NoLostExit, TypeOK
<1> QED BY <1>1, <1>2, <1>3, <1>4, <1>5, <1>6, <1>7, <1>8, <1>9

(* The scheduler takes over ptable.lock from the process that called       *)
(* sched(), and keeps or releases it.                                      *)
LEMMA SwitchedOutInv ==
  ASSUME Inv, NEW c \in CPU, SwitchedOut(c), cproc' = [cproc EXCEPT ![c] = NULL],
         ptlock' \in {Free, c},
         UNCHANGED <<tickslock, isr, timevars, memvars, idvars, state, killed, chan, thread>>
  PROVE  Inv'
<1> USE DEF Inv
<1>a. /\ cproc[c] \in Slot /\ state[cproc[c]] # "RUNNING" /\ ptlock = c
      /\ \A d \in CPU \ {c} : cproc[d] # NULL => state[cproc[d]] = "RUNNING"
  BY DEF SwitchedOut, CpuInv, OneCpuPerProcess, TypeOK
<1>1. TypeOK'
  BY <1>a DEF TypeOK, LockOwner, ProcStates
<1>2. (PcInv /\ ForkInv)'
  BY <1>a, NotNull DEF PcInv, ForkInv, TypeOK
<1>3. (IsrInv /\ TicksInv)'
  BY <1>a, NotNull DEF IsrInv, TicksInv, TypeOK
<1>4. CpuInv'
  BY <1>a, NotNull DEF CpuInv, OneCpuPerProcess, TypeOK
<1>5. StackSafe'
  BY <1>a, NotNull DEF StackSafe, TypeOK
<1>6. FamilyInv'
  BY <1>a, NotNull DEF FamilyInv, FamilyTree, Alive, TypeOK
<1>7. PidInv'
  BY <1>a, NotNull DEF PidInv, SlotsAndPids, TypeOK
<1>8. TickWaitInv'
  BY <1>a, NotNull DEF TickWaitInv, NoLostTick, TypeOK
<1>9. ExitWaitInv'
  BY <1>a, NotNull DEF ExitWaitInv, NoLostExit, TypeOK
<1> QED BY <1>1, <1>2, <1>3, <1>4, <1>5, <1>6, <1>7, <1>8, <1>9

(* A scheduler without a process acquires, keeps or releases ptable.lock. *)
LEMMA PassLockInv ==
  ASSUME Inv, NEW c \in CPU, Scheduling(c), ptlock' \in {Free, c},
         UNCHANGED <<tickslock, isr, timevars, memvars, idvars, state, killed, chan, cproc, thread>>
  PROVE  Inv'
<1> USE DEF Inv, Scheduling
<1>a. \A d \in CPU : cproc[d] # NULL => state[cproc[d]] = "RUNNING"
  BY NotNull DEF CpuInv, OneCpuPerProcess
<1>1. TypeOK'
  BY <1>a DEF TypeOK, LockOwner, ProcStates
<1>2. (PcInv /\ ForkInv)'
  BY <1>a, NotNull DEF PcInv, ForkInv, TypeOK
<1>3. (IsrInv /\ TicksInv)'
  BY <1>a, NotNull DEF IsrInv, TicksInv, TypeOK
<1>4. CpuInv'
  BY <1>a, NotNull DEF CpuInv, OneCpuPerProcess, TypeOK
<1>5. StackSafe'
  BY <1>a, NotNull DEF StackSafe, TypeOK
<1>6. FamilyInv'
  BY <1>a, NotNull DEF FamilyInv, FamilyTree, Alive, TypeOK
<1>7. PidInv'
  BY <1>a, NotNull DEF PidInv, SlotsAndPids, TypeOK
<1>8. TickWaitInv'
  BY <1>a, NotNull DEF TickWaitInv, NoLostTick, TypeOK
<1>9. ExitWaitInv'
  BY <1>a, NotNull DEF ExitWaitInv, NoLostExit, TypeOK
<1> QED BY <1>1, <1>2, <1>3, <1>4, <1>5, <1>6, <1>7, <1>8, <1>9

-----------------------------------------------------------------------------
(* Every step of a process that both kernels share preserves the invariant. *)
LEMMA ProcStepInv ==
  ASSUME Inv, NEW c \in CPU, ProcStep(c)
  PROVE  Inv'
<1>1. CASE ForkStep(c)
  BY <1>1, ForkNoSlotInv, KallocStackInv, KallocFailsInv, CopyuvmFailsInv, ForkReadyInv
    DEF ForkStep
<1>2. CASE ExitStep(c)
  BY <1>2, ExitCallInv, UserFaultInv, SyscallReturnInv, InitExitsInv, PanickedInv, ExitInv
    DEF ExitStep
<1>3. CASE Wait(c)
  BY <1>3, WaitInv
<1>4. CASE StatStep(c)
  BY <1>4, ProcstatInv, ArgAssumption DEF StatStep
<1>5. CASE SleepStep(c)
  BY <1>5, SleepCallInv, SleepAgainInv, SleepOnTicksInv, WokenUpInv, ArgAssumption
    DEF SleepStep
<1>6. CASE KillStep(c)
  BY <1>6, KillInv, ArgAssumption DEF KillStep
<1>7. CASE Ps(c)
  BY <1>7, PsInv
<1>8. CASE YieldStep(c)
  BY <1>8, TimerTailInv, YieldReturnInv, forkretInv DEF YieldStep
<1> QED BY <1>1, <1>2, <1>3, <1>4, <1>5, <1>6, <1>7, <1>8 DEF ProcStep

(* Only schedulers change cpu->proc. *)
LEMMA ProcStepKeepsCproc ==
  ASSUME NEW c \in CPU, allocproc(c) \/ ForkCopy(c) \/ ProcStep(c)
  PROVE  cproc' = cproc
<1>1. CASE allocproc(c) \/ ForkCopy(c) \/ Ps(c)
  BY <1>1 DEF allocproc, ForkCopy, Ps
<1>2. CASE ForkStep(c)
  BY <1>2 DEF ForkStep, ForkNoSlot, KallocStack, KallocFails, CopyuvmFails, ForkReady
<1>3. CASE ExitStep(c)
  BY <1>3 DEF ExitStep, ExitCall, UserFault, SyscallReturn, InitExits, Panicked, Exit, procvars
<1>4. CASE Wait(c) \/ StatStep(c)
  BY <1>4 DEF Wait, StatStep, Procstat, Reap, GiveUp, SleepOnSelf
<1>5. CASE SleepStep(c)
  BY <1>5 DEF SleepStep, SleepCall, SleepAgain, SleepTest, SleepOnTicks, WokenUp
<1>6. CASE KillStep(c)
  BY <1>6 DEF KillStep, Kill
<1>7. CASE YieldStep(c)
  BY <1>7 DEF YieldStep, TimerTail, YieldReturn, forkret
<1> QED BY <1>1, <1>2, <1>3, <1>4, <1>5, <1>6, <1>7 DEF ProcStep

(* Nor does the timer interrupt change cpu->proc. *)
LEMMA TickKeepsCproc ==
  ASSUME Tick \/ TickWakeup
  PROVE  cproc' = cproc
BY DEF Tick, TickWakeup

(* Under the scan of a scheduler that holds ptable.lock no process becomes *)
(* RUNNABLE, ceases to be, or changes its creation time; and no step of    *)
(* another CPU takes the lock for a scheduler or from it.                  *)
LEMMA StepBesidePass ==
  ASSUME Inv, NEW c \in CPU, cproc[c] = NULL,
         \/ Tick \/ TickWakeup
         \/ \E d \in CPU : allocproc(d) \/ ForkCopy(d) \/ ProcStep(d)
  PROVE  /\ cproc' = cproc
         /\ ptlock' = c <=> ptlock = c
         /\ ptlock = c => \A s \in Slot : /\ state'[s] = "RUNNABLE" <=> state[s] = "RUNNABLE"
                                          /\ ctime'[s] = ctime[s]
<1> USE NotNull
<1> DEFINE Kept == /\ ptlock' = c <=> ptlock = c
                   /\ ptlock = c => \A s \in Slot : /\ state'[s] = "RUNNABLE" <=> state[s] = "RUNNABLE"
                                                    /\ ctime'[s] = ctime[s]
<1>1. cproc' = cproc
  BY ProcStepKeepsCproc, TickKeepsCproc
<1>2. CASE Tick \/ TickWakeup
  BY <1>2 DEF Tick, TickWakeup
<1>3. ASSUME NEW d \in CPU, allocproc(d) \/ ForkCopy(d) PROVE Kept
  <2>1. CASE allocproc(d) BY <2>1 DEF allocproc
  <2>2. CASE ForkCopy(d) BY <2>2 DEF ForkCopy
  <2> QED BY <1>3, <2>1, <2>2
<1>4. ASSUME NEW d \in CPU, ForkStep(d) PROVE Kept
  <2>1. CASE ForkNoSlot(d) \/ KallocStack(d) \/ ForkReady(d)
    BY <2>1 DEF ForkNoSlot, KallocStack, ForkReady
  <2>2. CASE KallocFails(d) \/ CopyuvmFails(d)
    <3>1. PICK p \in Slot : p = cproc[d] /\ pc[p] \in {"kstack", "copy"}
      BY <2>2 DEF KallocFails, CopyuvmFails, Inv, TypeOK
    <3>2. np[p] \in Slot /\ state[np[p]] = "EMBRYO"
      BY <3>1 DEF Inv, ForkInv, TypeOK
    <3>3. state' = [state EXCEPT ![np[p]] = "UNUSED"] /\ UNCHANGED <<ptlock, ctime>>
      BY <2>2, <3>1 DEF KallocFails, CopyuvmFails
    <3> QED BY <3>2, <3>3 DEF Inv, TypeOK
  <2> QED BY <1>4, <2>1, <2>2 DEF ForkStep
<1>5. ASSUME NEW d \in CPU, ExitStep(d) PROVE Kept
  <2>1. CASE ExitCall(d) \/ UserFault(d) \/ SyscallReturn(d) \/ InitExits(d) \/ Panicked(d)
    BY <2>1 DEF ExitCall, UserFault, SyscallReturn, InitExits, Panicked, procvars
  <2>2. CASE Exit(d)
    <3>1. ptlock = Free /\ ptlock' = d /\ d # c BY <2>2 DEF Exit
    <3> QED BY <3>1
  <2> QED BY <1>5, <2>1, <2>2 DEF ExitStep
<1>6. ASSUME NEW d \in CPU, Wait(d) \/ StatStep(d) PROVE Kept
  <2>1. ptlock \in {Free, d} /\ d # c
    BY <1>6 DEF Wait, StatStep, Procstat, ScanEntry
  <2>2. ptlock' \in {Free, d}
    BY <1>6 DEF Wait, StatStep, Procstat, Reap, GiveUp, SleepOnSelf
  <2> QED BY <2>1, <2>2
<1>7. ASSUME NEW d \in CPU, SleepStep(d) PROVE Kept
  <2>1. CASE (\E n \in SleepTimes : SleepCall(d, n)) \/ SleepAgain(d)
    BY <2>1 DEF SleepCall, SleepAgain, SleepTest
  <2>2. CASE SleepOnTicks(d) \/ WokenUp(d)
    <3>1. d # c /\ ptlock \in {Free, d} /\ ptlock' \in {Free, d}
      BY <2>2 DEF SleepOnTicks, WokenUp
    <3> QED BY <3>1
  <2> QED BY <1>7, <2>1, <2>2 DEF SleepStep
<1>8. ASSUME NEW d \in CPU, KillStep(d) \/ Ps(d) PROVE Kept
  <2>1. ptlock = Free /\ ptlock' = Free
    BY <1>8 DEF KillStep, Kill, Ps
  <2> QED BY <2>1
<1>9. ASSUME NEW d \in CPU, YieldStep(d) PROVE Kept
  <2>1. CASE TimerTail(d)
    <3>1. d # c BY <2>1 DEF TimerTail
    <3>2. CASE ptlock = c
      BY <2>1, <3>1, <3>2 DEF TimerTail
    <3>3. CASE ptlock # c
      BY <2>1, <3>1, <3>3 DEF TimerTail
    <3> QED BY <3>2, <3>3
  <2>2. CASE YieldReturn(d) \/ forkret(d)
    <3>1. d # c /\ ptlock = d /\ ptlock' = Free
      BY <2>2 DEF YieldReturn, forkret
    <3> QED BY <3>1
  <2> QED BY <1>9, <2>1, <2>2 DEF YieldStep
<1> QED BY <1>1, <1>2, <1>3, <1>4, <1>5, <1>6, <1>7, <1>8, <1>9 DEF ProcStep

(* A step that changes nothing. *)
LEMMA StutterInv ==
  ASSUME Inv, UNCHANGED procvars
  PROVE  Inv'
<1> USE DEF procvars, Inv
<1>1. (TypeOK /\ PcInv /\ ForkInv)' BY DEF TypeOK, PcInv, ForkInv
<1>2. (IsrInv /\ TicksInv /\ CpuInv /\ StackSafe)'
  BY DEF IsrInv, TicksInv, CpuInv, OneCpuPerProcess, StackSafe
<1>3. (FamilyInv /\ PidInv)' BY DEF FamilyInv, FamilyTree, PidInv, SlotsAndPids
<1>4. (TickWaitInv /\ ExitWaitInv)' BY DEF TickWaitInv, NoLostTick, ExitWaitInv, NoLostExit
<1> QED BY <1>1, <1>2, <1>3, <1>4

(* The properties the invariant is for. *)
LEMMA InvImplies ==
  ASSUME Inv
  PROVE  /\ TypeOK /\ OneCpuPerProcess /\ StackSafe /\ SchedAssertions
         /\ FamilyTree /\ SlotsAndPids /\ NoLostTick /\ NoLostExit
<1>1. SchedAssertions
  BY DEF Inv, CpuInv, OneCpuPerProcess, TicksInv, IsrInv, SchedAssertions
<1> QED BY <1>1 DEF Inv, CpuInv, FamilyInv, PidInv, TickWaitInv, ExitWaitInv
-----------------------------------------------------------------------------
(* The refinement of ProcTree *)

(* What the refinement needs besides Inv: init keeps pid 1, pids in use    *)
(* are positive, and fork() stops at MaxPid.                               *)
TreeInv ==
    /\ pid[InitProc] = 1 /\ nextpid >= 2
    /\ nextpid <= MaxPid + 1 \/ nextpid = 2
    /\ \A s \in Slot : state[s] # "UNUSED" => pid[s] >= 1

(* A step that forks, ends and collects no process. *)
Quiet ==
    /\ pid' = pid /\ nextpid' = nextpid
    /\ \A s \in Slot : state'[s] = state[s] \/ (state[s] \in Alive /\ state'[s] \in Alive)
    /\ \A s \in Slot : state[s] # "EMBRYO" => parent'[s] = parent[s]

(* The refinement mapping finds the parent of the process in slot s. *)
LEMMA ParentFound ==
  ASSUME SlotsAndPids, NEW s \in Slot, NEW n, IsSlotOf(s, n)
  PROVE  ParentPid(n) = pid[parent[s]]
<1> DEFINE t == CHOOSE r \in Slot : IsSlotOf(r, n)
<1>1. t \in Slot /\ IsSlotOf(t, n) OBVIOUS
<1> HIDE DEF t
<1>2. pid[t] = pid[s] /\ state[t] # "UNUSED" /\ state[s] # "UNUSED"
  BY <1>1 DEF IsSlotOf, Alive
<1>3. t = s BY <1>1, <1>2 DEF SlotsAndPids
<1> QED BY <1>3 DEF ParentPid, t

(* The same in the next state. *)
LEMMA ParentFoundNext ==
  ASSUME SlotsAndPids', NEW s \in Slot, NEW n, IsSlotOf(s, n)'
  PROVE  ParentPid(n)' = pid'[parent'[s]]
<1>1. PICK t \in Slot : t = CHOOSE r \in Slot : IsSlotOf(r, n)'
  BY DEF IsSlotOf
<1>2. IsSlotOf(t, n)' BY <1>1 DEF IsSlotOf
<1>3. pid'[t] = pid'[s] /\ state'[t] # "UNUSED" /\ state'[s] # "UNUSED"
  BY <1>2 DEF IsSlotOf, Alive
<1>4. t = s BY <1>3 DEF SlotsAndPids
<1> QED BY <1>1, <1>4 DEF ParentPid, IsSlotOf

(* A pid no slot has, or whose slot is not in use, has no parent. *)
LEMMA ParentNone ==
  ASSUME NEW n, \A s \in Slot : ~IsSlotOf(s, n)
  PROVE  ParentPid(n) = 0
BY DEF ParentPid

(* The same in the next state. *)
LEMMA ParentNoneNext ==
  ASSUME NEW n, \A s \in Slot : ~IsSlotOf(s, n)'
  PROVE  ParentPid(n)' = 0
BY DEF ParentPid, IsSlotOf

(* The parent of n stays when the slots n may have keep their parents. *)
LEMMA ParentSame ==
  ASSUME SlotsAndPids, SlotsAndPids', NEW n,
         \A s \in Slot : IsSlotOf(s, n)' <=> IsSlotOf(s, n),
         \A s \in Slot : IsSlotOf(s, n) => pid'[parent'[s]] = pid[parent[s]]
  PROVE  ParentPid(n)' = ParentPid(n)
<1>1. CASE \E s \in Slot : IsSlotOf(s, n)
  <2>1. PICK s \in Slot : IsSlotOf(s, n) BY <1>1
  <2>2. ParentPid(n) = pid[parent[s]] BY <2>1, ParentFound
  <2>3. ParentPid(n)' = pid'[parent'[s]] BY <2>1, ParentFoundNext
  <2> QED BY <2>1, <2>2, <2>3
<1>2. CASE ~\E s \in Slot : IsSlotOf(s, n)
  BY <1>2, ParentNone, ParentNoneNext
<1> QED BY <1>1, <1>2

(* The pids of the processes in some states: those of their slots. *)
LEMMA PidsSame ==
  ASSUME NEW S, \A s \in Slot : state'[s] \in S <=> state[s] \in S,
         \A s \in Slot : state[s] \in S => pid'[s] = pid[s]
  PROVE  PidsIn(S)' = PidsIn(S)
BY DEF PidsIn

(* Slot z enters these states. *)
LEMMA PidsAdd ==
  ASSUME NEW S, NEW z \in Slot, state[z] \notin S, state'[z] \in S,
         \A s \in Slot \ {z} : state'[s] \in S <=> state[s] \in S,
         \A s \in Slot \ {z} : pid'[s] = pid[s]
  PROVE  PidsIn(S)' = PidsIn(S) \cup {pid'[z]}
BY DEF PidsIn

(* Slot z leaves these states, and no other slot has its pid. *)
LEMMA PidsRemove ==
  ASSUME NEW S, NEW z \in Slot, state[z] \in S, state'[z] \notin S,
         \A s \in Slot \ {z} : state'[s] \in S <=> state[s] \in S,
         \A s \in Slot \ {z} : pid'[s] = pid[s],
         \A s \in Slot \ {z} : state[s] \in S => pid[s] # pid[z]
  PROVE  PidsIn(S)' = PidsIn(S) \ {pid[z]}
BY DEF PidsIn

(* The pids in use are those the abstract system has room for. *)
LEMMA PidRange ==
  ASSUME Inv, TreeInv, NEW s \in Slot, state[s] # "UNUSED", s # InitProc
  PROVE  /\ pid[s] \in 1 .. MaxPid /\ pid[s] # 1
         /\ \A t \in Slot : state[t] # "UNUSED" => pid[t] \in 1 .. MaxPid
<1>1. InitProc \in Slot /\ state[InitProc] # "UNUSED"
  BY NotNull DEF Inv, FamilyInv, FamilyTree, Alive
<1>2. pid[s] # 1 BY <1>1 DEF Inv, PidInv, SlotsAndPids, TreeInv
<1>3. pid[s] \in Nat /\ pid[s] >= 2 /\ pid[s] < nextpid /\ nextpid \in Nat
  BY <1>2 DEF Inv, PidInv, TreeInv, TypeOK
<1>4. nextpid <= MaxPid + 1 BY <1>3 DEF TreeInv
<1>5. \A t \in Slot : state[t] # "UNUSED" => pid[t] \in Nat /\ pid[t] >= 1 /\ pid[t] < nextpid
  BY DEF Inv, PidInv, TreeInv, TypeOK
<1> QED BY <1>2, <1>3, <1>4, <1>5, BoundAssumption

(* A quiet step is not seen in the tree. *)
LEMMA QuietTree ==
  ASSUME Inv, Inv', TreeInv, Quiet
  PROVE  TreeInv' /\ UNCHANGED Tree!treevars
<1>1. \A s \in Slot : /\ state'[s] = "EMBRYO" <=> state[s] = "EMBRYO"
                      /\ state'[s] = "ZOMBIE" <=> state[s] = "ZOMBIE"
                      /\ state'[s] \in Alive <=> state[s] \in Alive
                      /\ state'[s] = "UNUSED" <=> state[s] = "UNUSED"
  BY DEF Quiet, Alive
<1>2. PidsIn({"EMBRYO"})' = PidsIn({"EMBRYO"}) BY <1>1, PidsSame DEF Quiet
<1>3. PidsIn(Alive)' = PidsIn(Alive) BY <1>1, PidsSame DEF Quiet
<1>4. PidsIn({"ZOMBIE"})' = PidsIn({"ZOMBIE"}) BY <1>1, PidsSame DEF Quiet
<1>5. ASSUME NEW n PROVE ParentPid(n)' = ParentPid(n)
  <2>1. \A s \in Slot : IsSlotOf(s, n)' <=> IsSlotOf(s, n)
    BY <1>1 DEF IsSlotOf, Quiet, Alive
  <2>2. \A s \in Slot : IsSlotOf(s, n) => pid'[parent'[s]] = pid[parent[s]]
    BY DEF IsSlotOf, Quiet, Alive
  <2> QED BY <2>1, <2>2, ParentSame DEF Inv, PidInv
<1>6. [n \in 1 .. MaxPid |-> ParentPid(n)]' = [n \in 1 .. MaxPid |-> ParentPid(n)]
  BY <1>5
<1>7. TreeInv' BY <1>1 DEF Quiet, TreeInv
<1>8. nextpid' = nextpid BY DEF Quiet
<1> QED BY <1>2, <1>3, <1>4, <1>6, <1>7, <1>8 DEF Tree!treevars

(* Two processes in use have different pids. *)
LEMMA PidsDiffer ==
  ASSUME Inv, NEW z \in Slot, state[z] # "UNUSED"
  PROVE  \A s \in Slot \ {z} : state[s] # "UNUSED" => pid[s] # pid[z]
BY DEF Inv, PidInv, SlotsAndPids

(* A parent is a live process. *)
LEMMA ParentsLive ==
  ASSUME Inv, NEW s \in Slot, parent[s] # NULL
  PROVE  parent[s] \in Slot /\ state[parent[s]] \in Alive
BY NotNull DEF Inv, TypeOK, FamilyInv, FamilyTree

(* allocproc() issues the next pid. *)
LEMMA allocprocTree ==
  ASSUME Inv, Inv', TreeInv, NEW c \in CPU, allocproc(c)
  PROVE  TreeInv' /\ Tree!Reserve
<1>0. {s \in Slot : state[s] = "UNUSED"} # {} BY DEF allocproc
<1>1. PICK z \in Slot : z = FreeSlot /\ state[z] = "UNUSED"
  BY <1>0, FirstInSet DEF FreeSlot
<1>2. /\ state' = [state EXCEPT ![z] = "EMBRYO"] /\ pid' = [pid EXCEPT ![z] = nextpid]
      /\ nextpid' = nextpid + 1 /\ nextpid <= MaxPid /\ parent' = parent
  BY <1>1 DEF allocproc
<1>3. state \in [Slot -> ProcStates] /\ pid \in [Slot -> Nat] /\ nextpid \in Nat
  BY DEF Inv, TypeOK
<1>4. /\ state'[z] = "EMBRYO" /\ pid'[z] = nextpid
      /\ \A s \in Slot \ {z} : state'[s] = state[s] /\ pid'[s] = pid[s]
  BY <1>2, <1>3
<1>5. PidsIn({"EMBRYO"})' = PidsIn({"EMBRYO"}) \cup {nextpid}
  <2>1. PidsIn({"EMBRYO"})' = PidsIn({"EMBRYO"}) \cup {pid'[z]} BY <1>1, <1>4, PidsAdd
  <2> QED BY <2>1, <1>4
<1>6. PidsIn(Alive)' = PidsIn(Alive) BY <1>1, <1>4, PidsSame DEF Alive
<1>7. PidsIn({"ZOMBIE"})' = PidsIn({"ZOMBIE"}) BY <1>1, <1>4, PidsSame
<1>8. ASSUME NEW n PROVE ParentPid(n)' = ParentPid(n)
  <2>1. \A s \in Slot : IsSlotOf(s, n)' <=> IsSlotOf(s, n)
    BY <1>1, <1>2, <1>4 DEF IsSlotOf, Alive
  <2>2. ASSUME NEW s \in Slot, IsSlotOf(s, n) PROVE pid'[parent'[s]] = pid[parent[s]]
    <3>1. parent[s] \in Slot /\ state[parent[s]] \in Alive
      BY <2>2, ParentsLive DEF IsSlotOf
    <3>2. parent[s] # z BY <3>1, <1>1 DEF Alive
    <3> QED BY <3>1, <3>2, <1>2, <1>4
  <2> QED BY <2>1, <2>2, ParentSame DEF Inv, PidInv
<1>9. [n \in 1 .. MaxPid |-> ParentPid(n)]' = [n \in 1 .. MaxPid |-> ParentPid(n)] BY <1>8
<1>10. z # InitProc BY <1>1 DEF Inv, FamilyInv, FamilyTree, Alive
<1>11. TreeInv'
  BY <1>2, <1>3, <1>4, <1>10, NotNull, BoundAssumption DEF TreeInv
<1>12. nextpid - 1 < MaxPid /\ nextpid' - 1 = (nextpid - 1) + 1 /\ (nextpid - 1) + 1 = nextpid
  BY <1>2, <1>3, BoundAssumption
<1> QED BY <1>5, <1>6, <1>7, <1>9, <1>11, <1>12 DEF Tree!Reserve

(* A fork() that fails gives up its slot; the pid stays in it, unused. *)
LEMMA AbandonTree ==
  ASSUME Inv, Inv', TreeInv, NEW z \in Slot, state[z] = "EMBRYO",
         state' = [state EXCEPT ![z] = "UNUSED"], UNCHANGED <<pid, nextpid, parent>>
  PROVE  TreeInv' /\ Tree!Abandon(pid[z]) /\ pid[z] \in Tree!Pids
<1>1. state \in [Slot -> ProcStates] BY DEF Inv, TypeOK
<1>2. state'[z] = "UNUSED" /\ \A s \in Slot \ {z} : state'[s] = state[s]
  BY <1>1
<1>3. PidsIn({"EMBRYO"})' = PidsIn({"EMBRYO"}) \ {pid[z]}
  BY <1>2, PidsDiffer, PidsRemove
<1>4. PidsIn(Alive)' = PidsIn(Alive) BY <1>2, PidsSame DEF Alive
<1>5. PidsIn({"ZOMBIE"})' = PidsIn({"ZOMBIE"}) BY <1>2, PidsSame
<1>6. ASSUME NEW n PROVE ParentPid(n)' = ParentPid(n)
  <2>1. \A s \in Slot : IsSlotOf(s, n)' <=> IsSlotOf(s, n)
    BY <1>2 DEF IsSlotOf, Alive
  <2> QED BY <2>1, ParentSame DEF Inv, PidInv
<1>7. [n \in 1 .. MaxPid |-> ParentPid(n)]' = [n \in 1 .. MaxPid |-> ParentPid(n)] BY <1>6
<1>8. TreeInv' BY <1>2 DEF TreeInv
<1>9. z # InitProc BY DEF Inv, FamilyInv, FamilyTree, Alive
<1>10. pid[z] \in Tree!Pids BY <1>9, PidRange DEF Tree!Pids
<1>11. pid[z] \in PidsIn({"EMBRYO"}) BY DEF PidsIn
<1> QED BY <1>3, <1>4, <1>5, <1>7, <1>8, <1>10, <1>11 DEF Tree!Abandon

(* The end of fork(): the child of p is in the tree. *)
LEMMA ForkReadyTree ==
  ASSUME Inv, Inv', TreeInv, NEW c \in CPU, ForkReady(c)
  PROVE  TreeInv' /\ \E n, m \in Tree!Pids : Tree!Start(n, m)
<1>1. PICK p \in Slot : p = cproc[c] /\ state[p] = "RUNNING" /\ pc[p] = "ready"
  BY DEF ForkReady, Inv, TypeOK
<1>2. PICK z \in Slot : z = np[p] /\ state[z] = "EMBRYO" /\ parent[z] = p
  BY <1>1 DEF Inv, TypeOK, ForkInv, FamilyInv
<1>3. state' = [state EXCEPT ![z] = "RUNNABLE"] /\ UNCHANGED <<pid, nextpid, parent>>
  BY <1>1, <1>2 DEF ForkReady
<1>4. state'[z] = "RUNNABLE" /\ \A s \in Slot \ {z} : state'[s] = state[s]
  BY <1>3 DEF Inv, TypeOK
<1>5. PidsIn({"EMBRYO"})' = PidsIn({"EMBRYO"}) \ {pid[z]}
  BY <1>2, <1>3, <1>4, PidsDiffer, PidsRemove
<1>6. PidsIn(Alive)' = PidsIn(Alive) \cup {pid[z]}
  <2>1. PidsIn(Alive)' = PidsIn(Alive) \cup {pid'[z]}
    BY <1>2, <1>3, <1>4, PidsAdd DEF Alive
  <2> QED BY <2>1, <1>3
<1>7. PidsIn({"ZOMBIE"})' = PidsIn({"ZOMBIE"}) BY <1>2, <1>3, <1>4, PidsSame
<1>8. ASSUME NEW n, n # pid[z] PROVE ParentPid(n)' = ParentPid(n)
  <2>1. \A s \in Slot : IsSlotOf(s, n)' <=> IsSlotOf(s, n)
    BY <1>2, <1>3, <1>4, <1>8 DEF IsSlotOf, Alive
  <2> QED BY <2>1, <1>3, ParentSame DEF Inv, PidInv
<1>9. z # InitProc BY <1>2 DEF Inv, FamilyInv, FamilyTree, Alive
<1>10. PICK k \in 1 .. MaxPid, m \in 1 .. MaxPid : k = pid[z] /\ m = pid[p]
  BY <1>1, <1>2, <1>9, PidRange
<1>11. ParentPid(k)' = m
  <2>1. IsSlotOf(z, k)' BY <1>1, <1>2, <1>3, <1>4, <1>10, NotNull DEF IsSlotOf, Alive
  <2>2. ParentPid(k)' = pid'[parent'[z]] BY <2>1, ParentFoundNext DEF Inv, PidInv
  <2> QED BY <2>2, <1>2, <1>3, <1>10
<1>12. [n \in 1 .. MaxPid |-> ParentPid(n)]'
         = [[n \in 1 .. MaxPid |-> ParentPid(n)] EXCEPT ![k] = m]
  BY <1>8, <1>10, <1>11
<1>13. TreeInv' BY <1>2, <1>3, <1>4 DEF TreeInv
<1>14. pid[z] \in PidsIn({"EMBRYO"}) /\ pid[p] \in PidsIn(Alive) BY <1>1, <1>2 DEF PidsIn, Alive
<1>15. Tree!Start(k, m)
  BY <1>3, <1>5, <1>6, <1>7, <1>10, <1>12, <1>14 DEF Tree!Start
<1> QED BY <1>13, <1>15 DEF Tree!Pids

(* exit(): the process becomes a zombie and init the parent of its children. *)
LEMMA ExitTree ==
  ASSUME Inv, Inv', TreeInv, NEW c \in CPU, Exit(c)
  PROVE  TreeInv' /\ \E n \in Tree!Pids : Tree!Die(n)
<1>1. PICK p \in Slot : p = cproc[c] /\ state[p] = "RUNNING" /\ p # InitProc
  BY DEF Exit, Inv, TypeOK
<1>2. /\ parent' = Adopt(p) /\ state' = [ExitWakeups(p) EXCEPT ![p] = "ZOMBIE"]
      /\ UNCHANGED <<pid, nextpid>>
  BY <1>1 DEF Exit
<1>3. /\ ExitWakeups(p) \in [Slot -> ProcStates]
      /\ \A q \in Slot : \/ ExitWakeups(p)[q] = state[q]
                         \/ state[q] = "SLEEPING" /\ ExitWakeups(p)[q] = "RUNNABLE"
  <2> DEFINE w1 == wakeup1(parent[p], state)
  <2>1. /\ w1 \in [Slot -> ProcStates]
        /\ \A q \in Slot : w1[q] = state[q] \/ (state[q] = "SLEEPING" /\ w1[q] = "RUNNABLE")
    BY WakeupMoves DEF Inv, TypeOK
  <2> DEFINE w2 == wakeup1(InitProc, w1)
  <2> HIDE DEF w1
  <2>2. /\ w2 \in [Slot -> ProcStates]
        /\ \A q \in Slot : w2[q] = w1[q] \/ (w1[q] = "SLEEPING" /\ w2[q] = "RUNNABLE")
    BY <2>1, WakeupMoves
  <2> HIDE DEF w2
  <2>3. ExitWakeups(p) = w1 \/ ExitWakeups(p) = w2 BY DEF ExitWakeups, w1, w2
  <2> QED BY <2>1, <2>2, <2>3
<1>4. /\ state'[p] = "ZOMBIE"
      /\ \A s \in Slot \ {p} : state'[s] = state[s] \/ (state[s] \in Alive /\ state'[s] \in Alive)
  BY <1>2, <1>3 DEF Alive
<1>5. \A s \in Slot : parent'[s] = IF parent[s] = p THEN InitProc ELSE parent[s]
  BY <1>2 DEF Adopt, Children
<1>6. PidsIn({"EMBRYO"})' = PidsIn({"EMBRYO"})
  BY <1>1, <1>2, <1>4, PidsSame DEF Alive
<1>7. PidsIn(Alive)' = PidsIn(Alive) \ {pid[p]}
  <2>1. \A s \in Slot \ {p} : state[s] \in Alive => pid[s] # pid[p]
    BY <1>1, PidsDiffer DEF Alive
  <2>2. \A s \in Slot \ {p} : state'[s] \in Alive <=> state[s] \in Alive
    BY <1>4
  <2> QED BY <1>1, <1>2, <1>4, <2>1, <2>2, PidsRemove DEF Alive
<1>8. PidsIn({"ZOMBIE"})' = PidsIn({"ZOMBIE"}) \cup {pid[p]}
  <2>1. PidsIn({"ZOMBIE"})' = PidsIn({"ZOMBIE"}) \cup {pid'[p]}
    BY <1>1, <1>2, <1>4, PidsAdd DEF Alive
  <2> QED BY <2>1, <1>2
<1>9. PICK k \in 1 .. MaxPid : k = pid[p] /\ k # 1
  BY <1>1, PidRange
<1>10. ASSUME NEW n
       PROVE  ParentPid(n)' = IF ParentPid(n) = k THEN 1 ELSE ParentPid(n)
  <2>1. \A s \in Slot : IsSlotOf(s, n)' <=> IsSlotOf(s, n)
    BY <1>1, <1>2, <1>4, <1>5, NotNull DEF IsSlotOf, Alive
  <2>2. CASE \E s \in Slot : IsSlotOf(s, n)
    <3>1. PICK s \in Slot : IsSlotOf(s, n) BY <2>2
    <3>2. ParentPid(n) = pid[parent[s]] BY <3>1, ParentFound DEF Inv, PidInv
    <3>3. ParentPid(n)' = pid[parent'[s]] BY <3>1, <2>1, <1>2, ParentFoundNext DEF Inv, PidInv
    <3>4. CASE parent[s] = p
      BY <3>2, <3>3, <3>4, <1>5, <1>9 DEF TreeInv
    <3>5. CASE parent[s] # p
      <4>1. parent[s] \in Slot /\ state[parent[s]] # "UNUSED"
        BY <3>1, ParentsLive DEF IsSlotOf, Alive
      <4>2. pid[parent[s]] # k BY <4>1, <3>5, <1>1, <1>9, PidsDiffer
      <4> QED BY <3>2, <3>3, <3>5, <4>2, <1>5
    <3> QED BY <3>4, <3>5
  <2>3. CASE ~\E s \in Slot : IsSlotOf(s, n)
    <3>1. ParentPid(n) = 0 /\ ParentPid(n)' = 0 BY <2>1, <2>3, ParentNone, ParentNoneNext
    <3> QED BY <3>1, <1>9
  <2> QED BY <2>2, <2>3
<1>11. [n \in 1 .. MaxPid |-> ParentPid(n)]'
         = [n \in 1 .. MaxPid |-> IF [m \in 1 .. MaxPid |-> ParentPid(m)][n] = k THEN 1
                                  ELSE [m \in 1 .. MaxPid |-> ParentPid(m)][n]]
  BY <1>10
<1>12. TreeInv' BY <1>1, <1>2, <1>4 DEF TreeInv, Alive
<1>13. k \in PidsIn(Alive) BY <1>1, <1>9 DEF PidsIn, Alive
<1>14. Tree!Die(k)
  BY <1>2, <1>6, <1>7, <1>8, <1>9, <1>11, <1>13 DEF Tree!Die, Tree!Pids
<1> QED BY <1>12, <1>14 DEF Tree!Pids

(* wait() and procstat() collect one zombie child of the caller. *)
LEMMA ReapTree ==
  ASSUME Inv, Inv', TreeInv, NEW c \in CPU, NEW p \in Slot, p = cproc[c], state[p] = "RUNNING",
         NEW zs, zs \subseteq {q \in Children(p) : state[q] = "ZOMBIE"}, Reap(c, zs)
  PROVE  TreeInv' /\ \E n, m \in Tree!Pids : Tree!Collect(n, m)
<1>1. PICK z \in Slot : z = First(zs) /\ state[z] = "ZOMBIE" /\ parent[z] = p
  <2>1. zs \subseteq Slot /\ zs # {} BY DEF Reap, Children
  <2>2. First(zs) \in zs BY <2>1, FirstInSet
  <2> QED BY <2>2 DEF Children
<1>2. /\ state' = [state EXCEPT ![z] = "UNUSED"] /\ pid' = [pid EXCEPT ![z] = 0]
      /\ parent' = [parent EXCEPT ![z] = NULL] /\ nextpid' = nextpid
  BY <1>1 DEF Reap
<1>3. /\ state'[z] = "UNUSED" /\ pid'[z] = 0
      /\ \A s \in Slot \ {z} : state'[s] = state[s] /\ pid'[s] = pid[s] /\ parent'[s] = parent[s]
  BY <1>1, <1>2 DEF Inv, TypeOK
<1>4. z # InitProc BY <1>1 DEF Inv, FamilyInv, FamilyTree, Alive
<1>5. PICK k \in 1 .. MaxPid, m \in 1 .. MaxPid : k = pid[z] /\ m = pid[p]
  BY <1>1, <1>4, PidRange
<1>6. PidsIn({"EMBRYO"})' = PidsIn({"EMBRYO"}) BY <1>1, <1>3, PidsSame
<1>7. PidsIn(Alive)' = PidsIn(Alive) BY <1>1, <1>3, PidsSame DEF Alive
<1>8. PidsIn({"ZOMBIE"})' = PidsIn({"ZOMBIE"}) \ {k}
  <2>1. \A s \in Slot \ {z} : state[s] \in {"ZOMBIE"} => pid[s] # pid[z]
    BY <1>1, PidsDiffer
  <2>2. PidsIn({"ZOMBIE"})' = PidsIn({"ZOMBIE"}) \ {pid[z]}
    BY <1>1, <1>3, <2>1, PidsRemove
  <2> QED BY <2>2, <1>5
<1>9. ASSUME NEW n, n # k PROVE ParentPid(n)' = ParentPid(n)
  <2>1. \A s \in Slot : IsSlotOf(s, n)' <=> IsSlotOf(s, n)
    BY <1>1, <1>3, <1>5, <1>9 DEF IsSlotOf, Alive
  <2>2. ASSUME NEW s \in Slot, IsSlotOf(s, n) PROVE pid'[parent'[s]] = pid[parent[s]]
    <3>1. s # z BY <2>2, <1>5, <1>9 DEF IsSlotOf
    <3>2. parent[s] \in Slot /\ state[parent[s]] \in Alive
      BY <2>2, ParentsLive DEF IsSlotOf
    <3>3. parent[s] # z BY <3>2, <1>1 DEF Alive
    <3> QED BY <3>1, <3>2, <3>3, <1>3
  <2> QED BY <2>1, <2>2, ParentSame DEF Inv, PidInv
<1>10. ParentPid(k) = m /\ ParentPid(k)' = 0
  <2>1. IsSlotOf(z, k) BY <1>1, <1>5, NotNull DEF IsSlotOf
  <2>2. ParentPid(k) = pid[parent[z]] BY <2>1, ParentFound DEF Inv, PidInv
  <2>3. \A s \in Slot : ~IsSlotOf(s, k)'
    <3>1. \A s \in Slot \ {z} : state[s] # "UNUSED" => pid[s] # k BY <1>1, <1>5, PidsDiffer
    <3> QED BY <3>1, <1>3 DEF IsSlotOf, Alive
  <2>4. ParentPid(k)' = 0 BY <2>3, ParentNoneNext
  <2> QED BY <2>2, <2>4, <1>1, <1>5
<1>11. [n \in 1 .. MaxPid |-> ParentPid(n)]'
         = [[n \in 1 .. MaxPid |-> ParentPid(n)] EXCEPT ![k] = 0]
  BY <1>9, <1>10
<1>12. TreeInv' BY <1>2, <1>3, <1>4, NotNull DEF TreeInv
<1>13. k \in PidsIn({"ZOMBIE"}) /\ m \in PidsIn(Alive) BY <1>1, <1>5 DEF PidsIn, Alive
<1>14. Tree!Collect(k, m)
  BY <1>2, <1>6, <1>7, <1>8, <1>10, <1>11, <1>13 DEF Tree!Collect
<1> QED BY <1>12, <1>14 DEF Tree!Pids

(* The steps that are quiet. *)
LEMMA QuietSteps ==
  ASSUME Inv, NEW c \in CPU,
         \/ ForkNoSlot(c) \/ KallocStack(c) \/ ForkCopy(c) \/ ExitCall(c) \/ UserFault(c)
         \/ SyscallReturn(c) \/ InitExits(c) \/ Panicked(c) \/ SleepStep(c) \/ KillStep(c)
         \/ Ps(c) \/ YieldStep(c) \/ Tick \/ TickWakeup
  PROVE  Quiet
<1> USE DEF Quiet
<1>1. CASE \/ ForkNoSlot(c) \/ KallocStack(c) \/ ExitCall(c) \/ UserFault(c) \/ SyscallReturn(c)
           \/ InitExits(c) \/ Panicked(c) \/ Ps(c) \/ Tick
  BY <1>1 DEF ForkNoSlot, KallocStack, ExitCall, UserFault, SyscallReturn, InitExits, Panicked,
              procvars, Ps, Tick
<1>2. CASE ForkCopy(c)
  <2>1. PICK p \in Slot : p = cproc[c] /\ pc[p] = "copy" BY <1>2 DEF ForkCopy, Inv, TypeOK
  <2>2. np[p] \in Slot /\ state[np[p]] = "EMBRYO" BY <2>1 DEF Inv, ForkInv, TypeOK
  <2>3. parent' = [parent EXCEPT ![np[p]] = p] BY <1>2, <2>1 DEF ForkCopy
  <2>4. \A s \in Slot : state[s] # "EMBRYO" => parent'[s] = parent[s]
    BY <2>2, <2>3 DEF Inv, TypeOK
  <2> QED BY <1>2, <2>4 DEF ForkCopy
<1>3. CASE SleepStep(c)
  <2>1. CASE (\E n \in SleepTimes : SleepCall(c, n)) \/ SleepAgain(c) \/ WokenUp(c)
    BY <2>1 DEF SleepCall, SleepAgain, SleepTest, WokenUp
  <2>2. CASE SleepOnTicks(c)
    BY <2>2 DEF SleepOnTicks, Alive, Inv, TypeOK
  <2> QED BY <1>3, <2>1, <2>2 DEF SleepStep
<1>4. CASE KillStep(c)
  <2>1. PICK n \in KillPids : Kill(c, n) BY <1>4 DEF KillStep
  <2> DEFINE hit == {q \in Slot : pid[q] = n}
  <2>2. CASE hit = {} BY <2>1, <2>2 DEF Kill
  <2>3. CASE hit # {}
    <3>1. First(hit) \in Slot BY <2>3, FirstInSet
    <3>2. state' = [state EXCEPT ![First(hit)] = IF @ = "SLEEPING" THEN "RUNNABLE" ELSE @]
      BY <2>1, <2>3 DEF Kill
    <3>3. UNCHANGED <<pid, nextpid, parent>> BY <2>1 DEF Kill
    <3> HIDE DEF hit
    <3> QED BY <3>1, <3>2, <3>3 DEF Alive, Inv, TypeOK
  <2> QED BY <2>2, <2>3
<1>5. CASE YieldStep(c)
  <2>1. CASE YieldReturn(c) \/ forkret(c) BY <2>1 DEF YieldReturn, forkret
  <2>2. CASE TimerTail(c) BY <2>2 DEF TimerTail, Alive, Inv, TypeOK
  <2> QED BY <1>5, <2>1, <2>2 DEF YieldStep
<1>6. CASE TickWakeup
  <2>1. \A q \in Slot : state'[q] = state[q] \/ (state[q] = "SLEEPING" /\ state'[q] = "RUNNABLE")
    BY <1>6, WakeupMoves DEF TickWakeup, Inv, TypeOK
  <2> QED BY <1>6, <2>1 DEF TickWakeup, Alive
<1> QED BY <1>1, <1>2, <1>3, <1>4, <1>5, <1>6

(* One pass of wait() or procstat(). *)
LEMMA ScanTree ==
  ASSUME Inv, Inv', TreeInv, NEW c \in CPU, NEW l, ScanEntry(c, l), NEW n,
         NEW zs, zs \subseteq {q \in Children(cproc[c]) : state[q] = "ZOMBIE"},
         Reap(c, zs) \/ GiveUp(c, zs) \/ SleepOnSelf(c, zs, l, n)
  PROVE  TreeInv' /\ [Tree!TreeNext]_(Tree!treevars)
<1>1. PICK p \in Slot : p = cproc[c] /\ state[p] = "RUNNING"
  BY DEF ScanEntry, Inv, TypeOK
<1>2. CASE Reap(c, zs)
  <2>1. zs \subseteq {q \in Children(p) : state[q] = "ZOMBIE"} BY <1>1
  <2> QED BY <1>1, <1>2, <2>1, ReapTree DEF Tree!TreeNext
<1>3. CASE GiveUp(c, zs) \/ SleepOnSelf(c, zs, l, n)
  <2>1. Quiet
    <3>1. CASE GiveUp(c, zs) BY <3>1 DEF GiveUp, Quiet
    <3>2. CASE SleepOnSelf(c, zs, l, n)
      BY <1>1, <3>2 DEF SleepOnSelf, Quiet, Alive, Inv, TypeOK
    <3> QED BY <1>3, <3>1, <3>2
  <2> QED BY <2>1, QuietTree
<1> QED BY <1>2, <1>3

(* Every step common to both kernels is a step of ProcTree, or is not seen. *)
LEMMA ProcTreeStep ==
  ASSUME Inv, Inv', TreeInv, NEW c \in CPU,
         allocproc(c) \/ ForkCopy(c) \/ ProcStep(c) \/ Tick \/ TickWakeup
  PROVE  TreeInv' /\ [Tree!TreeNext]_(Tree!treevars)
<1>1. CASE allocproc(c)
  BY <1>1, allocprocTree DEF Tree!TreeNext
<1>2. CASE KallocFails(c) \/ CopyuvmFails(c)
  <2>1. PICK p \in Slot : p = cproc[c] /\ pc[p] \in {"kstack", "copy"}
    BY <1>2 DEF KallocFails, CopyuvmFails, Inv, TypeOK
  <2>2. PICK z \in Slot : z = np[p] /\ state[z] = "EMBRYO"
    BY <2>1 DEF Inv, ForkInv, TypeOK
  <2>3. state' = [state EXCEPT ![z] = "UNUSED"] /\ UNCHANGED <<pid, nextpid, parent>>
    BY <1>2, <2>1, <2>2 DEF KallocFails, CopyuvmFails
  <2>4. TreeInv' /\ \E n \in Tree!Pids : Tree!Abandon(n)
    <3>1. PICK k : k = pid[z] OBVIOUS
    <3> QED BY <3>1, <2>2, <2>3, AbandonTree
  <2> QED BY <2>4 DEF Tree!TreeNext
<1>3. CASE ForkReady(c)
  BY <1>3, ForkReadyTree DEF Tree!TreeNext
<1>4. CASE Exit(c)
  BY <1>4, ExitTree DEF Tree!TreeNext
<1>5. CASE Wait(c)
  <2> DEFINE zs == {q \in Children(cproc[c]) : state[q] = "ZOMBIE"}
  <2>1. ScanEntry(c, "waiting") /\ (Reap(c, zs) \/ GiveUp(c, zs) \/ SleepOnSelf(c, zs, "waiting", 0))
    BY <1>5 DEF Wait
  <2>2. zs \subseteq {q \in Children(cproc[c]) : state[q] = "ZOMBIE"} OBVIOUS
  <2> HIDE DEF zs
  <2> QED BY <2>1, <2>2, ScanTree
<1>6. CASE StatStep(c)
  <2>1. PICK n \in StatPids : Procstat(c, n) BY <1>6 DEF StatStep
  <2> DEFINE zs == {q \in Children(cproc[c]) : state[q] = "ZOMBIE" /\ pid[q] = n}
  <2>2. ScanEntry(c, "pstat") /\ (Reap(c, zs) \/ GiveUp(c, zs) \/ SleepOnSelf(c, zs, "pstat", n))
    BY <2>1 DEF Procstat
  <2>3. zs \subseteq {q \in Children(cproc[c]) : state[q] = "ZOMBIE"} OBVIOUS
  <2> HIDE DEF zs
  <2> QED BY <2>2, <2>3, ScanTree
<1>7. CASE Quiet
  BY <1>7, QuietTree
<1>8. CASE \/ ForkNoSlot(c) \/ KallocStack(c) \/ ForkCopy(c) \/ ExitCall(c) \/ UserFault(c)
           \/ SyscallReturn(c) \/ InitExits(c) \/ Panicked(c) \/ SleepStep(c) \/ KillStep(c)
           \/ Ps(c) \/ YieldStep(c) \/ Tick \/ TickWakeup
  BY <1>7, <1>8, QuietSteps
<1> QED BY <1>1, <1>2, <1>3, <1>4, <1>5, <1>6, <1>8 DEF ProcStep, ForkStep, ExitStep

(* The schedulers change only who runs. *)
LEMMA SwitchTree ==
  ASSUME Inv, Inv', TreeInv, UNCHANGED idvars,
         state' = state \/ \E p \in Slot : state[p] = "RUNNABLE" /\ state' = [state EXCEPT ![p] = "RUNNING"]
  PROVE  TreeInv' /\ [Tree!TreeNext]_(Tree!treevars)
<1>1. Quiet BY DEF Quiet, Alive, Inv, TypeOK
<1> QED BY <1>1, QuietTree

(* The state userinit() leaves is the tree that has only init. *)
LEMMA InitTree ==
  ASSUME Init
  PROVE  TreeInv /\ Tree!TreeInit
<1> USE SizeAssumption, BoundAssumption DEF Init, Slot, InitProc
<1>1. TreeInv BY DEF TreeInv
<1>2. PidsIn({"EMBRYO"}) = {} /\ PidsIn({"ZOMBIE"}) = {} BY DEF PidsIn
<1>3. PidsIn(Alive) = {1}
  <2>1. \A s \in Slot : state[s] \in Alive <=> s = 1 BY DEF Alive
  <2>2. 1 \in Slot /\ pid[1] = 1 OBVIOUS
  <2>3. PidsIn(Alive) \subseteq {1} BY <2>1, <2>2 DEF PidsIn
  <2>4. 1 \in PidsIn(Alive) BY <2>1, <2>2 DEF PidsIn
  <2> QED BY <2>3, <2>4
<1>4. \A n : ParentPid(n) = 0 BY DEF ParentPid, IsSlotOf
<1>5. [n \in 1 .. MaxPid |-> ParentPid(n)] = [n \in Tree!Pids |-> 0] BY <1>4 DEF Tree!Pids
<1>6. nextpid - 1 = 1 OBVIOUS
<1> QED BY <1>1, <1>2, <1>3, <1>5, <1>6 DEF Tree!TreeInit

-----------------------------------------------------------------------------
(* The FCFS kernel.                                                        *)

USE DEF NULL, Free, lockvars, timevars, memvars, idvars, thread, ForkLocs, InIsr

(* What scheduler() knows during its pass: minP is RUNNABLE, and of the    *)
(* slots behind the cursor no RUNNABLE one is older; without a minP none   *)
(* of them is RUNNABLE.                                                    *)
Oldest(m, k) ==
    IF m = NULL THEN \A s \in Slot : s < k => state[s] # "RUNNABLE"
    ELSE /\ state[m] = "RUNNABLE"
         /\ \A s \in Slot : s < k /\ state[s] = "RUNNABLE" => ctime[m] <= ctime[s]

PassInv ==
    /\ cursor \in [CPU -> 1 .. NPROC + 1] /\ minP \in [CPU -> Slot \cup {NULL}]
    /\ \A c \in CPU : cproc[c] = NULL /\ ptlock # c => cursor[c] = 1 /\ minP[c] = NULL
    /\ \A c \in CPU : cproc[c] = NULL => Oldest(minP[c], cursor[c])

FInv == Inv /\ PassInv

(* The initial state. *)
LEMMA FInitInv ==
  ASSUME FInit
  PROVE  FInv
<1>1. Inv BY InitInv DEF FInit
<1>2. PassInv BY SizeAssumption DEF FInit, PassInv, Oldest, Slot
<1> QED BY <1>1, <1>2 DEF FInv

(* A step of another kind than the pass. *)
LEMMA BesidePassInv ==
  ASSUME FInv, Inv', UNCHANGED passvars,
         \/ Tick \/ TickWakeup
         \/ \E d \in CPU : allocproc(d) \/ ForkCopy(d) \/ ProcStep(d)
  PROVE  FInv'
<1>1. \A c \in CPU : cproc'[c] = NULL => cproc[c] = NULL
  BY ProcStepKeepsCproc, TickKeepsCproc
<1>2. ASSUME NEW c \in CPU, cproc'[c] = NULL
      PROVE  /\ ptlock' # c => cursor'[c] = 1 /\ minP'[c] = NULL
             /\ Oldest(minP[c], cursor[c])'
  <2>1. cproc[c] = NULL BY <1>1, <1>2
  <2>2. cursor'[c] = cursor[c] /\ minP'[c] = minP[c] BY DEF passvars
  <2>3. ptlock' = c <=> ptlock = c BY <2>1, StepBesidePass DEF FInv
  <2>4. ptlock' # c => cursor'[c] = 1 /\ minP'[c] = NULL
    BY <2>1, <2>2, <2>3 DEF FInv, PassInv
  <2>5. CASE ptlock = c
    <3>1. \A s \in Slot : (state'[s] = "RUNNABLE" <=> state[s] = "RUNNABLE") /\ ctime'[s] = ctime[s]
      BY <2>1, <2>5, StepBesidePass DEF FInv
    <3>2. minP[c] \in Slot \cup {NULL} /\ Oldest(minP[c], cursor[c])
      BY <2>1 DEF FInv, PassInv
    <3> QED BY <2>2, <2>4, <3>1, <3>2 DEF Oldest
  <2>6. CASE ptlock # c
    <3>1. cursor'[c] = 1 /\ minP'[c] = NULL BY <2>3, <2>4, <2>6
    <3> QED BY <3>1 DEF Oldest, Slot
  <2> QED BY <2>5, <2>6
<1> QED BY <1>2 DEF FInv, PassInv, passvars

(* The pass itself. *)
LEMMA ScanSlotInv ==
  ASSUME FInv, NEW c \in CPU, ScanSlot(c)
  PROVE  FInv'
<1> DEFINE p == cursor[c]
<1>1. Inv'
  BY PassLockInv DEF ScanSlot, FInv
<1>2. /\ cproc[c] = NULL /\ ptlock' = c /\ ptlock \in {Free, c}
      /\ UNCHANGED <<cproc, state, ctime>>
      /\ cursor' = [cursor EXCEPT ![c] = p + 1]
      /\ minP' = [minP EXCEPT ![c] = IF state[p] = "RUNNABLE" /\ IsOlder(p, @) THEN p ELSE @]
  BY DEF ScanSlot, Scheduling
<1>3. p \in Slot /\ minP[c] \in Slot \cup {NULL} /\ Oldest(minP[c], p)
  BY <1>2 DEF FInv, PassInv, ScanSlot, Slot
<1>4. cursor' \in [CPU -> 1 .. NPROC + 1] /\ minP' \in [CPU -> Slot \cup {NULL}]
  BY <1>2, <1>3, SizeAssumption DEF FInv, PassInv, Slot
<1>5. \A s \in Slot : ctime[s] \in Nat
  BY DEF FInv, Inv, TypeOK
<1>6. Oldest(minP[c], cursor[c])'
  <2>1. cursor'[c] = p + 1 /\ \A s \in Slot : s < p + 1 <=> s < p \/ s = p
    BY <1>2, <1>3 DEF FInv, PassInv, Slot
  <2>2. CASE state[p] = "RUNNABLE" /\ IsOlder(p, minP[c])
    <3>1. minP'[c] = p BY <1>2, <2>2 DEF FInv, PassInv
    <3> QED BY <1>2, <1>3, <1>5, <2>1, <2>2, <3>1, NotNull DEF Oldest, IsOlder
  <2>3. CASE ~(state[p] = "RUNNABLE" /\ IsOlder(p, minP[c]))
    <3>1. minP'[c] = minP[c] BY <1>2, <2>3 DEF FInv, PassInv
    <3> QED BY <1>2, <1>3, <1>5, <2>1, <2>3, <3>1, NotNull DEF Oldest, IsOlder
  <2> QED BY <2>2, <2>3
<1>7. ASSUME NEW d \in CPU, d # c, cproc'[d] = NULL
      PROVE  /\ cursor'[d] = 1 /\ minP'[d] = NULL
             /\ Oldest(minP[d], cursor[d])'
  <2>1. cursor'[d] = 1 /\ minP'[d] = NULL
    BY <1>2, <1>7, NotNull DEF FInv, PassInv
  <2> QED BY <2>1 DEF Oldest, Slot
<1> QED BY <1>1, <1>2, <1>4, <1>6, <1>7 DEF FInv, PassInv

LEMMA DispatchInv ==
  ASSUME FInv, NEW c \in CPU, Dispatch(c)
  PROVE  /\ FInv'
         /\ minP[c] \in Slot /\ state[minP[c]] = "RUNNABLE"
         /\ \A s \in Slot : state[s] = "RUNNABLE" => ctime[minP[c]] <= ctime[s]
<1>1. /\ cproc[c] = NULL /\ ptlock \in {Free, c} /\ ~InIsr(c)
      /\ cursor[c] > NPROC /\ minP[c] # NULL
  BY DEF Dispatch, Scheduling
<1>2. minP[c] \in Slot /\ Oldest(minP[c], cursor[c])
  BY <1>1 DEF FInv, PassInv
<1>3. \A s \in Slot : s < cursor[c]
  BY <1>1, SizeAssumption DEF Slot, FInv, PassInv
<1>4. /\ state[minP[c]] = "RUNNABLE"
      /\ \A s \in Slot : state[s] = "RUNNABLE" => ctime[minP[c]] <= ctime[s]
  BY <1>1, <1>2, <1>3 DEF Oldest
<1>5. Inv'
  BY <1>1, <1>2, <1>4, SwitchToInv DEF Dispatch, FInv
<1>6. /\ UNCHANGED passvars /\ ptlock' = c
      /\ cproc' = [cproc EXCEPT ![c] = minP[c]]
  BY DEF Dispatch, SwitchTo
<1>7. ASSUME NEW d \in CPU, cproc'[d] = NULL
      PROVE  /\ cursor'[d] = 1 /\ minP'[d] = NULL
             /\ Oldest(minP[d], cursor[d])'
  <2>1. d # c /\ cproc[d] = NULL
    BY <1>1, <1>6, <1>7 DEF FInv, Inv, TypeOK
  <2>2. cursor'[d] = 1 /\ minP'[d] = NULL
    BY <1>1, <1>6, <2>1, NotNull DEF FInv, PassInv, passvars
  <2> QED BY <2>2 DEF Oldest, Slot
<1>8. PassInv'
  BY <1>6, <1>7 DEF FInv, PassInv, passvars
<1> QED BY <1>2, <1>4, <1>5, <1>8 DEF FInv

(* The end of a pass, with or without a process. *)
LEMMA NewPassInv ==
  ASSUME FInv, NEW c \in CPU, NewPass(c), ptlock \in {Free, c}, state' = state, ctime' = ctime, Inv',
         \A d \in CPU \ {c} : cproc'[d] = cproc[d]
  PROVE  FInv'
<1>1. ASSUME NEW d \in CPU, cproc'[d] = NULL
      PROVE  /\ cursor'[d] = 1 /\ minP'[d] = NULL
             /\ Oldest(minP[d], cursor[d])'
  <2>1. cursor'[d] = 1 /\ minP'[d] = NULL
    BY <1>1, NotNull DEF FInv, PassInv, NewPass, NewMinP
  <2> QED BY <2>1 DEF Oldest, Slot
<1>2. cursor' \in [CPU -> 1 .. NPROC + 1] /\ minP' \in [CPU -> Slot \cup {NULL}]
  BY SizeAssumption DEF FInv, PassInv, NewPass, NewMinP
<1> QED BY <1>1, <1>2 DEF FInv, PassInv

(* Every step of the FCFS kernel preserves the invariant. *)
LEMMA NextInv ==
  ASSUME FInv, [Next]_fcfsvars
  PROVE  FInv'
<1>0. Inv BY DEF FInv
<1>1. CASE (Tick \/ TickWakeup) /\ UNCHANGED passvars
  BY <1>0, <1>1, TickInv, TickWakeupInv, BesidePassInv
<1>2. ASSUME NEW c \in CPU, allocproc(c) \/ ForkCopy(c) \/ ProcStep(c), UNCHANGED passvars
      PROVE  FInv'
  <2>1. Inv' BY <1>0, <1>2, allocprocInv, ForkCopyInv, ProcStepInv
  <2> QED BY <1>2, <2>1, BesidePassInv
<1>3. ASSUME NEW c \in CPU, ScanSlot(c) \/ Dispatch(c) PROVE FInv'
  BY <1>3, ScanSlotInv, DispatchInv
<1>4. ASSUME NEW c \in CPU, IdlePass(c) PROVE FInv'
  <2>1. Inv' BY <1>0, <1>4, PassLockInv DEF IdlePass, NewPass
  <2> QED BY <1>4, <2>1, NewPassInv DEF IdlePass, Scheduling
<1>5. ASSUME NEW c \in CPU, SchedReturn(c) PROVE FInv'
  <2>1. Inv' BY <1>0, <1>5, SwitchedOutInv DEF SchedReturn, NewPass
  <2>2. \A d \in CPU \ {c} : cproc'[d] = cproc[d]
    BY <1>0, <1>5 DEF SchedReturn, Inv, TypeOK
  <2> QED BY <1>5, <2>1, <2>2, NewPassInv DEF SchedReturn, SwitchedOut
<1>6. CASE UNCHANGED fcfsvars
  <2>1. Inv' BY <1>0, <1>6, StutterInv DEF fcfsvars
  <2> QED BY <1>6, <2>1 DEF FInv, PassInv, Oldest, fcfsvars, procvars, passvars
<1> QED BY <1>1, <1>2, <1>3, <1>4, <1>5, <1>6 DEF Next, Pass

(* The inductive invariant holds in every reachable state of src/fcfs. *)
THEOREM FcfsInvariant == Spec => []FInv
<1>1. FInit => FInv
  BY FInitInv
<1>2. FInv /\ [Next]_fcfsvars => FInv'
  BY NextInv
<1> QED BY <1>1, <1>2, PTL DEF Spec

(* Every variable of the FCFS kernel keeps its type. *)
THEOREM FcfsTypeOK == Spec => []TypeOK
<1>1. FInv => TypeOK BY InvImplies DEF FInv
<1> QED BY <1>1, FcfsInvariant, PTL

(* No process runs on two CPUs. *)
THEOREM FcfsOneCpuPerProcess == Spec => []OneCpuPerProcess
<1>1. FInv => OneCpuPerProcess BY InvImplies DEF FInv
<1> QED BY <1>1, FcfsInvariant, PTL

(* No kernel stack or page table in use is freed. *)
THEOREM FcfsStackSafe == Spec => []StackSafe
<1>1. FInv => StackSafe BY InvImplies DEF FInv
<1> QED BY <1>1, FcfsInvariant, PTL

(* The assertions of sched() never fail. *)
THEOREM FcfsSchedAssertions == Spec => []SchedAssertions
<1>1. FInv => SchedAssertions BY InvImplies DEF FInv
<1> QED BY <1>1, FcfsInvariant, PTL

(* Every process has a live parent; free slots have none. *)
THEOREM FcfsFamilyTree == Spec => []FamilyTree
<1>1. FInv => FamilyTree BY InvImplies DEF FInv
<1> QED BY <1>1, FcfsInvariant, PTL

(* Slots and pids in use are not shared. *)
THEOREM FcfsSlotsAndPids == Spec => []SlotsAndPids
<1>1. FInv => SlotsAndPids BY InvImplies DEF FInv
<1> QED BY <1>1, FcfsInvariant, PTL

(* sys_sleep() misses no tick. *)
THEOREM FcfsNoLostTick == Spec => []NoLostTick
<1>1. FInv => NoLostTick BY InvImplies DEF FInv
<1> QED BY <1>1, FcfsInvariant, PTL

(* wait() and procstat() miss no exit. *)
THEOREM FcfsNoLostExit == Spec => []NoLostExit
<1>1. FInv => NoLostExit BY InvImplies DEF FInv
<1> QED BY <1>1, FcfsInvariant, PTL

(* Only Dispatch gives an idle CPU a process. *)
LEMMA NextDispatchesOldest ==
  ASSUME FInv, [Next]_fcfsvars, NEW c \in CPU, cproc[c] = NULL, cproc'[c] # NULL
  PROVE  /\ state[cproc'[c]] = "RUNNABLE"
         /\ \A s \in Slot : state[s] = "RUNNABLE" => ctime[cproc'[c]] <= ctime[s]
<1>1. CASE \E d \in CPU : Dispatch(d)
  <2>1. PICK d \in CPU : Dispatch(d) BY <1>1
  <2>2. cproc' = [cproc EXCEPT ![d] = minP[d]] BY <2>1 DEF Dispatch, SwitchTo
  <2>3. d = c /\ cproc'[c] = minP[c] BY <2>2 DEF FInv, Inv, TypeOK
  <2> QED BY <2>1, <2>3, DispatchInv
<1>2. CASE ~\E d \in CPU : Dispatch(d)
  <2>1. cproc' = cproc \/ \E d \in CPU : SchedReturn(d)
    BY <1>2, TickKeepsCproc, ProcStepKeepsCproc DEF Next, Pass, IdlePass, ScanSlot, fcfsvars, procvars
  <2>2. cproc'[c] = cproc[c] \/ cproc'[c] = NULL
    BY <2>1 DEF SchedReturn, FInv, Inv, TypeOK
  <2> QED BY <2>2
<1> QED BY <1>1, <1>2

(* The FCFS scheduler never passes over a RUNNABLE process that is older:  *)
(* its pass, slot by slot beside the other CPUs, ends with the oldest.     *)
THEOREM FcfsDispatchOldest == Spec => DispatchOldest
<1>1. FInv /\ [Next]_fcfsvars =>
        [\A c \in CPU : cproc[c] = NULL /\ cproc'[c] # NULL =>
           /\ state[cproc'[c]] = "RUNNABLE"
           /\ \A s \in Slot : state[s] = "RUNNABLE" => ctime[cproc'[c]] <= ctime[s]]_fcfsvars
  BY NextDispatchesOldest
<1> QED BY <1>1, FcfsInvariant, PTL DEF Spec, DispatchOldest

(* Every step of the FCFS kernel is a step of ProcTree, or is not seen. *)
LEMMA NextTree ==
  ASSUME FInv, FInv', TreeInv, [Next]_fcfsvars
  PROVE  TreeInv' /\ [Tree!TreeNext]_(Tree!treevars)
<1>0. Inv /\ Inv' BY DEF FInv
<1>1. CASE Tick \/ TickWakeup
  <2>1. 0 \in CPU BY SizeAssumption DEF CPU
  <2> QED BY <1>0, <1>1, <2>1, ProcTreeStep
<1>2. CASE \E c \in CPU : allocproc(c) \/ ForkCopy(c) \/ ProcStep(c)
  BY <1>0, <1>2, ProcTreeStep
<1>3. CASE \E c \in CPU : Dispatch(c)
  <2>1. PICK c \in CPU : Dispatch(c) BY <1>3
  <2>2. minP[c] \in Slot /\ state[minP[c]] = "RUNNABLE"
    BY <2>1, DispatchInv
  <2>3. state' = [state EXCEPT ![minP[c]] = "RUNNING"] /\ UNCHANGED idvars
    BY <2>1 DEF Dispatch, SwitchTo
  <2> QED BY <1>0, <2>2, <2>3, SwitchTree
<1>4. CASE (\E c \in CPU : ScanSlot(c) \/ IdlePass(c) \/ SchedReturn(c)) \/ UNCHANGED fcfsvars
  <2>1. state' = state /\ UNCHANGED idvars
    BY <1>4 DEF ScanSlot, IdlePass, SchedReturn, fcfsvars, procvars
  <2> QED BY <1>0, <2>1, SwitchTree
<1> QED BY <1>1, <1>2, <1>3, <1>4 DEF Next, Pass

(* The process table of src/fcfs implements ProcTree: pids are issued in   *)
(* order, and every process exits once and is collected once, by its       *)
(* parent, however fork(), exit(), wait() and procstat() interleave.       *)
THEOREM FcfsTreeRefinement == Spec => TreeRefinement
<1>1. FInit => TreeInv /\ Tree!TreeInit
  BY InitTree DEF FInit
<1>2. FInv /\ FInv' /\ TreeInv /\ [Next]_fcfsvars => TreeInv' /\ [Tree!TreeNext]_(Tree!treevars)
  BY NextTree
<1> QED BY <1>1, <1>2, FcfsInvariant, PTL DEF Spec, TreeRefinement, Tree!TreeSpec

-----------------------------------------------------------------------------
(* The priority kernel.                                                    *)

(* What scheduler() knows in its inner loop: highP is RUNNABLE, and no     *)
(* RUNNABLE process in the slots behind p1 has a better priority.          *)
Best(m, k) ==
    /\ state[m] = "RUNNABLE"
    /\ \A s \in Slot : s < k /\ state[s] = "RUNNABLE" => priority[m] <= priority[s]

LoopInv ==
    \A c \in CPU : highP[c] # NULL =>
        cproc[c] = NULL /\ ptlock = c /\ Best(highP[c], p1[c])

(* The scheduler's own variables, and Inv. *)
PInv == Inv /\ PTypeOK /\ LoopInv

(* The outer loop goes on with a RUNNABLE process. *)
LEMMA AheadRunnable ==
  ASSUME NEW c \in CPU, Ahead(c) # {}
  PROVE  First(Ahead(c)) \in Runnable
<1>1. Ahead(c) \subseteq Slot /\ Ahead(c) \subseteq Runnable
  BY DEF Ahead, Runnable
<1> QED BY <1>1, FirstInSet

(* The initial state. *)
LEMMA PInitInv ==
  ASSUME PInit
  PROVE  PInv
<1>1. Inv BY InitInv DEF PInit
<1>2. PTypeOK BY <1>1, SizeAssumption DEF PInit, PTypeOK, Inv, NoPrio
<1>3. LoopInv BY DEF PInit, LoopInv
<1> QED BY <1>1, <1>2, <1>3 DEF PInv

(* A step of another kind than the two loops, which gives no RUNNABLE      *)
(* process another priority.                                               *)
LEMMA BesideLoopInv ==
  ASSUME PInv, Inv', PTypeOK', UNCHANGED loopvars,
         \A s \in Slot : state[s] = "RUNNABLE" => priority'[s] = priority[s],
         \/ Tick \/ TickWakeup
         \/ \E d \in CPU : allocproc(d) \/ ForkCopy(d) \/ ProcStep(d)
  PROVE  PInv'
<1>1. ASSUME NEW c \in CPU, highP'[c] # NULL
      PROVE  cproc'[c] = NULL /\ ptlock' = c /\ Best(highP[c], p1[c])'
  <2>1. highP'[c] = highP[c] /\ p1'[c] = p1[c] BY DEF loopvars
  <2>2. cproc[c] = NULL /\ ptlock = c /\ Best(highP[c], p1[c])
    BY <1>1, <2>1 DEF PInv, LoopInv
  <2>3. highP[c] \in Slot BY <1>1, <2>1 DEF PInv, PTypeOK
  <2>4. /\ cproc' = cproc /\ ptlock' = c
        /\ \A s \in Slot : state'[s] = "RUNNABLE" <=> state[s] = "RUNNABLE"
    BY <2>2, StepBesidePass DEF PInv
  <2> QED BY <2>1, <2>2, <2>3, <2>4 DEF Best
<1> QED BY <1>1 DEF PInv, LoopInv

(* A step that leaves the scheduler's own variables alone. *)
LEMMA SharedInv ==
  ASSUME PInv, Inv', UNCHANGED priovars,
         \/ Tick \/ TickWakeup
         \/ \E d \in CPU : allocproc(d) \/ ForkCopy(d) \/ ProcStep(d)
  PROVE  PInv'
<1>1. PTypeOK' BY DEF PTypeOK, PInv, Inv, priovars, loopvars
<1> QED BY <1>1, BesideLoopInv DEF priovars, loopvars

(* fork() and custmpro(): only an EMBRYO slot is given a priority. *)
LEMMA ForkingInv ==
  ASSUME PInv, NEW c \in CPU, Fork(c) \/ CopyProc(c) \/ \E n \in Priorities : Custmpro(c, n)
  PROVE  PInv'
<1> USE DEF PInv
<1>2. ASSUME Fork(c) PROVE PInv'
  <2>1. Inv' BY <1>2, allocprocInv DEF Fork
  <2>2. PTypeOK' BY <1>2, <2>1 DEF Fork, PTypeOK, Inv, NoPrio, loopvars
  <2> QED BY <1>2, <2>1, <2>2, BesideLoopInv DEF Fork
<1>3. ASSUME NEW n \in Priorities, Custmpro(c, n) PROVE PInv'
  <2>1. Inv' BY <1>3, allocprocInv DEF Custmpro
  <2>2. PTypeOK' BY <1>3, <2>1, PrioritiesAssumption DEF Custmpro, PTypeOK, Inv, loopvars
  <2> QED BY <1>3, <2>1, <2>2, BesideLoopInv DEF Custmpro
<1>4. ASSUME CopyProc(c) PROVE PInv'
  <2> DEFINE p == cproc[c]
  <2>1. Inv' BY <1>4, ForkCopyInv DEF CopyProc
  <2>2. p \in Slot /\ pc[p] = "copy"
    BY <1>4 DEF CopyProc, ForkCopy, At, Inv, TypeOK
  <2>3. np[p] \in Slot /\ state[np[p]] = "EMBRYO"
    BY <2>2 DEF Inv, ForkInv, TypeOK, ForkLocs
  <2>4. newprio' \in [Slot -> Nat \cup {NoPrio}] /\ UNCHANGED loopvars
    BY <1>4, <2>2 DEF CopyProc, PTypeOK
  <2>5. /\ priority' \in [Slot -> Nat]
        /\ \A s \in Slot : state[s] = "RUNNABLE" => priority'[s] = priority[s]
    <3>1. CASE newprio[p] = NoPrio BY <1>4, <3>1 DEF CopyProc, PTypeOK
    <3>2. CASE newprio[p] # NoPrio
      <4>1. newprio[p] \in Nat BY <2>2, <3>2 DEF PTypeOK
      <4>2. priority' = [priority EXCEPT ![np[p]] = newprio[p]] BY <1>4, <3>2 DEF CopyProc
      <4> QED BY <2>3, <4>1, <4>2 DEF PTypeOK
    <3> QED BY <3>1, <3>2
  <2>6. PTypeOK' BY <2>1, <2>4, <2>5 DEF PTypeOK, Inv, loopvars
  <2> QED BY <1>4, <2>1, <2>4, <2>5, <2>6, BesideLoopInv DEF CopyProc
<1> QED BY <1>2, <1>3, <1>4

(* The two loops. *)
LEMMA OuterLoopInv ==
  ASSUME PInv, NEW c \in CPU, OuterLoop(c)
  PROVE  PInv'
<1> DEFINE p == First(Ahead(c))
<1>1. p \in Slot /\ state[p] = "RUNNABLE"
  BY AheadRunnable DEF OuterLoop, Runnable
<1>2. /\ Scheduling(c) /\ highP[c] = NULL /\ ptlock' = c
      /\ scan' = [scan EXCEPT ![c] = p] /\ highP' = [highP EXCEPT ![c] = p]
      /\ p1' = [p1 EXCEPT ![c] = 1]
      /\ UNCHANGED <<state, cproc, priority, newprio>>
      /\ UNCHANGED <<tickslock, isr, timevars, memvars, idvars, killed, chan, thread>>
  BY DEF OuterLoop, LoopStep
<1> HIDE DEF p
<1>3. Inv'
  BY <1>2, PassLockInv DEF PInv
<1>4. PTypeOK'
  BY <1>1, <1>2, <1>3, SizeAssumption DEF PTypeOK, PInv, Inv, Slot
<1>5. ASSUME NEW d \in CPU, highP'[d] # NULL
      PROVE  cproc'[d] = NULL /\ ptlock' = d /\ Best(highP[d], p1[d])'
  <2>1. d = c
    BY <1>2, <1>5, NotNull DEF PInv, PTypeOK, LoopInv, Scheduling
  <2>2. highP'[c] = p /\ p1'[c] = 1
    BY <1>2 DEF PInv, PTypeOK
  <2> QED BY <1>1, <1>2, <2>1, <2>2 DEF Best, Scheduling, Slot
<1> QED BY <1>3, <1>4, <1>5 DEF PInv, LoopInv

LEMMA InnerLoopInv ==
  ASSUME PInv, NEW c \in CPU, InnerLoop(c)
  PROVE  PInv'
<1> DEFINE q == p1[c]
           m == highP[c]
<1>1. /\ Scheduling(c) /\ m # NULL /\ q <= NPROC
      /\ highP' = [highP EXCEPT ![c] = IF state[q] = "RUNNABLE" /\ priority[@] > priority[q]
                                         THEN q ELSE @]
      /\ p1' = [p1 EXCEPT ![c] = q + 1]
      /\ UNCHANGED <<ptlock, scan, state, cproc, priority, newprio>>
      /\ UNCHANGED <<tickslock, isr, timevars, memvars, idvars, killed, chan, thread>>
  BY DEF InnerLoop, LoopStep
<1>2. cproc[c] = NULL /\ ptlock = c /\ Best(m, q) /\ m \in Slot /\ q \in Slot
  BY <1>1 DEF PInv, LoopInv, PTypeOK, Slot
<1>3. Inv'
  BY <1>1, <1>2, PassLockInv DEF PInv
<1>4. PTypeOK'
  BY <1>1, <1>2, <1>3, SizeAssumption DEF PTypeOK, PInv, Inv, Slot
<1>5. Best(highP[c], p1[c])'
  <2>1. p1'[c] = q + 1 /\ \A s \in Slot : s < q + 1 <=> s < q \/ s = q
    BY <1>1, <1>2 DEF PInv, PTypeOK, Slot
  <2>2. \A s \in Slot : priority[s] \in Nat BY DEF PInv, PTypeOK
  <2>3. CASE state[q] = "RUNNABLE" /\ priority[m] > priority[q]
    <3>1. highP'[c] = q BY <1>1, <2>3 DEF PInv, PTypeOK
    <3> QED BY <1>1, <1>2, <2>1, <2>2, <2>3, <3>1 DEF Best
  <2>4. CASE ~(state[q] = "RUNNABLE" /\ priority[m] > priority[q])
    <3>1. highP'[c] = m BY <1>1, <2>4 DEF PInv, PTypeOK
    <3> QED BY <1>1, <1>2, <2>1, <2>2, <2>4, <3>1 DEF Best
  <2> QED BY <2>3, <2>4
<1>6. ASSUME NEW d \in CPU, highP'[d] # NULL
      PROVE  cproc'[d] = NULL /\ ptlock' = d /\ Best(highP[d], p1[d])'
  <2>1. d = c
    BY <1>1, <1>2, <1>6 DEF PInv, PTypeOK, LoopInv
  <2> QED BY <1>1, <1>2, <1>5, <2>1
<1> QED BY <1>3, <1>4, <1>6 DEF PInv, LoopInv

LEMMA PDispatchInv ==
  ASSUME PInv, NEW c \in CPU, PDispatch(c)
  PROVE  /\ PInv'
         /\ highP[c] \in Runnable /\ \A s \in Runnable : priority[highP[c]] <= priority[s]
<1> DEFINE m == highP[c]
<1>1. /\ Scheduling(c) /\ m # NULL /\ p1[c] > NPROC /\ SwitchTo(c, m)
      /\ scan' = [scan EXCEPT ![c] = m + 1] /\ highP' = [highP EXCEPT ![c] = NULL]
      /\ p1' = [p1 EXCEPT ![c] = 1]
      /\ UNCHANGED <<priority, newprio>>
      /\ UNCHANGED <<tickslock, isr, timevars, memvars, idvars, killed, chan, thread>>
  BY DEF PDispatch, LoopStep
<1>2. cproc[c] = NULL /\ ptlock = c /\ Best(m, p1[c]) /\ m \in Slot
  BY <1>1 DEF PInv, LoopInv, PTypeOK
<1>3. \A s \in Slot : s < p1[c]
  BY <1>1, SizeAssumption DEF PInv, PTypeOK, Slot
<1>4. m \in Runnable /\ \A s \in Runnable : priority[m] <= priority[s]
  BY <1>2, <1>3 DEF Best, Runnable
<1>5. Inv'
  BY <1>1, <1>2, <1>4, SwitchToInv DEF PInv, Scheduling, Runnable
<1>6. PTypeOK'
  BY <1>1, <1>2, <1>5, SizeAssumption DEF PTypeOK, PInv, Inv, Slot
<1>7. \A d \in CPU : highP'[d] = NULL
  BY <1>1, <1>2 DEF PInv, PTypeOK, LoopInv
<1> QED BY <1>4, <1>5, <1>6, <1>7 DEF PInv, LoopInv

LEMMA EndPassInv ==
  ASSUME PInv, NEW c \in CPU, EndPass(c)
  PROVE  PInv'
<1>1. /\ Scheduling(c) /\ highP[c] = NULL /\ ptlock' = Free
      /\ scan' = [scan EXCEPT ![c] = 1]
      /\ UNCHANGED <<state, cproc, highP, p1, priority, newprio>>
      /\ UNCHANGED <<tickslock, isr, timevars, memvars, idvars, killed, chan, thread>>
  BY DEF EndPass, LoopStep
<1>2. Inv'
  BY <1>1, PassLockInv DEF PInv
<1>3. PTypeOK'
  BY <1>1, <1>2, SizeAssumption DEF PTypeOK, PInv, Inv
<1>4. \A d \in CPU : highP'[d] = NULL
  BY <1>1, NotNull DEF PInv, LoopInv, Scheduling
<1> QED BY <1>2, <1>3, <1>4 DEF PInv, LoopInv

LEMMA PSchedReturnInv ==
  ASSUME PInv, NEW c \in CPU, PSchedReturn(c)
  PROVE  PInv'
<1>1. /\ SwitchedOut(c) /\ cproc' = [cproc EXCEPT ![c] = NULL]
      /\ UNCHANGED <<lockvars, timevars, memvars, idvars, state, killed, chan, thread, priovars>>
  BY DEF PSchedReturn
<1>2. Inv'
  BY <1>1, SwitchedOutInv DEF PInv, SwitchedOut
<1>3. PTypeOK'
  BY <1>1, <1>2 DEF PTypeOK, PInv, Inv, priovars, loopvars
<1>4. \A d \in CPU : highP'[d] = NULL
  BY <1>1 DEF PInv, LoopInv, SwitchedOut, priovars, loopvars
<1> QED BY <1>2, <1>3, <1>4 DEF PInv, LoopInv

(* Every step of the priority kernel preserves the invariant. *)
LEMMA PNextInv ==
  ASSUME PInv, [PNext]_vars
  PROVE  PInv'
<1>0. Inv BY DEF PInv
<1>1. CASE PTick
  BY <1>0, <1>1, TickInv, TickWakeupInv, SharedInv DEF PTick
<1>2. ASSUME NEW c \in CPU, Fork(c) \/ CopyProc(c) \/ \E n \in Priorities : Custmpro(c, n)
      PROVE PInv'
  BY <1>2, ForkingInv
<1>3. ASSUME NEW c \in CPU, ProcStep(c), UNCHANGED priovars PROVE PInv'
  BY <1>0, <1>3, ProcStepInv, SharedInv
<1>4. ASSUME NEW c \in CPU,
             OuterLoop(c) \/ InnerLoop(c) \/ PDispatch(c) \/ EndPass(c) \/ PSchedReturn(c)
      PROVE PInv'
  BY <1>4, OuterLoopInv, InnerLoopInv, PDispatchInv, EndPassInv, PSchedReturnInv
<1>5. CASE UNCHANGED vars
  <2>1. Inv' BY <1>0, <1>5, StutterInv DEF vars
  <2> QED BY <1>5, <2>1
          DEF vars, procvars, priovars, loopvars, PInv, PTypeOK, LoopInv, Best, Inv
<1> QED
  BY <1>1, <1>2, <1>3, <1>4, <1>5
  DEF PNext, ProcStep, PForkStep, PExitStep, PWait, PStatStep, PSleepStep, PKillStep, PPs, PYieldStep

(* The inductive invariant holds in every reachable state of src/priority. *)
THEOREM PriorityInvariant == PSpec => []PInv
<1>1. PInit => PInv
  BY PInitInv
<1>2. PInv /\ [PNext]_vars => PInv'
  BY PNextInv
<1> QED BY <1>1, <1>2, PTL DEF PSpec

(* Every variable of the priority kernel keeps its type. *)
THEOREM PriorityTypeOK == PSpec => []PTypeOK
<1>1. PInv => PTypeOK BY DEF PInv
<1> QED BY <1>1, PriorityInvariant, PTL

(* No process runs on two CPUs. *)
THEOREM PriorityOneCpuPerProcess == PSpec => []OneCpuPerProcess
<1>1. PInv => OneCpuPerProcess BY InvImplies DEF PInv
<1> QED BY <1>1, PriorityInvariant, PTL

(* No kernel stack or page table in use is freed. *)
THEOREM PriorityStackSafe == PSpec => []StackSafe
<1>1. PInv => StackSafe BY InvImplies DEF PInv
<1> QED BY <1>1, PriorityInvariant, PTL

(* The other invariants of the process table. *)
THEOREM PriorityTable ==
  PSpec => [](SchedAssertions /\ FamilyTree /\ SlotsAndPids /\ NoLostTick /\ NoLostExit)
<1>1. PInv => SchedAssertions /\ FamilyTree /\ SlotsAndPids /\ NoLostTick /\ NoLostExit
  BY InvImplies DEF PInv
<1> QED BY <1>1, PriorityInvariant, PTL

(* Only PDispatch gives an idle CPU a process. *)
LEMMA PNextDispatchesBest ==
  ASSUME PInv, [PNext]_vars, NEW c \in CPU, cproc[c] = NULL, cproc'[c] # NULL
  PROVE  cproc'[c] \in Runnable /\ \A s \in Runnable : priority[cproc'[c]] <= priority[s]
<1>1. CASE \E d \in CPU : PDispatch(d)
  <2>1. PICK d \in CPU : PDispatch(d) BY <1>1
  <2>2. cproc' = [cproc EXCEPT ![d] = highP[d]] BY <2>1 DEF PDispatch, SwitchTo
  <2>3. d = c /\ cproc'[c] = highP[c] BY <2>2 DEF PInv, Inv, TypeOK
  <2> QED BY <2>1, <2>3, PDispatchInv
<1>2. CASE ~\E d \in CPU : PDispatch(d)
  <2>1. cproc' = cproc \/ \E d \in CPU : PSchedReturn(d)
    BY <1>2, TickKeepsCproc, ProcStepKeepsCproc
    DEF PNext, PTick, Fork, Custmpro, CopyProc, ProcStep, PForkStep, PExitStep, PWait, PStatStep,
        PSleepStep, PKillStep, PPs, PYieldStep, OuterLoop, InnerLoop, EndPass, vars, procvars
  <2>2. cproc'[c] = cproc[c] \/ cproc'[c] = NULL
    BY <2>1 DEF PSchedReturn, PInv, Inv, TypeOK
  <2> QED BY <2>2
<1> QED BY <1>1, <1>2

(* The priority scheduler always switches to a process of best priority:   *)
(* its two loops, slot by slot beside the other CPUs, end with one.        *)
THEOREM PriorityDispatchBest == PSpec => DispatchBest
<1>1. PInv /\ [PNext]_vars =>
        [\A c \in CPU : cproc[c] = NULL /\ cproc'[c] # NULL =>
           /\ cproc'[c] \in Runnable
           /\ \A s \in Runnable : priority[cproc'[c]] <= priority[s]]_vars
  BY PNextDispatchesBest
<1> QED BY <1>1, PriorityInvariant, PTL DEF PSpec, DispatchBest

(* Every step of the priority kernel is a step of ProcTree, or is not seen. *)
LEMMA PNextTree ==
  ASSUME PInv, PInv', TreeInv, [PNext]_vars
  PROVE  TreeInv' /\ [Tree!TreeNext]_(Tree!treevars)
<1>1. Inv /\ Inv' BY DEF PInv
<1>2. CASE PTick
  <2>1. 0 \in CPU BY SizeAssumption DEF CPU
  <2> QED BY <1>1, <1>2, <2>1, ProcTreeStep DEF PTick
<1>3. CASE \E c \in CPU : allocproc(c) \/ ForkCopy(c) \/ ProcStep(c)
  BY <1>1, <1>3, ProcTreeStep
<1>4. CASE \E c \in CPU : PDispatch(c)
  <2>1. PICK c \in CPU : PDispatch(c) BY <1>4
  <2>2. highP[c] \in Slot /\ state[highP[c]] = "RUNNABLE"
    BY <2>1, PDispatchInv DEF Runnable
  <2>3. state' = [state EXCEPT ![highP[c]] = "RUNNING"] /\ UNCHANGED idvars
    BY <2>1 DEF PDispatch, LoopStep, SwitchTo
  <2> QED BY <1>1, <2>2, <2>3, SwitchTree
<1>5. CASE \/ \E c \in CPU : OuterLoop(c) \/ InnerLoop(c) \/ EndPass(c) \/ PSchedReturn(c)
           \/ UNCHANGED vars
  <2>1. state' = state /\ UNCHANGED idvars
    BY <1>5 DEF OuterLoop, InnerLoop, EndPass, LoopStep, PSchedReturn, vars, procvars
  <2> QED BY <1>1, <2>1, SwitchTree
<1>6. CASE \E c \in CPU : Fork(c) \/ CopyProc(c) \/ \E n \in Priorities : Custmpro(c, n)
  <2>1. \E c \in CPU : allocproc(c) \/ ForkCopy(c) BY <1>6 DEF Fork, CopyProc, Custmpro
  <2> QED BY <1>3, <2>1
<1>7. CASE \E c \in CPU : \/ PForkStep(c) \/ PExitStep(c) \/ PWait(c) \/ PStatStep(c)
                         \/ PSleepStep(c) \/ PKillStep(c) \/ PPs(c) \/ PYieldStep(c)
  <2>1. \E c \in CPU : ProcStep(c)
    BY <1>7 DEF ProcStep, PForkStep, PExitStep, PWait, PStatStep, PSleepStep, PKillStep, PPs,
                PYieldStep
  <2> QED BY <1>3, <2>1
<1> QED BY <1>2, <1>4, <1>5, <1>6, <1>7 DEF PNext

(* The process table of src/priority, where custmpro() forks too,          *)
(* implements ProcTree: every process exits once and is collected once,    *)
(* by its parent, whatever order the scheduler chooses.                    *)
THEOREM PriorityTreeRefinement == PSpec => TreeRefinement
<1>1. PInit => TreeInv /\ Tree!TreeInit
  BY InitTree DEF PInit
<1>2. PInv /\ PInv' /\ TreeInv /\ [PNext]_vars => TreeInv' /\ [Tree!TreeNext]_(Tree!treevars)
  BY PNextTree
<1> QED BY <1>1, <1>2, PriorityInvariant, PTL DEF PSpec, TreeRefinement, Tree!TreeSpec
=============================================================================
