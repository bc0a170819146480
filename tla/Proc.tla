-------------------------------- MODULE Proc --------------------------------
(***************************************************************************)
(* The process table of the xv6 kernel (proc.c), with the trap paths that  *)
(* drive it (trap.c, sysproc.c): fork, exit, wait, procstat, sleep, kill,  *)
(* ps, yield, the timer interrupt, and sched()'s hand-over of ptable.lock  *)
(* between a process and the scheduler of its CPU.  Everything except the  *)
(* scheduler's choice is common to the two kernels of the repository; the  *)
(* choice is in FcfsSched (src/fcfs) and PrioritySched (src/priority).     *)
(*                                                                         *)
(* A critical section of ptable.lock that does not cross a swtch is one    *)
(* step.  One that does (yield, sleep, exit, the dispatch) leaves ptlock   *)
(* held by the CPU; the kernel thread on the other side of the swtch goes  *)
(* on with the lock held.                                                  *)
(***************************************************************************)
EXTENDS Integers, FiniteSets

CONSTANTS
    NPROC,       \* slots of ptable.proc
    NCPU,        \* processors that run scheduler()
    MaxTicks,    \* bound: ticks stays at MaxTicks once it is reached
    MaxPid,      \* bound: no fork once nextpid is beyond MaxPid
    SleepTimes,  \* arguments user code passes to sleep()
    KillPids,    \* arguments user code passes to kill()
    StatPids     \* arguments user code passes to procstat()

ASSUME SizeAssumption == NPROC \in Nat \ {0} /\ NCPU \in Nat \ {0}
ASSUME BoundAssumption == MaxTicks \in Nat /\ MaxPid \in Nat
ASSUME ArgAssumption ==
    SleepTimes \subseteq Int /\ KillPids \subseteq Nat /\ StatPids \subseteq Nat

Slot == 1 .. NPROC
CPU  == 0 .. NCPU - 1
NULL == 0              \* the null struct proc*, and the null channel
Free == -1             \* a spinlock nobody holds
InitProc == 1          \* the slot userinit() allocates
TicksChan == NPROC + 1 \* the channel &ticks; a slot is the channel of its process

ProcStates == {"UNUSED", "EMBRYO", "SLEEPING", "RUNNABLE", "RUNNING", "ZOMBIE"}

(* Where the kernel thread of a process continues:                         *)
(*   user     in user space                                                *)
(*   uyield   in yield(), from a timer interrupt of user code              *)
(*   kstack, copy, ready   in fork(): before kalloc, copyuvm, RUNNABLE     *)
(*   waiting, pstat        in the sleep() of wait() and procstat()         *)
(*   tosleep  in sys_sleep with tickslock held, about to call sleep()      *)
(*   slept    in that sleep();  relock   about to reacquire tickslock      *)
(*   ret      back in trap() after syscall();  exit   in exit()            *)
(*   forkret  not yet run;  panic   stopped in panic();  none   no thread  *)
(* A process preempted in the kernel keeps its location.                   *)
Locs == {"none", "forkret", "user", "uyield", "kstack", "copy", "ready", "waiting",
         "pstat", "tosleep", "slept", "relock", "ret", "exit", "panic"}

VARIABLES
    ptlock, tickslock,   \* the CPU holding the lock, or Free
    isr,                 \* progress of CPU 0's timer interrupt
    ticks, nextpid,
    state, pid, parent, killed, chan, ctime, etime,  \* fields of struct proc
    kstack, pgdir,       \* whether the slot's stack and page table are allocated
    cproc,               \* cpu->proc
    pc, np, arg          \* per kernel thread: location, fork's np, a sleep's deadline
                         \* or a procstat's pid

lockvars == <<ptlock, tickslock, isr>>
timevars == <<ticks, ctime, etime>>
memvars  == <<kstack, pgdir>>
idvars   == <<nextpid, pid, parent>>
thread   == <<pc, np, arg>>
procvars == <<lockvars, timevars, memvars, idvars, state, killed, chan, cproc, thread>>

-----------------------------------------------------------------------------
(* The state userinit() and the first mpmain()s leave: one RUNNABLE        *)
(* process, every CPU in scheduler().                                      *)
Init ==
    /\ ptlock = Free /\ tickslock = Free /\ isr = "off"
    /\ ticks = 0 /\ nextpid = 2
    /\ state  = [s \in Slot |-> IF s = InitProc THEN "RUNNABLE" ELSE "UNUSED"]
    /\ pid    = [s \in Slot |-> IF s = InitProc THEN 1 ELSE 0]
    /\ parent = [s \in Slot |-> NULL]
    /\ killed = [s \in Slot |-> FALSE]
    /\ chan   = [s \in Slot |-> NULL]
    /\ ctime  = [s \in Slot |-> 0]
    /\ etime  = [s \in Slot |-> 0]
    /\ kstack = [s \in Slot |-> s = InitProc]
    /\ pgdir  = [s \in Slot |-> s = InitProc]
    /\ cproc  = [c \in CPU |-> NULL]
    /\ pc     = [s \in Slot |-> IF s = InitProc THEN "forkret" ELSE "none"]
    /\ np     = [s \in Slot |-> NULL]
    /\ arg    = [s \in Slot |-> 0]

(* The slot a scan of ptable.proc from its start meets first. *)
First(S) == CHOOSE s \in S : \A t \in S : s <= t

(* Faulty variants (names starting with Bug) are the plausible slips the   *)
(* properties are tested against; no specification uses them.              *)

(* allocproc()'s choice. *)
FreeSlot == First({s \in Slot : state[s] = "UNUSED"})

(* The processes either scheduler() chooses from. *)
Runnable == {s \in Slot : state[s] = "RUNNABLE"}

Goto(p, l) == pc' = [pc EXCEPT ![p] = l]

InIsr(c) == c = 0 /\ isr # "off"

(* CPU c executes its process, which is at l and does not hold ptable.lock. *)
At(c, l) ==
    /\ cproc[c] # NULL /\ ptlock # c /\ ~InIsr(c)
    /\ state[cproc[c]] = "RUNNING" /\ pc[cproc[c]] = l

(* trap() enters syscall() only for a process that is not killed. *)
Syscall(c) == At(c, "user") /\ ~killed[cproc[c]]

(* sched() is entered with ptable.lock held, and keeps it across the swtch. *)
BugHoldAcrossSwtch(c) == ptlock' = Free
HoldAcrossSwtch(c) == ptlock' = c

(* The scheduler of c has switched to a process that stopped at l. *)
SwitchedIn(c, l) ==
    /\ cproc[c] # NULL /\ ptlock = c
    /\ state[cproc[c]] = "RUNNING" /\ pc[cproc[c]] = l

wakeup1(ch, st) ==
    [q \in Slot |-> IF st[q] = "SLEEPING" /\ chan[q] = ch THEN "RUNNABLE" ELSE st[q]]

-----------------------------------------------------------------------------
(* fork(): allocproc()'s critical section, kalloc, copyuvm, RUNNABLE.      *)

ForkNoSlot(c) ==
    /\ Syscall(c) /\ ptlock = Free
    /\ \A s \in Slot : state[s] # "UNUSED"
    /\ Goto(cproc[c], "ret")
    /\ UNCHANGED <<lockvars, timevars, memvars, idvars, state, killed, chan, cproc, np, arg>>

allocproc(c) ==
    LET p == cproc[c]
        s == FreeSlot IN
    /\ Syscall(c) /\ ptlock = Free
    /\ \E q \in Slot : state[q] = "UNUSED"
    /\ nextpid <= MaxPid
    /\ state' = [state EXCEPT ![s] = "EMBRYO"]
    /\ pid' = [pid EXCEPT ![s] = nextpid]
    /\ nextpid' = nextpid + 1
    /\ ctime' = [ctime EXCEPT ![s] = ticks]
    /\ etime' = [etime EXCEPT ![s] = 0]
    /\ np' = [np EXCEPT ![p] = s]
    /\ Goto(p, "kstack")
    /\ UNCHANGED <<lockvars, ticks, memvars, parent, killed, chan, cproc, arg>>

(* The stack is laid out so that the child's first swtch enters forkret.   *)
KallocStack(c) ==
    LET p == cproc[c] IN
    /\ At(c, "kstack")
    /\ kstack' = [kstack EXCEPT ![np[p]] = TRUE]
    /\ pc' = [pc EXCEPT ![p] = "copy", ![np[p]] = "forkret"]
    /\ UNCHANGED <<lockvars, timevars, pgdir, idvars, state, killed, chan, cproc, np, arg>>

(* kalloc() returns 0: the slot is given back without ptable.lock.         *)
KallocFails(c) ==
    LET p == cproc[c] IN
    /\ At(c, "kstack")
    /\ state' = [state EXCEPT ![np[p]] = "UNUSED"]
    /\ np' = [np EXCEPT ![p] = NULL]
    /\ Goto(p, "ret")
    /\ UNCHANGED <<lockvars, timevars, memvars, idvars, killed, chan, cproc, arg>>

ForkCopy(c) ==
    LET p == cproc[c] IN
    /\ At(c, "copy")
    /\ pgdir' = [pgdir EXCEPT ![np[p]] = TRUE]
    /\ parent' = [parent EXCEPT ![np[p]] = p]
    /\ Goto(p, "ready")
    /\ UNCHANGED <<lockvars, timevars, kstack, nextpid, pid, state, killed, chan, cproc, np, arg>>

(* copyuvm() returns 0: again without ptable.lock. *)
CopyuvmFails(c) ==
    LET p == cproc[c] IN
    /\ At(c, "copy")
    /\ kstack' = [kstack EXCEPT ![np[p]] = FALSE]
    /\ state' = [state EXCEPT ![np[p]] = "UNUSED"]
    /\ np' = [np EXCEPT ![p] = NULL]
    /\ pc' = [pc EXCEPT ![p] = "ret", ![np[p]] = "none"]
    /\ UNCHANGED <<lockvars, timevars, pgdir, idvars, killed, chan, cproc, arg>>

ForkReady(c) ==
    LET p == cproc[c] IN
    /\ At(c, "ready") /\ ptlock = Free
    /\ state' = [state EXCEPT ![np[p]] = "RUNNABLE"]
    /\ np' = [np EXCEPT ![p] = NULL]
    /\ Goto(p, "ret")
    /\ UNCHANGED <<lockvars, timevars, memvars, idvars, killed, chan, cproc, arg>>

-----------------------------------------------------------------------------
(* exit(), and the ways into it.                                           *)

(* User code calls exit(), or enters any system call after being killed.   *)
ExitCall(c) ==
    /\ At(c, "user")
    /\ Goto(cproc[c], "exit")
    /\ UNCHANGED <<lockvars, timevars, memvars, idvars, state, killed, chan, cproc, np, arg>>

(* An unexpected trap in user space kills the process. *)
UserFault(c) ==
    /\ At(c, "user")
    /\ killed' = [killed EXCEPT ![cproc[c]] = TRUE]
    /\ Goto(cproc[c], "exit")
    /\ UNCHANGED <<lockvars, timevars, memvars, idvars, state, chan, cproc, np, arg>>

(* trap()'s check after syscall(). *)
SyscallReturn(c) ==
    /\ At(c, "ret")
    /\ Goto(cproc[c], IF killed[cproc[c]] THEN "exit" ELSE "user")
    /\ UNCHANGED <<lockvars, timevars, memvars, idvars, state, killed, chan, cproc, np, arg>>

InitExits(c) ==
    /\ At(c, "exit") /\ cproc[c] = InitProc
    /\ Goto(InitProc, "panic")
    /\ UNCHANGED <<lockvars, timevars, memvars, idvars, state, killed, chan, cproc, np, arg>>

(* panic() never returns. *)
Panicked(c) == At(c, "panic") /\ UNCHANGED procvars

Children(p) == {q \in Slot : parent[q] = p}

(* "Pass abandoned children to init": the new parent pointers. *)
BugAdopt(p) == parent
Adopt(p) == [q \in Slot |-> IF q \in Children(p) THEN InitProc ELSE parent[q]]

(* exit()'s wakeups: the parent, and init if it inherits a zombie. *)
BugExitWakeups(p) == wakeup1(InitProc, state)
ExitWakeups(p) ==
    LET woken == wakeup1(parent[p], state) IN
    IF \E q \in Children(p) : state[q] = "ZOMBIE" THEN wakeup1(InitProc, woken) ELSE woken

(* Up to sched(): the process is a zombie, its CPU is still on its stack.  *)
Exit(c) ==
    LET p == cproc[c] IN
    /\ At(c, "exit") /\ p # InitProc /\ ptlock = Free
    /\ HoldAcrossSwtch(c)
    /\ parent' = Adopt(p)
    /\ state' = [ExitWakeups(p) EXCEPT ![p] = "ZOMBIE"]
    /\ etime' = [etime EXCEPT ![p] = ticks]
    /\ Goto(p, "none")
    /\ UNCHANGED <<tickslock, isr, ticks, ctime, memvars, nextpid, pid, killed, chan, cproc, np, arg>>

-----------------------------------------------------------------------------
(* wait() and procstat(): one pass over the table, with ptable.lock held.  *)

(* The pass is entered from the system call or when sleep() returns.       *)
ScanEntry(c, l) == \/ Syscall(c) /\ ptlock = Free
                   \/ SwitchedIn(c, l)

(* zombies are the children this call collects; it frees the first.        *)
Reap(c, zombies) ==
    LET p == cproc[c]
        z == First(zombies) IN
    /\ zombies # {}
    /\ kstack' = [kstack EXCEPT ![z] = FALSE]
    /\ pgdir' = [pgdir EXCEPT ![z] = FALSE]
    /\ pid' = [pid EXCEPT ![z] = 0]
    /\ parent' = [parent EXCEPT ![z] = NULL]
    /\ killed' = [killed EXCEPT ![z] = FALSE]
    /\ state' = [state EXCEPT ![z] = "UNUSED"]
    /\ chan' = [chan EXCEPT ![p] = NULL]
    /\ arg' = [arg EXCEPT ![p] = 0]
    /\ ptlock' = Free
    /\ Goto(p, "ret")
    /\ UNCHANGED <<tickslock, isr, timevars, nextpid, cproc, np>>

GiveUp(c, zombies) ==
    LET p == cproc[c] IN
    /\ zombies = {} /\ (Children(p) = {} \/ killed[p])
    /\ etime' = [etime EXCEPT ![p] = ticks]
    /\ chan' = [chan EXCEPT ![p] = NULL]
    /\ arg' = [arg EXCEPT ![p] = 0]
    /\ ptlock' = Free
    /\ Goto(p, "ret")
    /\ UNCHANGED <<tickslock, isr, ticks, ctime, memvars, idvars, state, killed, cproc, np>>

(* sleep(curproc, &ptable.lock), up to sched(). *)
SleepOnSelf(c, zombies, l, n) ==
    LET p == cproc[c] IN
    /\ zombies = {} /\ Children(p) # {} /\ ~killed[p]
    /\ etime' = [etime EXCEPT ![p] = ticks]
    /\ chan' = [chan EXCEPT ![p] = p]
    /\ state' = [state EXCEPT ![p] = "SLEEPING"]
    /\ arg' = [arg EXCEPT ![p] = n]
    /\ HoldAcrossSwtch(c)
    /\ Goto(p, l)
    /\ UNCHANGED <<tickslock, isr, ticks, ctime, memvars, idvars, killed, cproc, np>>

BugWait(c) ==
    LET zs == {q \in Children(cproc[c]) : state[q] # "EMBRYO"} IN
    /\ ScanEntry(c, "waiting")
    /\ Reap(c, zs) \/ GiveUp(c, zs) \/ SleepOnSelf(c, zs, "waiting", 0)

Wait(c) ==
    LET zs == {q \in Children(cproc[c]) : state[q] = "ZOMBIE"} IN
    /\ ScanEntry(c, "waiting")
    /\ Reap(c, zs) \/ GiveUp(c, zs) \/ SleepOnSelf(c, zs, "waiting", 0)

Procstat(c, n) ==
    LET zs == {q \in Children(cproc[c]) : state[q] = "ZOMBIE" /\ pid[q] = n} IN
    /\ ScanEntry(c, "pstat")
    /\ SwitchedIn(c, "pstat") => arg[cproc[c]] = n
    /\ Reap(c, zs) \/ GiveUp(c, zs) \/ SleepOnSelf(c, zs, "pstat", n)

-----------------------------------------------------------------------------
(* sys_sleep().                                                            *)

(* tickslock stays held from the test of ticks to the sleep(). *)
BugKeepTickslock(c) == UNCHANGED tickslock
KeepTickslock(c) == tickslock' = c

(* The while condition and the killed check, with tickslock just acquired. *)
SleepTest(c, deadline) ==
    LET p == cproc[c] IN
    /\ tickslock = Free
    /\ IF ticks >= deadline \/ killed[p]
         THEN /\ arg' = [arg EXCEPT ![p] = 0]
              /\ Goto(p, "ret")
              /\ UNCHANGED tickslock
         ELSE /\ arg' = [arg EXCEPT ![p] = deadline]
              /\ Goto(p, "tosleep")
              /\ KeepTickslock(c)
    /\ UNCHANGED <<ptlock, isr, timevars, memvars, idvars, state, killed, chan, cproc, np>>

(* The comparison with n is unsigned: a negative n is a time beyond every  *)
(* tick within the bound.                                                  *)
Deadline(n) == IF n < 0 THEN MaxTicks + 1 ELSE ticks + n

SleepCall(c, n) == Syscall(c) /\ ticks + n <= MaxTicks /\ SleepTest(c, Deadline(n))

SleepAgain(c) == At(c, "relock") /\ SleepTest(c, arg[cproc[c]])

BugReleaseLk == UNCHANGED tickslock
ReleaseLk == tickslock' = Free

(* sleep(&ticks, &tickslock), up to sched(): tickslock is released only    *)
(* once ptable.lock is held.                                               *)
SleepOnTicks(c) ==
    LET p == cproc[c] IN
    /\ At(c, "tosleep") /\ ptlock = Free
    /\ HoldAcrossSwtch(c) /\ ReleaseLk
    /\ chan' = [chan EXCEPT ![p] = TicksChan]
    /\ state' = [state EXCEPT ![p] = "SLEEPING"]
    /\ Goto(p, "slept")
    /\ UNCHANGED <<isr, timevars, memvars, idvars, killed, cproc, np, arg>>

(* sleep() returns from sched(). *)
WokenUp(c) ==
    /\ SwitchedIn(c, "slept")
    /\ chan' = [chan EXCEPT ![cproc[c]] = NULL]
    /\ ptlock' = Free
    /\ Goto(cproc[c], "relock")
    /\ UNCHANGED <<tickslock, isr, timevars, memvars, idvars, state, killed, cproc, np, arg>>

-----------------------------------------------------------------------------
(* kill() and ps().                                                        *)

(* The first slot with this pid, in whatever state; none if there is none. *)
Kill(c, n) ==
    LET hit == {q \in Slot : pid[q] = n}
        q == First(hit) IN
    /\ Syscall(c) /\ ptlock = Free
    /\ IF hit = {} THEN UNCHANGED <<killed, state>>
       ELSE /\ killed' = [killed EXCEPT ![q] = TRUE]
            /\ state' = [state EXCEPT ![q] = IF @ = "SLEEPING" THEN "RUNNABLE" ELSE @]
    /\ Goto(cproc[c], "ret")
    /\ UNCHANGED <<lockvars, timevars, memvars, idvars, chan, cproc, np, arg>>

Ps(c) ==
    /\ Syscall(c) /\ ptlock = Free
    /\ etime' = [s \in Slot |-> IF state[s] = "UNUSED" THEN etime[s] ELSE ticks]
    /\ Goto(cproc[c], "ret")
    /\ UNCHANGED <<lockvars, ticks, ctime, memvars, idvars, state, killed, chan, cproc, np, arg>>

-----------------------------------------------------------------------------
(* The timer interrupt.  CPU 0 counts the tick first.                      *)

Interruptible(c) ==
    /\ ptlock # c /\ tickslock # c /\ ~InIsr(c)
    /\ cproc[c] # NULL => pc[cproc[c]] # "panic"

Tick ==
    /\ Interruptible(0) /\ tickslock = Free
    /\ tickslock' = 0 /\ isr' = "wakeup"
    /\ ticks' = IF ticks < MaxTicks THEN ticks + 1 ELSE ticks
    /\ UNCHANGED <<ptlock, ctime, etime, memvars, idvars, state, killed, chan, cproc, thread>>

BugTickWakeup ==
    /\ isr = "wakeup" /\ ptlock = Free
    /\ tickslock' = Free
    /\ isr' = IF cproc[0] = NULL THEN "off" ELSE "tail"
    /\ UNCHANGED <<ptlock, timevars, memvars, idvars, state, killed, chan, cproc, thread>>

(* wakeup(&ticks), then release(&tickslock). *)
TickWakeup ==
    /\ isr = "wakeup" /\ ptlock = Free
    /\ state' = wakeup1(TicksChan, state)
    /\ tickslock' = Free
    /\ isr' = IF cproc[0] = NULL THEN "off" ELSE "tail"
    /\ UNCHANGED <<ptlock, timevars, memvars, idvars, killed, chan, cproc, thread>>

(* The end of trap() for a timer interrupt: exit if killed in user space,  *)
(* otherwise yield(), up to sched().                                       *)
TimerTail(c) ==
    LET p == cproc[c] IN
    /\ p # NULL /\ state[p] = "RUNNING"
    /\ IF c = 0 THEN isr = "tail" ELSE Interruptible(c)
    /\ isr' = IF c = 0 THEN "off" ELSE isr
    /\ IF killed[p] /\ pc[p] = "user"
         THEN /\ Goto(p, "exit")
              /\ UNCHANGED <<ptlock, state>>
         ELSE /\ ptlock = Free /\ HoldAcrossSwtch(c)
              /\ state' = [state EXCEPT ![p] = "RUNNABLE"]
              /\ Goto(p, IF pc[p] = "user" THEN "uyield" ELSE pc[p])
    /\ UNCHANGED <<tickslock, timevars, memvars, idvars, killed, chan, cproc, np, arg>>

(* yield() returns from sched() and releases ptable.lock.  Back in trap(), *)
(* code interrupted in user space is checked for killed once more.         *)
YieldReturn(c) ==
    LET p == cproc[c] IN
    /\ cproc[c] # NULL
    /\ \E l \in {"uyield", "kstack", "copy", "ready", "relock", "ret", "exit"} : SwitchedIn(c, l)
    /\ ptlock' = Free
    /\ Goto(p, IF pc[p] # "uyield" THEN pc[p] ELSE IF killed[p] THEN "exit" ELSE "user")
    /\ UNCHANGED <<tickslock, isr, timevars, memvars, idvars, state, killed, chan, cproc, np, arg>>

forkret(c) ==
    /\ SwitchedIn(c, "forkret")
    /\ ptlock' = Free
    /\ Goto(cproc[c], "user")
    /\ UNCHANGED <<tickslock, isr, timevars, memvars, idvars, state, killed, chan, cproc, np, arg>>

(* The steps of a process, by the function they belong to.  allocproc and  *)
(* ForkCopy are apart: the priority kernel extends them.                   *)
ForkStep(c)  == \/ ForkNoSlot(c) \/ KallocStack(c) \/ KallocFails(c)
                \/ CopyuvmFails(c) \/ ForkReady(c)
ExitStep(c)  == \/ ExitCall(c) \/ UserFault(c) \/ SyscallReturn(c)
                \/ InitExits(c) \/ Panicked(c) \/ Exit(c)
StatStep(c)  == \E n \in StatPids : Procstat(c, n)
SleepStep(c) == \/ \E n \in SleepTimes : SleepCall(c, n)
                \/ SleepAgain(c) \/ SleepOnTicks(c) \/ WokenUp(c)
KillStep(c)  == \E n \in KillPids : Kill(c, n)
YieldStep(c) == TimerTail(c) \/ YieldReturn(c) \/ forkret(c)

ProcStep(c) == \/ ForkStep(c) \/ ExitStep(c) \/ Wait(c) \/ StatStep(c)
               \/ SleepStep(c) \/ KillStep(c) \/ Ps(c) \/ YieldStep(c)

-----------------------------------------------------------------------------
(* The scheduler's half of the swtch.                                      *)

(* A CPU in scheduler(): it holds ptable.lock within a pass.               *)
Scheduling(c) == cproc[c] = NULL /\ ptlock \in {Free, c} /\ ~InIsr(c)

(* c's scheduler, holding ptable.lock, switches to p. *)
SwitchTo(c, p) ==
    /\ cproc' = [cproc EXCEPT ![c] = p]
    /\ state' = [state EXCEPT ![p] = "RUNNING"]
    /\ ptlock' = c

(* sched() has switched back: the process changed its state. *)
SwitchedOut(c) ==
    /\ cproc[c] # NULL /\ ptlock = c /\ state[cproc[c]] # "RUNNING"

-----------------------------------------------------------------------------
(* Properties of both kernels.                                             *)

LockOwner == CPU \cup {Free}

(* Every variable keeps its type; in particular the slot a scan of         *)
(* ptable.proc ends with is a slot of the table.                           *)
TypeOK ==
    /\ ptlock \in LockOwner /\ tickslock \in LockOwner
    /\ isr \in {"off", "wakeup", "tail"}
    /\ ticks \in Nat /\ nextpid \in Nat
    /\ state \in [Slot -> ProcStates]
    /\ pid \in [Slot -> Nat]
    /\ parent \in [Slot -> Slot \cup {NULL}]
    /\ killed \in [Slot -> BOOLEAN]
    /\ chan \in [Slot -> Slot \cup {NULL, TicksChan}]
    /\ ctime \in [Slot -> Nat] /\ etime \in [Slot -> Nat]
    /\ kstack \in [Slot -> BOOLEAN] /\ pgdir \in [Slot -> BOOLEAN]
    /\ cproc \in [CPU -> Slot \cup {NULL}]
    /\ pc \in [Slot -> Locs]
    /\ np \in [Slot -> Slot \cup {NULL}]
    /\ arg \in [Slot -> Nat]

(* No process is on two CPUs, a CPU that does not hold ptable.lock runs a  *)
(* RUNNING process, and every RUNNING process is on a CPU: sched() and     *)
(* scheduler() hand over ptable.lock across the swtch.                     *)
OneCpuPerProcess ==
    /\ \A c, d \in CPU : cproc[c] # NULL /\ cproc[c] = cproc[d] => c = d
    /\ \A c \in CPU : cproc[c] # NULL /\ ptlock # c => state[cproc[c]] = "RUNNING"
    /\ \A s \in Slot : state[s] = "RUNNING" => \E c \in CPU : cproc[c] = s

(* wait() and procstat() never free the kernel stack or page table a CPU   *)
(* is still using, although exit() makes the process a zombie while its    *)
(* CPU runs on that stack; and switchuvm() finds both for every process    *)
(* that can be switched to.                                                *)
StackSafe ==
    /\ \A c \in CPU : cproc[c] # NULL => kstack[cproc[c]] /\ pgdir[cproc[c]]
    /\ \A s \in Slot : state[s] \in {"RUNNABLE", "RUNNING", "SLEEPING", "ZOMBIE"}
                          => kstack[s] /\ pgdir[s]

(* The assertions of sched(): whoever switches to the scheduler holds      *)
(* ptable.lock, holds no other spinlock, and is no longer RUNNING.         *)
SchedAssertions ==
    \A c \in CPU :
        cproc[c] # NULL /\ state[cproc[c]] # "RUNNING" => ptlock = c /\ tickslock # c

(* No tick is missed between sys_sleep's test of ticks and its sleep():    *)
(* whoever sleeps on &ticks has time left, or the wakeup is under way.     *)
NoLostTick ==
    \A s \in Slot :
        state[s] = "SLEEPING" /\ chan[s] = TicksChan => ticks < arg[s] \/ isr = "wakeup"

(* No exit is missed: a process asleep in wait() has a child and no zombie *)
(* child, one asleep in procstat(n) no zombie child with pid n.  Zombies   *)
(* inherited by init when their parent exits are included.                 *)
NoLostExit ==
    \A s, z \in Slot :
        state[s] = "SLEEPING" /\ parent[z] = s /\ state[z] = "ZOMBIE"
            => /\ pc[s] # "waiting"
               /\ pc[s] = "pstat" => pid[z] # arg[s]

Alive == {"RUNNABLE", "RUNNING", "SLEEPING"}

(* Every process but init has a parent that is alive, so that somebody can *)
(* collect it: exit() passes children to init before becoming a zombie.    *)
(* Free slots have no parent pointer a wait() could mistake for a child.   *)
FamilyTree ==
    /\ state[InitProc] \in Alive /\ parent[InitProc] = NULL
    /\ \A s \in Slot \ {InitProc} :
        /\ state[s] \in Alive \cup {"ZOMBIE"} => parent[s] # NULL
        /\ state[s] = "UNUSED" => parent[s] = NULL
        /\ parent[s] # NULL => state[parent[s]] \in Alive

(* An EMBRYO slot belongs to exactly one fork() in progress, and no two    *)
(* slots in use share a pid, although fork() initialises and gives back    *)
(* its slot without ptable.lock.                                           *)
SlotsAndPids ==
    /\ \A s \in Slot : state[s] = "EMBRYO" => \E p \in Slot : np[p] = s
    /\ \A p \in Slot : np[p] # NULL => state[np[p]] = "EMBRYO"
    /\ \A p, q \in Slot : np[p] # NULL /\ np[p] = np[q] => p = q
    /\ \A s, t \in Slot : pid[s] = pid[t] /\ state[s] # "UNUSED" /\ state[t] # "UNUSED" => s = t
-----------------------------------------------------------------------------
(* The refinement mapping to ProcTree.                                     *)

PidsIn(S) == {pid[s] : s \in {t \in Slot : state[t] \in S}}

(* The slot of process n is in use from RUNNABLE until it is collected.    *)
IsSlotOf(s, n) == pid[s] = n /\ state[s] \in Alive \cup {"ZOMBIE"} /\ parent[s] # NULL

ParentPid(n) ==
    IF \E s \in Slot : IsSlotOf(s, n)
      THEN pid[parent[CHOOSE s \in Slot : IsSlotOf(s, n)]] ELSE 0

Tree == INSTANCE ProcTree WITH
    TopPid   <- MaxPid,
    issued   <- nextpid - 1,
    embryos  <- PidsIn({"EMBRYO"}),
    alive    <- PidsIn(Alive),
    zombies  <- PidsIn({"ZOMBIE"}),
    parentOf <- [n \in 1 .. MaxPid |-> ParentPid(n)]

(* fork, exit, wait and procstat on the slots of the table do what         *)
(* ProcTree says of pids: exiting and being collected happen once, by the  *)
(* right process, whatever the interleaving.                               *)
TreeRefinement == Tree!TreeSpec
=============================================================================
