------------------------------ MODULE FcfsSched ------------------------------
(***************************************************************************)
(* The kernel of src/fcfs: scheduler() runs the RUNNABLE process with the  *)
(* lowest creation time.                                                   *)
(***************************************************************************)
EXTENDS Proc

VARIABLES
    cursor,   \* scheduler()'s p, per CPU: the slot it examines next
    minP      \* the oldest RUNNABLE process it has met, or NULL

passvars == <<cursor, minP>>
fcfsvars == <<procvars, passvars>>

FInit ==
    /\ Init
    /\ cursor = [c \in CPU |-> 1]
    /\ minP = [c \in CPU |-> NULL]

-----------------------------------------------------------------------------
(* scheduler().  The pass over the table goes on slot by slot with         *)
(* ptable.lock held, while other CPUs do what needs no ptable.lock: fork() *)
(* fills its EMBRYO slot, or gives it back, under the eyes of the scan.    *)

(* The loop's choice between minP and the next RUNNABLE process. *)
BugIsOlder(p, m) == m = NULL \/ ctime[p] > ctime[m]
IsOlder(p, m) == m = NULL \/ ctime[p] < ctime[m]

(* One turn of the loop over the table; the first acquires ptable.lock.    *)
ScanSlot(c) ==
    LET p == cursor[c] IN
    /\ Scheduling(c) /\ p <= NPROC
    /\ ptlock' = c
    /\ cursor' = [cursor EXCEPT ![c] = p + 1]
    /\ minP' = [minP EXCEPT ![c] = IF state[p] = "RUNNABLE" /\ IsOlder(p, @) THEN p ELSE @]
    /\ UNCHANGED <<tickslock, isr, timevars, memvars, idvars, state, killed, chan, cproc, thread>>

(* After the loop: swtch to minP. *)
Dispatch(c) ==
    /\ Scheduling(c) /\ cursor[c] > NPROC /\ minP[c] # NULL
    /\ SwitchTo(c, minP[c])
    /\ UNCHANGED <<tickslock, isr, timevars, memvars, idvars, killed, chan, thread, passvars>>

(* The next iteration starts from the first slot, with a new minP.         *)
BugNewMinP(c) == minP
NewMinP(c) == [minP EXCEPT ![c] = NULL]
NewPass(c) ==
    /\ ptlock' = Free
    /\ cursor' = [cursor EXCEPT ![c] = 1]
    /\ minP' = NewMinP(c)

(* A pass that met no RUNNABLE process. *)
IdlePass(c) ==
    /\ Scheduling(c) /\ cursor[c] > NPROC /\ minP[c] = NULL
    /\ NewPass(c)
    /\ UNCHANGED <<tickslock, isr, timevars, memvars, idvars, state, killed, chan, cproc, thread>>

(* The rest of the iteration: c->proc = 0, release(&ptable.lock). *)
SchedReturn(c) ==
    /\ SwitchedOut(c)
    /\ cproc' = [cproc EXCEPT ![c] = NULL]
    /\ NewPass(c)
    /\ UNCHANGED <<tickslock, isr, timevars, memvars, idvars, state, killed, chan, thread>>

Pass(c) == ScanSlot(c) \/ Dispatch(c) \/ IdlePass(c) \/ SchedReturn(c)

Next ==
    \/ (Tick \/ TickWakeup) /\ UNCHANGED passvars
    \/ \E c \in CPU : \/ (allocproc(c) \/ ForkCopy(c) \/ ProcStep(c)) /\ UNCHANGED passvars
                      \/ Pass(c)

Spec == FInit /\ [][Next]_fcfsvars

(* What a CPU does next when it holds ptable.lock. *)
LockHeld(c) ==
    /\ ptlock = c
    /\ \/ Pass(c)
       \/ /\ YieldReturn(c) \/ forkret(c) \/ WokenUp(c) \/ Wait(c) \/ StatStep(c)
          /\ UNCHANGED passvars

(* What a CPU does next when it spins on ptable.lock or tickslock. *)
LockWanted(c) ==
    \/ ScanSlot(c)
    \/ (TimerTail(c) \/ SleepOnTicks(c) \/ SleepAgain(c)) /\ UNCHANGED passvars

(* A processor that holds a lock keeps executing; timer interrupts keep    *)
(* arriving; and a spinlock that is free again and again is eventually     *)
(* acquired by a CPU spinning on it.  Nothing is assumed of user code.     *)
Fairness ==
    /\ SF_fcfsvars((Tick \/ TickWakeup) /\ UNCHANGED passvars)
    /\ \A c \in CPU : WF_fcfsvars(LockHeld(c)) /\ SF_fcfsvars(LockWanted(c))

FairSpec == Spec /\ Fairness

-----------------------------------------------------------------------------
(* scheduler() switches to a process that is still RUNNABLE at the end of  *)
(* its pass, and never while one with a strictly lower creation time is    *)
(* RUNNABLE, wherever in the table the two are and whatever other CPUs did *)
(* during the pass.                                                        *)
DispatchOldest ==
    [][\A c \in CPU : cproc[c] = NULL /\ cproc'[c] # NULL =>
         /\ state[cproc'[c]] = "RUNNABLE"
         /\ \A s \in Slot : state[s] = "RUNNABLE" => ctime[cproc'[c]] <= ctime[s]]_fcfsvars

(* FCFS cannot starve the oldest process: init, once RUNNABLE, runs.       *)
InitRuns == state[InitProc] = "RUNNABLE" ~> state[InitProc] = "RUNNING"

(* A process in sys_sleep is woken when its time is over, or when killed,  *)
(* unless init exited and the kernel panicked.                             *)
SleepEnds == \A s \in Slot :
    (state[s] = "SLEEPING" /\ chan[s] = TicksChan)
        ~> (state[s] # "SLEEPING" \/ pc[InitProc] = "panic")
=============================================================================
