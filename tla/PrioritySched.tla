---------------------------- MODULE PrioritySched ----------------------------
(***************************************************************************)
(* The kernel of src/priority: scheduler() runs the RUNNABLE process with  *)
(* the numerically lowest priority, and custmpro() forks a process with a  *)
(* chosen priority.  scheduler() goes on with its pass over the table,     *)
(* still holding ptable.lock, when a process switches back to it.          *)
(***************************************************************************)
EXTENDS Proc

CONSTANTS Priorities   \* arguments user code passes to custmpro()
ASSUME PrioritiesAssumption == Priorities \subseteq Nat

VARIABLES
    priority,   \* the field of struct proc
    newprio,    \* custmpro's argument while its fork is under way, or NoPrio
    scan,       \* per CPU, the slot scheduler()'s outer loop goes on from,
    highP,      \* the best process it knows, or NULL outside the inner loop,
    p1          \* and the inner loop's next slot

loopvars == <<scan, highP, p1>>
priovars == <<priority, newprio, loopvars>>
vars == <<procvars, priovars>>

NoPrio == -1

PInit ==
    /\ Init
    /\ priority = [s \in Slot |-> 0]
    /\ newprio = [s \in Slot |-> NoPrio]
    /\ scan = [c \in CPU |-> 1]
    /\ highP = [c \in CPU |-> NULL]
    /\ p1 = [c \in CPU |-> 1]

-----------------------------------------------------------------------------
Fork(c) ==
    /\ allocproc(c)
    /\ newprio' = [newprio EXCEPT ![cproc[c]] = NoPrio]
    /\ UNCHANGED <<priority, loopvars>>

(* sys_custmpro() has rejected negative arguments. *)
Custmpro(c, n) ==
    /\ allocproc(c)
    /\ newprio' = [newprio EXCEPT ![cproc[c]] = n]
    /\ UNCHANGED <<priority, loopvars>>

(* custmpro() sets np->priority where fork() leaves what the slot had.     *)
CopyProc(c) ==
    LET p == cproc[c] IN
    /\ ForkCopy(c)
    /\ priority' = IF newprio[p] = NoPrio THEN priority
                   ELSE [priority EXCEPT ![np[p]] = newprio[p]]
    /\ newprio' = [newprio EXCEPT ![p] = NoPrio]
    /\ UNCHANGED loopvars

(* The functions that are the same in both kernels. *)
PForkStep(c)  == ForkStep(c) /\ UNCHANGED priovars
PExitStep(c)  == ExitStep(c) /\ UNCHANGED priovars
PWait(c)      == Wait(c) /\ UNCHANGED priovars
PStatStep(c)  == StatStep(c) /\ UNCHANGED priovars
PSleepStep(c) == SleepStep(c) /\ UNCHANGED priovars
PKillStep(c)  == KillStep(c) /\ UNCHANGED priovars
PPs(c)        == Ps(c) /\ UNCHANGED priovars
PYieldStep(c) == YieldStep(c) /\ UNCHANGED priovars
PTick         == (Tick \/ TickWakeup) /\ UNCHANGED priovars

-----------------------------------------------------------------------------
(* scheduler(): two nested loops over the table, one slot a step, with     *)
(* ptable.lock held; custmpro() may write a priority meanwhile.            *)

(* The slots the outer loop has left, without those it skips. *)
Ahead(c) == {s \in Runnable : s >= scan[c]}

LoopStep(c) ==
    /\ Scheduling(c)
    /\ UNCHANGED <<tickslock, isr, timevars, memvars, idvars, killed, chan, thread, priority, newprio>>

(* The outer loop reaches a RUNNABLE process, and the inner one begins.    *)
BugOuterLoop(c) ==
    LET p == First(Ahead(c)) IN
    /\ LoopStep(c) /\ highP[c] = NULL /\ Ahead(c) # {}
    /\ ptlock' = c
    /\ scan' = [scan EXCEPT ![c] = p]
    /\ highP' = [highP EXCEPT ![c] = p]
    /\ p1' = [p1 EXCEPT ![c] = p]
    /\ UNCHANGED <<state, cproc>>

OuterLoop(c) ==
    LET p == First(Ahead(c)) IN
    /\ LoopStep(c) /\ highP[c] = NULL /\ Ahead(c) # {}
    /\ ptlock' = c
    /\ scan' = [scan EXCEPT ![c] = p]
    /\ highP' = [highP EXCEPT ![c] = p]
    /\ p1' = [p1 EXCEPT ![c] = 1]
    /\ UNCHANGED <<state, cproc>>

(* One turn of the inner loop. *)
InnerLoop(c) ==
    LET q == p1[c] IN
    /\ LoopStep(c) /\ highP[c] # NULL /\ q <= NPROC
    /\ highP' = [highP EXCEPT ![c] = IF state[q] = "RUNNABLE" /\ priority[@] > priority[q]
                                       THEN q ELSE @]
    /\ p1' = [p1 EXCEPT ![c] = q + 1]
    /\ UNCHANGED <<ptlock, scan, state, cproc>>

(* p = highP: the swtch, and the outer loop goes on from the chosen slot.  *)
PDispatch(c) ==
    /\ LoopStep(c) /\ highP[c] # NULL /\ p1[c] > NPROC
    /\ SwitchTo(c, highP[c])
    /\ scan' = [scan EXCEPT ![c] = highP[c] + 1]
    /\ highP' = [highP EXCEPT ![c] = NULL]
    /\ p1' = [p1 EXCEPT ![c] = 1]

(* The outer loop reaches the end of the table. *)
EndPass(c) ==
    /\ LoopStep(c) /\ highP[c] = NULL /\ Ahead(c) = {}
    /\ ptlock' = Free
    /\ scan' = [scan EXCEPT ![c] = 1]
    /\ UNCHANGED <<state, cproc, highP, p1>>

(* c->proc = 0; the pass goes on. *)
PSchedReturn(c) ==
    /\ SwitchedOut(c)
    /\ cproc' = [cproc EXCEPT ![c] = NULL]
    /\ UNCHANGED <<lockvars, timevars, memvars, idvars, state, killed, chan, thread, priovars>>

PNext ==
    \/ PTick
    \/ \E c \in CPU :
        \/ Fork(c) \/ \E n \in Priorities : Custmpro(c, n)
        \/ CopyProc(c) \/ PForkStep(c) \/ PExitStep(c) \/ PWait(c) \/ PStatStep(c)
        \/ PSleepStep(c) \/ PKillStep(c) \/ PPs(c) \/ PYieldStep(c)
        \/ OuterLoop(c) \/ InnerLoop(c) \/ PDispatch(c) \/ EndPass(c) \/ PSchedReturn(c)

PSpec == PInit /\ [][PNext]_vars

-----------------------------------------------------------------------------
(* The scheduler's own variables keep their type too. *)
PTypeOK ==
    /\ TypeOK
    /\ priority \in [Slot -> Nat]
    /\ newprio \in [Slot -> Nat \cup {NoPrio}]
    /\ scan \in [CPU -> 1 .. NPROC + 1] /\ p1 \in [CPU -> 1 .. NPROC + 1]
    /\ highP \in [CPU -> Slot \cup {NULL}]

(* "Choose the process with highest priority (among RUNNABLEs)": the       *)
(* process switched to is RUNNABLE, and no RUNNABLE one has a better       *)
(* priority, also when the pass goes on with a table that changed while    *)
(* the last process ran, and while custmpro() sets priorities beside it.   *)
DispatchBest ==
    [][\A c \in CPU : cproc[c] = NULL /\ cproc'[c] # NULL =>
         /\ cproc'[c] \in Runnable
         /\ \A s \in Runnable : priority[cproc'[c]] <= priority[s]]_vars
=============================================================================
