------------------------------ MODULE ProcTree ------------------------------
(***************************************************************************)
(* What the process table promises its users, without slots, locks, CPUs   *)
(* or sleeping: pids are issued in order and never reused; a process is    *)
(* forked by a live process, exits once, passes its children to init, and  *)
(* is collected exactly once, by its parent.                               *)
(***************************************************************************)
EXTENDS Naturals

CONSTANTS TopPid      \* bound on the pids ever issued

VARIABLES
    issued,    \* the pids up to this one have been issued
    embryos,   \* pids issued to a fork that has not finished
    alive,     \* pids of processes that run or may run again
    zombies,   \* pids of processes that exited and are not collected
    parentOf   \* parentOf[n]: the pid of n's parent, 0 if n has none

treevars == <<issued, embryos, alive, zombies, parentOf>>

Pids == 1 .. TopPid

TreeInit ==
    /\ issued = 1 /\ embryos = {} /\ alive = {1} /\ zombies = {}
    /\ parentOf = [n \in Pids |-> 0]

Reserve ==
    /\ issued < TopPid
    /\ issued' = issued + 1
    /\ embryos' = embryos \cup {issued + 1}
    /\ UNCHANGED <<alive, zombies, parentOf>>

Abandon(n) ==
    /\ n \in embryos
    /\ embryos' = embryos \ {n}
    /\ UNCHANGED <<issued, alive, zombies, parentOf>>

Start(n, p) ==
    /\ n \in embryos /\ p \in alive
    /\ embryos' = embryos \ {n}
    /\ alive' = alive \cup {n}
    /\ parentOf' = [parentOf EXCEPT ![n] = p]
    /\ UNCHANGED <<issued, zombies>>

(* Init never exits; everybody else leaves its children to it. *)
Die(n) ==
    /\ n \in alive \ {1}
    /\ alive' = alive \ {n}
    /\ zombies' = zombies \cup {n}
    /\ parentOf' = [m \in Pids |-> IF parentOf[m] = n THEN 1 ELSE parentOf[m]]
    /\ UNCHANGED <<issued, embryos>>

Collect(n, p) ==
    /\ n \in zombies /\ p \in alive /\ parentOf[n] = p
    /\ zombies' = zombies \ {n}
    /\ parentOf' = [parentOf EXCEPT ![n] = 0]
    /\ UNCHANGED <<issued, embryos, alive>>

TreeNext ==
    \/ Reserve
    \/ \E n \in Pids : Abandon(n) \/ Die(n)
    \/ \E n, p \in Pids : Start(n, p) \/ Collect(n, p)

TreeSpec == TreeInit /\ [][TreeNext]_treevars
=============================================================================
