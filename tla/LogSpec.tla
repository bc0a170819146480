------------------------------ MODULE LogSpec ------------------------------
(***************************************************************************)
(* What the log promises the file system: the updates of the operations    *)
(* between two commits reach the disk all together or not at all, and a    *)
(* commit happens only when no operation is under way, so that a crash     *)
(* never leaves part of an operation behind.                               *)
(***************************************************************************)
CONSTANTS Operations, Blocks, Contents, Blank

VARIABLES
    active,    \* operations under way
    current,   \* what the file system reads
    durable    \* what a restart after a crash would find

logspecvars == <<active, current, durable>>

LogInit ==
    /\ active = {}
    /\ current = [b \in Blocks |-> Blank]
    /\ durable = [b \in Blocks |-> Blank]

Begin(t) ==
    /\ t \notin active
    /\ active' = active \cup {t}
    /\ UNCHANGED <<current, durable>>

Write(t, b, v) ==
    /\ t \in active
    /\ current' = [current EXCEPT ![b] = v]
    /\ UNCHANGED <<active, durable>>

End(t) ==
    /\ t \in active
    /\ active' = active \ {t}
    /\ UNCHANGED <<current, durable>>

Commit ==
    /\ active = {}
    /\ durable' = current
    /\ UNCHANGED <<active, current>>

Crash ==
    /\ active' = {}
    /\ current' = durable
    /\ UNCHANGED durable

LogNext ==
    \/ Commit \/ Crash
    \/ \E t \in Operations :
        Begin(t) \/ End(t) \/ \E b \in Blocks, v \in Contents : Write(t, b, v)

LogSpecification == LogInit /\ [][LogNext]_logspecvars
=============================================================================
