----------------------------- MODULE BlockStore -----------------------------
(***************************************************************************)
(* What the buffer cache and the disk promise: a store of blocks in which  *)
(* a process has at most one block at a time, alone, sees its last content *)
(* when it gets it and may change it while it has it.                      *)
(***************************************************************************)
CONSTANTS Procs, Blocks, Values, None, Nothing

VARIABLES
    content,   \* content[k]: the value of block k
    owner,     \* owner[k]: the process that has block k, or None
    seen       \* seen[p]: the value p found when it got its block, Nothing if it has none

vars == <<content, owner, seen>>

Init ==
    /\ content \in [Blocks -> Values]
    /\ owner = [k \in Blocks |-> None]
    /\ seen = [p \in Procs |-> Nothing]

Get(p, k) ==
    /\ owner[k] = None
    /\ \A j \in Blocks : owner[j] # p
    /\ owner' = [owner EXCEPT ![k] = p]
    /\ seen' = [seen EXCEPT ![p] = content[k]]
    /\ UNCHANGED content

Change(p, k, v) ==
    /\ owner[k] = p
    /\ content' = [content EXCEPT ![k] = v]
    /\ UNCHANGED <<owner, seen>>

Put(p, k) ==
    /\ owner[k] = p
    /\ owner' = [owner EXCEPT ![k] = None]
    /\ seen' = [seen EXCEPT ![p] = Nothing]
    /\ UNCHANGED content

Next == \E p \in Procs, k \in Blocks :
            Get(p, k) \/ (\E v \in Values : Change(p, k, v)) \/ Put(p, k)

Spec == Init /\ [][Next]_vars
=============================================================================
