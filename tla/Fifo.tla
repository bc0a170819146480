-------------------------------- MODULE Fifo --------------------------------
(***************************************************************************)
(* What a pipe promises: a bounded queue of bytes.  The bytes of one write *)
(* enter it in order, in one piece or in several; a read takes bytes from  *)
(* its front.                                                              *)
(***************************************************************************)
EXTENDS Naturals, Sequences

CONSTANTS Writers, Alphabet, Capacity, MaxMessage

VARIABLES
    queue,     \* the bytes in the pipe
    pending,   \* pending[p]: what p still has to write
    got        \* what the last step took out of the queue

fifovars == <<queue, pending, got>>

Messages == UNION {[1 .. n -> Alphabet] : n \in 0 .. MaxMessage}

FifoInit ==
    /\ queue = <<>> /\ got = <<>>
    /\ pending = [p \in Writers |-> <<>>]

Submit(p, s) ==
    /\ pending[p] = <<>>
    /\ pending' = [pending EXCEPT ![p] = s]
    /\ got' = <<>>
    /\ UNCHANGED queue

(* The first k pending bytes enter; the rest waits or is given up. *)
Enter(p, k) ==
    /\ Len(queue) + k <= Capacity
    /\ queue' = queue \o SubSeq(pending[p], 1, k)
    /\ \/ pending' = [pending EXCEPT ![p] = SubSeq(@, k + 1, Len(@))]
       \/ pending' = [pending EXCEPT ![p] = <<>>]
    /\ got' = <<>>

Take(k) ==
    /\ got' = SubSeq(queue, 1, k)
    /\ queue' = SubSeq(queue, k + 1, Len(queue))
    /\ UNCHANGED pending

(* The pipe is closed by everybody. *)
Discard ==
    /\ queue' = <<>> /\ got' = <<>>
    /\ UNCHANGED pending

FifoNext ==
    \/ Discard
    \/ \E k \in 0 .. Len(queue) : Take(k)
    \/ \E p \in Writers :
        \/ \E s \in Messages : Submit(p, s)
        \/ \E k \in 0 .. Len(pending[p]) : Enter(p, k)

FifoSpec == FifoInit /\ [][FifoNext]_fifovars
=============================================================================
