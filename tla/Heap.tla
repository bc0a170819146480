-------------------------------- MODULE Heap --------------------------------
(***************************************************************************)
(* malloc and free of umalloc.c.  Memory is counted in headers: a block at *)
(* a has its header there and size - 1 units behind it.  The list of free  *)
(* blocks is circular and starts at the static header Base, below the      *)
(* heap, which grows by sbrk().                                            *)
(*                                                                         *)
(* sbrk() takes an int: from 2^31 bytes on the size arrives negative, or   *)
(* as 0, and sbrk() succeeds with no new memory, or shrinks the process.   *)
(* malloc() is followed to its end even then, but nothing after it: fate.  *)
(***************************************************************************)
EXTENDS Integers, FiniteSets

CONSTANTS
    HeaderBytes,  \* sizeof(Header)
    PageUnits,    \* headers in a page
    Low,          \* units of the program below the heap, whole pages
    MoreUnits,    \* morecore() asks for at least these (4096)
    HeapLimit,    \* where sbrk() fails
    UWord,        \* unsigned integers are modulo UWord
    Requests      \* the sizes asked for, in bytes

ASSUME HeapAssumption ==
    /\ {HeaderBytes, PageUnits, Low, MoreUnits, HeapLimit} \subseteq Nat \ {0}
    /\ Low % PageUnits = 0
    /\ UWord \in Nat /\ UWord % (2 * HeaderBytes) = 0 /\ 2 * HeaderBytes * HeapLimit <= UWord
    /\ Requests \subseteq 0 .. UWord - 1

Base   == 0
NoList == -1
AddrUnits == UWord \div HeaderBytes   \* what a pointer can address: pointers wrap

VARIABLES
    hdr,    \* hdr[a]: ptr and size of the header at a
    freep,  \* where the next search starts
    brk,    \* end of the process's memory, its sz
    live,   \* live[a]: bytes asked for, for each block in use
    fate    \* "overdrawn": sbrk() succeeded without new memory; "faulted": the process touched
            \* what it had given back, and is killed

hvars == <<hdr, freep, brk, live, fate>>

HeapInit ==
    hdr = [a \in {} |-> 0] /\ freep = NoList /\ brk = Low /\ live = [a \in {} |-> 0] /\ fate = "runs"

WithHdr(h, a, ptr, size) == [x \in DOMAIN h \cup {a} |-> IF x = a THEN [ptr |-> ptr, size |-> size] ELSE h[x]]
Without(h, a) == [x \in DOMAIN h \ {a} |-> h[x]]

(* free(): the free block below bp, or the last one if bp lies outside. *)
RECURSIVE Below(_, _, _)
Below(h, bp, p) ==
    IF \/ bp > p /\ bp < h[p].ptr
       \/ p >= h[p].ptr /\ (bp > p \/ bp < h[p].ptr)
    THEN p ELSE Below(h, bp, h[p].ptr)

(* It is joined with its upper and then with its lower neighbour. *)
BugJoinUpper(h, bp, p) == WithHdr(h, bp, h[p].ptr, h[bp].size)
JoinUpper(h, bp, p) ==
    LET q == h[p].ptr IN
    IF (bp + h[bp].size) % AddrUnits = q THEN WithHdr(Without(h, q), bp, h[q].ptr, h[bp].size + h[q].size)
    ELSE WithHdr(h, bp, q, h[bp].size)

JoinLower(h, bp, p) ==
    IF (p + h[p].size) % AddrUnits = bp THEN WithHdr(Without(h, bp), p, h[bp].ptr, h[p].size + h[bp].size)
    ELSE WithHdr(h, p, bp, h[p].size)

(* The headers and freep after free(bp). *)
Released(h, start, bp) ==
    LET p == Below(h, bp, start) IN [hdr |-> JoinLower(JoinUpper(h, bp, p), bp, p), freep |-> p]

free(bp) ==
    LET s == Released(hdr, freep, bp) IN
    /\ bp \in DOMAIN live
    /\ hdr' = s.hdr /\ freep' = s.freep
    /\ live' = Without(live, bp)
    /\ UNCHANGED <<brk, fate>>

-----------------------------------------------------------------------------
(* malloc(): the size in units, one for the header; the sum is unsigned. *)
Units(nbytes) == (((nbytes + HeaderBytes - 1) % UWord) \div HeaderBytes) + 1

(* sbrk(nu * sizeof(Header)) in units: the product is a uint that wraps,   *)
(* and the argument of sbrk() an int.                                      *)
SbrkArg(nu) == LET n == nu % AddrUnits IN IF 2 * n < AddrUnits THEN n ELSE n - AddrUnits

(* growproc(n) with n <= 0 of a process of size b: sz + n is a uint again, *)
(* and above sz if it wraps.                                               *)
Shrunk(b, n) == IF b + n < 0 THEN b ELSE b + n

RoundUp(b) == ((b + PageUnits - 1) \div PageUnits) * PageUnits

(* The search from prevp on, of s = [hdr, freep, brk, fate]; s.at is the   *)
(* block, or NoList if there is none.  The ptr of a block in use is not    *)
(* read again and shown as NoList.                                         *)
MoreOf(nu) == IF nu < MoreUnits THEN MoreUnits ELSE nu

RECURSIVE Search(_, _, _)
Search(s, prevp, nu) ==
    LET p == s.hdr[prevp].ptr
        size == s.hdr[p].size
        tail == (p + size - nu) % AddrUnits
        more == MoreOf(nu)
        n == SbrkArg(more)
        sz == IF n > 0 THEN s.brk + n ELSE Shrunk(s.brk, n)
        grown == Released(WithHdr(s.hdr, s.brk, NoList, more), s.freep, s.brk)
        searched == size < nu /\ p = s.freep
    IN CASE size = nu -> [s EXCEPT !.hdr = WithHdr(WithHdr(@, prevp, @[p].ptr, @[prevp].size), p, NoList, nu),
                                   !.freep = prevp, !.at = p]
         [] size > nu -> [s EXCEPT !.hdr = WithHdr(WithHdr(@, p, @[p].ptr, size - nu), tail, NoList, nu),
                                   !.freep = prevp, !.at = tail]
         [] size < nu /\ p # s.freep -> Search(s, p, nu)
         [] searched /\ n > 0 /\ sz > HeapLimit -> [s EXCEPT !.at = NoList]
         [] searched /\ n > 0 /\ sz <= HeapLimit ->
              Search([s EXCEPT !.hdr = grown.hdr, !.freep = grown.freep, !.brk = sz], grown.freep, nu)
         \* deallocuvm() has freed every page and growproc() calls that a failure
         [] searched /\ n <= 0 /\ sz = 0 -> [s EXCEPT !.at = NoList, !.fate = "faulted"]
         \* hp->s.size at the old end: on no page, or on one that is still there
         [] searched /\ n <= 0 /\ sz > 0 /\ RoundUp(sz) <= s.brk ->
              [s EXCEPT !.at = NoList, !.brk = sz, !.fate = "faulted"]
         [] searched /\ n <= 0 /\ sz > 0 /\ RoundUp(sz) > s.brk ->
              Search([s EXCEPT !.hdr = grown.hdr, !.freep = grown.freep, !.brk = sz, !.fate = "overdrawn"],
                     grown.freep, nu)

Prepared ==
    [hdr |-> IF freep = NoList THEN WithHdr(hdr, Base, Base, 0) ELSE hdr,
     freep |-> IF freep = NoList THEN Base ELSE freep,
     brk |-> brk, fate |-> fate, at |-> NoList]

malloc(nbytes) ==
    LET s == Search(Prepared, Prepared.freep, Units(nbytes)) IN
    /\ hdr' = s.hdr /\ freep' = s.freep /\ brk' = s.brk /\ fate' = s.fate
    /\ live' = IF s.at = NoList THEN live ELSE [a \in DOMAIN live \cup {s.at} |-> IF a = s.at THEN nbytes ELSE live[a]]

HeapNext ==
    /\ fate = "runs"
    /\ (\E n \in Requests : malloc(n)) \/ (\E a \in DOMAIN live : free(a))

-----------------------------------------------------------------------------
(* The free blocks, and the units of a block. *)
Chain == {a \in DOMAIN hdr : a # Base /\ a \notin DOMAIN live}
Span(a) == a .. a + hdr[a].size - 1

(* The blocks in use and the blocks on the free list cover the heap        *)
(* without overlapping; two free blocks never touch, so space that was     *)
(* given back can be had again as a whole; and a block is large enough for *)
(* what was asked.  Left out are the requests so large that Units() wraps,  *)
(* which get a block too small (umalloc.c:69), and a process whose sbrk()  *)
(* of 2^31 bytes or more has succeeded (umalloc.c:54): the block it gets   *)
(* has no memory behind it.                                                *)
HeapSound ==
    freep # NoList /\ fate = "runs" =>
      /\ \A a, b \in DOMAIN hdr \ {Base} : a # b => Span(a) \cap Span(b) = {}
      /\ UNION {Span(a) : a \in DOMAIN hdr \ {Base}} = Low .. brk - 1
      /\ freep \in Chain \cup {Base}
      /\ \A a \in Chain \cup {Base} :
           /\ hdr[a].ptr = IF \E b \in Chain : b > a
                             THEN CHOOSE b \in Chain : b > a /\ \A c \in Chain : c > a => c >= b
                             ELSE Base
           /\ a # Base => a + hdr[a].size \notin Chain
      /\ \A a \in DOMAIN live : live[a] + HeaderBytes <= UWord => (hdr[a].size - 1) * HeaderBytes >= live[a]
=============================================================================
