------------------------------- MODULE Blocks -------------------------------
(***************************************************************************)
(* The content of files on disk blocks: balloc, bfree, bmap, itrunc, readi *)
(* and writei of fs.c, from the image that mkfs.c builds.  Each call runs  *)
(* under the inode's lock inside one transaction, so it is one step here.  *)
(* Blocks are numbered from the first data block; 0 is no block.  A block  *)
(* has bytes and, read as an indirect block, block numbers.                *)
(***************************************************************************)
EXTENDS Integers, Sequences, FiniteSets, FiniteSetsExt, Functions

CONSTANTS
    BSIZE, NDIRECT, NINDIRECT,
    NBLOCKS,     \* data blocks of the disk
    Inodes,
    Root,        \* the inode of the root directory
    RootData,    \* the directory entries mkfs wrote
    UINT,        \* unsigned integers are modulo UINT
    Counts,      \* lengths of reads, and of writes that are refused
    Payloads(_, _)  \* Payloads(i, off): the strings written to file i at off

ASSUME BlocksAssumption ==
    /\ {BSIZE, NDIRECT, NINDIRECT, NBLOCKS} \subseteq Nat \ {0}
    /\ Root \in Inodes /\ Counts \subseteq 0 .. UINT - 1
    /\ UINT > 2 * BSIZE * (NDIRECT + NINDIRECT)

NoRead    == [file |-> Root, from |-> 0, n |-> 0, bytes |-> <<>>]
MAXFILE   == NDIRECT + NINDIRECT
DataBlocks == 1 .. NBLOCKS
NoBlock   == 0
NoByte    == <<>>
Zero      == [bytes |-> [k \in 0 .. BSIZE - 1 |-> NoByte], ptrs |-> [k \in 0 .. NINDIRECT - 1 |-> NoBlock]]

VARIABLES
    used,       \* the bitmap: blocks in use
    disk,       \* disk[b]: what block b holds
    inode,      \* inode[i]: size and addrs
    result,     \* the last call, if it was a read, and the bytes it returned
    outOfBlocks \* balloc() panicked

bvars == <<used, disk, inode, result, outOfBlocks>>

-----------------------------------------------------------------------------
(* balloc() marks the first free block and clears it. *)
BugCleared(d, b) == d
Cleared(d, b) == [d EXCEPT ![b] = Zero]

balloc(s) ==
    IF s.used = DataBlocks THEN [s EXCEPT !.failed = TRUE]
    ELSE LET b == Min(DataBlocks \ s.used) IN
         [s EXCEPT !.used = @ \cup {b}, !.disk = Cleared(@, b), !.new = b]

(* bmap(): s.addr is block bn of the file, allocated if it is missing; an  *)
(* indirect block before the first of its entries.                         *)
bmapDirect(s, bn) ==
    IF s.addrs[bn] # NoBlock THEN [s EXCEPT !.addr = s.addrs[bn]]
    ELSE LET t == balloc(s) IN
         IF t.failed THEN t ELSE [t EXCEPT !.addrs[bn] = t.new, !.addr = t.new]

bmapIndirect(s, k) ==
    LET t == bmapDirect(s, NDIRECT)
        ind == t.addr
        u == balloc(t)
    IN IF t.failed THEN t
       ELSE IF t.disk[ind].ptrs[k] # NoBlock THEN [t EXCEPT !.addr = t.disk[ind].ptrs[k]]
       ELSE IF u.failed THEN u
       ELSE [u EXCEPT !.disk[ind].ptrs[k] = u.new, !.addr = u.new]

bmap(s, bn) == IF bn < NDIRECT THEN bmapDirect(s, bn) ELSE bmapIndirect(s, bn - NDIRECT)

InMemory(i) == [used |-> used, disk |-> disk, addrs |-> inode[i].addrs, new |-> NoBlock, addr |-> NoBlock,
             failed |-> FALSE]

Least(x, y) == IF x < y THEN x ELSE y
USum(x, y) == (x + y) % UINT

(* How much of n bytes from off on lies in the block of off. *)
Part(off, n) == Least(n, BSIZE - (off % BSIZE))

(* src += m: the bytes still to be written after the first m. *)
BugUnwritten(b, m) == SubSeq(b, 1, Len(b) - m)
Unwritten(b, m) == SubSeq(b, m + 1, Len(b))

(* The loop of writei() over the string b: the part of each block in turn. *)
RECURSIVE WriteFrom(_, _, _)
WriteFrom(s, off, b) ==
    LET m == Part(off, Len(b))
        t == bmap(s, off \div BSIZE)
        o == off % BSIZE
    IN IF b = <<>> \/ s.failed THEN s
       ELSE IF t.failed THEN t
       ELSE WriteFrom([t EXCEPT !.disk[t.addr].bytes =
                        [k \in 0 .. BSIZE - 1 |-> IF k >= o /\ k < o + m THEN b[k - o + 1] ELSE @[k]]],
                      off + m, Unwritten(b, m))

(* The early returns; sums are unsigned. *)
Refused(i, off, n) == off > inode[i].size \/ USum(off, n) < off \/ USum(off, n) > MAXFILE * BSIZE

writei(i, off, b) ==
    LET s == WriteFrom(InMemory(i), off, b)
        end == off + Len(b)
    IN
    /\ ~outOfBlocks /\ ~Refused(i, off, Len(b))
    /\ IF s.failed THEN outOfBlocks' = TRUE /\ result' = NoRead /\ UNCHANGED <<used, disk, inode>>
       ELSE /\ used' = s.used /\ disk' = s.disk /\ result' = NoRead
            /\ inode' = [inode EXCEPT ![i] = [addrs |-> s.addrs, size |-> IF end > @.size THEN end ELSE @.size]]
            /\ UNCHANGED outOfBlocks

writeiRefused(i, off, n) ==
    /\ ~outOfBlocks /\ Refused(i, off, n)
    /\ result' = NoRead
    /\ UNCHANGED <<used, disk, inode, outOfBlocks>>

(* readi(): n is cut at the size; bmap() would allocate a missing block. *)
RECURSIVE ReadFrom(_, _, _, _)
ReadFrom(s, off, n, got) ==
    LET m == Part(off, n)
        t == bmap(s, off \div BSIZE)
    IN IF n = 0 \/ t.failed THEN [s |-> IF n = 0 THEN s ELSE t, got |-> got]
       ELSE ReadFrom(t, off + m, n - m,
                     got \o [k \in 1 .. m |-> t.disk[t.addr].bytes[(off % BSIZE) + k - 1]])

readi(i, off, n) ==
    LET n1 == IF USum(off, n) > inode[i].size THEN inode[i].size - off ELSE n
        x == ReadFrom(InMemory(i), off, n1, <<>>)
    IN
    /\ ~outOfBlocks
    /\ ~(off > inode[i].size \/ USum(off, n) < off)
    /\ outOfBlocks' = x.s.failed
    /\ IF x.s.failed THEN UNCHANGED <<used, disk, inode, result>>
       ELSE /\ used' = x.s.used /\ disk' = x.s.disk /\ inode' = [inode EXCEPT ![i].addrs = x.s.addrs]
            /\ result' = [file |-> i, from |-> off, n |-> n, bytes |-> x.got]

(* itrunc(): the direct blocks, the indirect block's and itself. *)
BlocksOf(i) ==
    LET a == inode[i].addrs
        ind == a[NDIRECT]
    IN ({a[k] : k \in 0 .. NDIRECT} \cup (IF ind = NoBlock THEN {} ELSE Range(disk[ind].ptrs))) \ {NoBlock}

itrunc(i) ==
    /\ ~outOfBlocks /\ i # Root
    /\ used' = used \ BlocksOf(i)
    /\ inode' = [inode EXCEPT ![i] = [size |-> 0, addrs |-> [k \in 0 .. NDIRECT |-> NoBlock]]]
    /\ result' = NoRead
    /\ UNCHANGED <<disk, outOfBlocks>>

-----------------------------------------------------------------------------
(* mkfs: iappend() of the directory's entries takes blocks one after the   *)
(* other; then the directory's size is raised to the next block boundary.  *)
EmptyDisk ==
    [used |-> {}, disk |-> [b \in DataBlocks |-> Zero], addrs |-> [k \in 0 .. NDIRECT |-> NoBlock],
     new |-> NoBlock, addr |-> NoBlock, failed |-> FALSE]

iappend(s, b) == WriteFrom(s, 0, b)

RootSize(off) == (off \div BSIZE + 1) * BSIZE

BlocksInit ==
    LET s == iappend(EmptyDisk, RootData) IN
    /\ used = s.used /\ disk = s.disk
    /\ inode = [i \in Inodes |->
                 IF i = Root THEN [size |-> RootSize(Len(RootData)), addrs |-> s.addrs]
                 ELSE [size |-> 0, addrs |-> [k \in 0 .. NDIRECT |-> NoBlock]]]
    /\ result = NoRead /\ outOfBlocks = FALSE

BlocksNext ==
    \E i \in Inodes :
      \/ \E off \in 0 .. MAXFILE * BSIZE :
           \/ \E b \in Payloads(i, off) : writei(i, off, b)
           \/ \E n \in Counts : writeiRefused(i, off, n) \/ readi(i, off, n)
      \/ itrunc(i)

-----------------------------------------------------------------------------
(* The blocks of file i by their place; NDIRECT is that of the indirect block. *)
Places(i) ==
    LET a == inode[i].addrs IN
    [k \in 0 .. MAXFILE |-> IF k <= NDIRECT THEN a[k]
                            ELSE IF a[NDIRECT] = NoBlock THEN NoBlock ELSE disk[a[NDIRECT]].ptrs[k - NDIRECT - 1]]

(* Every block in use belongs to one file, at one place, and a file has    *)
(* exactly the blocks its size calls for: none is lost by itrunc(), none   *)
(* is shared, and readi(), which runs outside any transaction, never meets *)
(* a hole that bmap() would fill.                                          *)
BlocksExact ==
    LET at == [i \in Inodes |-> Places(i)]
        held == {<<i, k>> \in Inodes \X (0 .. MAXFILE) : at[i][k] # NoBlock}
    IN
    /\ used = {at[h[1]][h[2]] : h \in held}
    /\ Cardinality(used) = Cardinality(held)
    /\ \A i \in Inodes : \A bn \in 0 .. MAXFILE - 1 :
         LET k == IF bn < NDIRECT THEN bn ELSE bn + 1 IN (at[i][k] # NoBlock) <=> bn * BSIZE < inode[i].size

(* Byte k of file i. *)
ByteAt(i, k) ==
    LET p == Places(i)[IF k \div BSIZE < NDIRECT THEN k \div BSIZE ELSE k \div BSIZE + 1] IN
    IF p = NoBlock THEN NoByte ELSE disk[p].bytes[k % BSIZE]
F == INSTANCE ByteFiles WITH
       FileIds <- Inodes, MaxSize <- MAXFILE * BSIZE,
       content <- [i \in Inodes |-> [k \in 1 .. inode[i].size |-> ByteAt(i, k - 1)]], out <- result, NoneRead <- NoRead

(* Read back through bmap() a file is the string of bytes that was         *)
(* written: ByteFiles.                                                     *)
FileRefinement == F!ByteSpec
=============================================================================
