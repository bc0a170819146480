----------------------------- MODULE ByteFiles ------------------------------
(***************************************************************************)
(* What the content layer of the file system promises: a file is a string  *)
(* of bytes that a write replaces or extends, a read returns and a         *)
(* truncation empties, whatever other files do.                            *)
(***************************************************************************)
EXTENDS Integers, Sequences

CONSTANTS FileIds, MaxSize,
          NoneRead,       \* what a call that is no read returns
          Payloads(_, _)   \* Payloads(f, off): the strings that are written to f at off

VARIABLES content, out

fvars == <<content, out>>

ByteInit == DOMAIN content = FileIds /\ out = NoneRead

(* The string b from off on. *)
Overwrite(s, off, b) ==
    [k \in 1 .. (IF off + Len(b) > Len(s) THEN off + Len(b) ELSE Len(s)) |->
        IF k > off /\ k <= off + Len(b) THEN b[k - off] ELSE s[k]]

WriteBytes(f) ==
    /\ out' = NoneRead
    /\ \E off \in 0 .. Len(content[f]) : \E b \in Payloads(f, off) :
         off + Len(b) <= MaxSize /\ content' = [content EXCEPT ![f] = Overwrite(@, off, b)]

(* The n bytes from off on, or what there is of them. *)
Extract(s, off, n) == SubSeq(s, off + 1, IF off + n > Len(s) THEN Len(s) ELSE off + n)

ReadBytes(f) ==
    /\ UNCHANGED content
    /\ out'.file = f /\ out'.from <= Len(content[f])
    /\ out'.bytes = Extract(content[f], out'.from, out'.n)

Empty(f) == out' = NoneRead /\ content' = [content EXCEPT ![f] = <<>>]

ByteNext == \E f \in FileIds : ReadBytes(f) \/ WriteBytes(f) \/ Empty(f)

ByteSpec == ByteInit /\ [][ByteNext]_fvars
=============================================================================
