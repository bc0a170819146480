------------------------------- MODULE Filters -------------------------------
(***************************************************************************)
(* The programs that read a text piece by piece: cat.c, wc.c, head.c,      *)
(* grep.c; and uniq as the kernel's sys_uniq1() does it on a buffer.       *)
(* read() returns whatever part of the text is there, as from a pipe or    *)
(* the console, so that a line or a word may be split anywhere.            *)
(***************************************************************************)
EXTENDS Integers, Sequences, FiniteSets, SequencesExt, FiniteSetsExt

CONSTANTS
    MaxText,   \* bound on the length of the text
    BufSize,   \* size of the programs' buffer
    HeadLines  \* the argument of head

NLine  == "\n"
Space  == " "
Lower(c) == IF c = "X" THEN "x" ELSE c
Texts  == UNION {[1 .. n -> {"x", "X", "y", NLine, Space}] : n \in 0 .. MaxText}

VARIABLES
    prog,   \* the program
    text,   \* the whole text
    pos,    \* how much of it has been read
    st,     \* the program's variables
    out,    \* what it has written
    ended

filtvars == <<prog, text, pos, st, out, ended>>

Chunk(n) == SubSeq(text, pos + 1, pos + n)
Start == [l |-> 0, w |-> 0, c |-> 0, inword |-> FALSE, keep |-> <<>>, dropped |-> FALSE]

FiltersInit ==
    /\ prog \in {"cat", "wc", "head", "grep", "uniq", "uniq -i", "uniq -d"}
    /\ text \in Texts /\ pos = 0 /\ st = Start /\ out = <<>> /\ ended = FALSE

(* read() gives 1 .. max bytes, or 0 at the end. *)
Reads(p, n, max) == prog = p /\ ~ended /\ n <= max /\ pos + n <= Len(text) /\ pos' = pos + n
AtEnd(p) ==
    /\ prog = p /\ ~ended /\ pos = Len(text)
    /\ ended' = TRUE
    /\ UNCHANGED <<prog, text, pos, st, out>>

cat(n) ==
    /\ Reads("cat", n, BufSize)
    /\ out' = out \o Chunk(n)
    /\ UNCHANGED <<prog, text, st, ended>>

(* One character of wc(): inword lives across reads. *)
BugStay(s) == [s EXCEPT !.inword = FALSE]
Stay(s) == s
Counted(s, c) ==
    [s EXCEPT !.c = @ + 1,
              !.l = @ + (IF c = NLine THEN 1 ELSE 0),
              !.w = @ + (IF c \notin {NLine, Space} /\ ~s.inword THEN 1 ELSE 0),
              !.inword = c \notin {NLine, Space}]
wc(n) ==
    /\ Reads("wc", n, BufSize)
    /\ st' = FoldLeft(Counted, Stay(st), Chunk(n))
    /\ UNCHANGED <<prog, text, out, ended>>

(* head(): it looks at the count of lines only after it has read. *)
Written(s, c) ==
    IF s.l >= HeadLines THEN s ELSE [s EXCEPT !.keep = Append(@, c), !.l = @ + (IF c = NLine THEN 1 ELSE 0)]
head(n) ==
    LET s == FoldLeft(Written, [st EXCEPT !.keep = <<>>], Chunk(n)) IN
    /\ Reads("head", n, BufSize)
    /\ ended' = (st.l >= HeadLines)
    /\ out' = out \o s.keep
    /\ st' = [s EXCEPT !.keep = <<>>]
    /\ UNCHANGED <<prog, text>>

(* grep(): complete lines of the buffer are matched and the rest is kept,  *)
(* but a buffer without a newline is thrown away.                          *)
LinesOf(s) ==
    LET N == {k \in 1 .. Len(s) : s[k] = NLine}
        e == SetToSortSeq(N, <)
    IN [i \in 1 .. Len(e) |-> SubSeq(s, IF i = 1 THEN 1 ELSE e[i - 1] + 1, e[i])]
Rest(s) ==
    LET N == {k \in 1 .. Len(s) : s[k] = NLine} IN IF N = {} THEN s ELSE SubSeq(s, Max(N) + 1, Len(s))
Matches(ln) == \E k \in 1 .. Len(ln) : ln[k] = "x"
grep(n) ==
    LET buf == st.keep \o Chunk(n)
        rest == Rest(buf)
    IN
    /\ Reads("grep", n, BufSize - Len(st.keep) - 1)
    /\ out' = out \o FlattenSeq(SelectSeq(LinesOf(buf), Matches))
    /\ st' = [st EXCEPT !.keep = IF rest = buf THEN <<>> ELSE rest, !.dropped = @ \/ rest = buf]
    /\ UNCHANGED <<prog, text, ended>>

(* sys_uniq1(): the state is previousLine (keep) and count (c). *)
Folded(ln) == [k \in 1 .. Len(ln) |-> Lower(ln[k])]
UniqLine(p, s, ln) ==
    LET same == s.keep = (IF p = "uniq -i" THEN Folded(ln) ELSE ln)
        shown == IF p = "uniq -d" THEN same /\ s.c = 0 ELSE ~same
    IN [s EXCEPT !.keep = IF p = "uniq -i" THEN Folded(ln) ELSE ln,
                 !.c = IF p = "uniq -d" /\ same THEN @ + 1 ELSE 0,
                 !.text = IF shown THEN @ \o ln ELSE @]
uniq ==
    LET s0 == [keep |-> <<>>, c |-> 0, text |-> <<>>] IN
    /\ prog \in {"uniq", "uniq -i", "uniq -d"} /\ ~ended
    /\ out' = FoldLeft(LAMBDA s, ln : UniqLine(prog, s, ln), s0, LinesOf(text)).text
    /\ pos' = Len(text) /\ ended' = TRUE
    /\ UNCHANGED <<prog, text, st>>

FiltersNext ==
    \/ \E n \in 1 .. MaxText : cat(n) \/ wc(n) \/ head(n) \/ grep(n)
    \/ uniq \/ \E p \in {"cat", "wc", "head", "grep"} : AtEnd(p)

-----------------------------------------------------------------------------
(* What each program is to write, of the whole text. *)
Key(ln) == IF prog = "uniq -i" THEN Folded(ln) ELSE ln
InRun(i) == LET L == LinesOf(text) IN
    Cardinality({j \in 1 .. i : \A k \in j .. i : Key(L[k]) = Key(L[i])})
Picked(n) ==
    LET L == LinesOf(text)
        I == SelectSeq([i \in 1 .. Len(L) |-> i], LAMBDA i : InRun(i) = n)
    IN FlattenSeq([k \in 1 .. Len(I) |-> L[I[k]]])
FirstLines ==
    LET N == {k \in 1 .. Len(text) : Cardinality({j \in 1 .. k : text[j] = NLine}) = HeadLines} IN
    IF HeadLines = 0 THEN <<>> ELSE IF N = {} THEN text ELSE SubSeq(text, 1, Min(N))
IsWordStart(k) == text[k] \notin {NLine, Space} /\ (k = 1 \/ text[k - 1] \in {NLine, Space})

(* However the text was split between the reads, cat writes it all, wc     *)
(* counts its lines, words and characters, head writes its first lines,    *)
(* uniq writes the first (-d: the second) of each run of equal lines, and  *)
(* grep writes the lines that match if no buffer was without a newline.    *)
FilterOutput ==
    ended =>
      CASE prog = "cat" -> out = text
        [] prog = "wc" -> /\ st.c = Len(text)
                          /\ st.l = Len(LinesOf(text))
                          /\ st.w = Cardinality({k \in 1 .. Len(text) : IsWordStart(k)})
        [] prog = "head" -> out = FirstLines
        [] prog = "grep" -> ~st.dropped => out = FlattenSeq(SelectSeq(LinesOf(text), Matches))
        [] prog \in {"uniq", "uniq -i"} -> out = Picked(1)
        [] prog = "uniq -d" -> out = Picked(2)
=============================================================================
