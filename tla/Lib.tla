--------------------------------- MODULE Lib ---------------------------------
(***************************************************************************)
(* The library functions of kernel and programs (string.c, ulib.c), the    *)
(* conversions of numbers (printf.c, console.c, atoi), the pattern matcher *)
(* of grep.c, the checks of user pointers of syscall.c and the keyboard    *)
(* decoder of kbd.c, each loop as in the code, compared with what it is to *)
(* compute on all small inputs.                                            *)
(*                                                                         *)
(* Memory is a function from addresses to characters; a string is a        *)
(* sequence of characters without NUL, which is 0.                         *)
(***************************************************************************)
EXTENDS Integers, Sequences, FiniteSets, SequencesExt, FiniteSetsExt

CONSTANTS
    MemSize,    \* addresses 0 .. MemSize - 1
    MaxLength,  \* bound on the length of strings and patterns
    Events      \* bound on the number of keyboard events

VARIABLE lib   \* the call: f and its arguments

NUL == 0
At(s, i) == IF i \in 1 .. Len(s) THEN s[i] ELSE NUL

-----------------------------------------------------------------------------
(* memmove(): backwards if the destination overlaps the source from above. *)
RECURSIVE Forward(_, _, _, _), Backward(_, _, _, _)
Forward(m, d, s, n)  == IF n = 0 THEN m ELSE Forward([m EXCEPT ![d] = m[s]], d + 1, s + 1, n - 1)
Backward(m, d, s, n) == IF n = 0 THEN m ELSE Backward([m EXCEPT ![d + n - 1] = m[s + n - 1]], d, s, n - 1)

BugOverlapsUp(d, s, n) == s < d /\ s + n > d + 1
OverlapsUp(d, s, n) == s < d /\ s + n > d
memmove(m, d, s, n) == IF OverlapsUp(d, s, n) THEN Backward(m, d, s, n) ELSE Forward(m, d, s, n)

(* The library's memmove() only goes forward. *)
ulib_memmove(m, d, s, n) == Forward(m, d, s, n)

Moved(m, d, s, n) == [a \in DOMAIN m |-> IF a >= d /\ a < d + n THEN m[s + a - d] ELSE m[a]]

RECURSIVE strncmp(_, _, _)
strncmp(p, q, n) ==
    IF n > 0 /\ At(p, 1) # NUL /\ At(p, 1) = At(q, 1) THEN strncmp(Tail(p), Tail(q), n - 1)
    ELSE IF n = 0 THEN 0 ELSE At(p, 1) - At(q, 1)

RECURSIVE strcmp(_, _)
strcmp(p, q) ==
    IF At(p, 1) # NUL /\ At(p, 1) = At(q, 1) THEN strcmp(Tail(p), Tail(q)) ELSE At(p, 1) - At(q, 1)

(* The n bytes from s on after strncpy(s, t, n), those of old before. *)
RECURSIVE strncpy(_, _, _, _)
strncpy(old, t, n, k) ==
    IF k > n THEN old
    ELSE IF At(t, k) = NUL THEN [i \in 1 .. Len(old) |-> IF i >= k /\ i <= n THEN NUL ELSE old[i]]
    ELSE strncpy([old EXCEPT ![k] = t[k]], t, n, k + 1)

RECURSIVE safestrcpy(_, _, _, _)
safestrcpy(old, t, n, k) ==
    IF n <= 0 THEN old
    ELSE IF k = n THEN [old EXCEPT ![k] = NUL]
    ELSE IF At(t, k) # NUL THEN safestrcpy([old EXCEPT ![k] = t[k]], t, n, k + 1)
    ELSE [old EXCEPT ![k] = NUL, ![k + 1] = NUL]         \* the copied NUL, then one more

(* The bytes before the first NUL. *)
RECURSIVE StringIn(_)
StringIn(b) == IF b = <<>> \/ Head(b) = NUL THEN <<>> ELSE <<Head(b)>> \o StringIn(Tail(b))

-----------------------------------------------------------------------------
(* printint(): digits of x, lowest first in buf, printed from the last; x  *)
(* is unsigned, w bits wide.                                               *)
RECURSIVE DigitsOf(_, _)
DigitsOf(x, base) == IF x < base THEN <<x>> ELSE <<x % base>> \o DigitsOf(x \div base, base)

Minus == -1
printint(xx, base, sgn, word) ==
    LET neg == sgn /\ xx < 0
        x == (IF neg THEN -xx ELSE xx) % word
        buf == DigitsOf(x, base) \o (IF neg THEN <<Minus>> ELSE <<>>)
    IN Reverse(buf)

Value(ds, base) == FoldLeft(LAMBDA v, d : v * base + d, 0, ds)

(* atoi(): signed arithmetic on w bits. *)
Signed(v, word) == IF v % word >= word \div 2 THEN (v % word) - word ELSE v % word
RECURSIVE atoi(_, _, _)
atoi(s, n, word) ==
    IF s # <<>> /\ Head(s) \in 0 .. 9 THEN atoi(Tail(s), Signed(n * 10 + Head(s), word), word) ELSE n

-----------------------------------------------------------------------------
(* match(), matchhere() and matchstar() of grep.c. *)
Has(re, i, c) == i <= Len(re) /\ re[i] = c

RECURSIVE matchhere(_, _), matchstar(_, _, _)
matchhere(re, text) ==
    IF re = <<>> THEN TRUE
    ELSE IF Has(re, 2, "*") THEN matchstar(re[1], SubSeq(re, 3, Len(re)), text)
    ELSE IF re = <<"$">> THEN text = <<>>
    ELSE /\ text # <<>> /\ (re[1] = "." \/ re[1] = text[1])
         /\ matchhere(Tail(re), Tail(text))

matchstar(c, re, text) ==
    \/ matchhere(re, text)
    \/ text # <<>> /\ (text[1] = c \/ c = ".") /\ matchstar(c, re, Tail(text))

RECURSIVE MatchFrom(_, _)
MatchFrom(re, text) == matchhere(re, text) \/ (text # <<>> /\ MatchFrom(re, Tail(text)))

match(re, text) == IF Has(re, 1, "^") THEN matchhere(Tail(re), text) ELSE MatchFrom(re, text)

(* What a pattern means: items, each a character or any number of it, that *)
(* cover a stretch of the text, up to the end behind a last "$".           *)
RECURSIVE Items(_)
Items(re) ==
    IF re = <<>> THEN <<>>
    ELSE IF Has(re, 2, "*") THEN <<[c |-> re[1], star |-> TRUE]>> \o Items(SubSeq(re, 3, Len(re)))
    ELSE <<[c |-> re[1], star |-> FALSE]>> \o Items(Tail(re))

Denotes(re, text) ==
    LET anchored == Has(re, 1, "^")
        all == Items(IF anchored THEN Tail(re) ELSE re)
        toEnd == all # <<>> /\ Last(all) = [c |-> "$", star |-> FALSE]
        items == IF toEnd THEN Front(all) ELSE all
        n == Len(items)
    IN \E cut \in [0 .. n -> 0 .. Len(text)] :
         /\ anchored => cut[0] = 0
         /\ toEnd => cut[n] = Len(text)
         /\ \A i \in 1 .. n : /\ IF items[i].star THEN cut[i] >= cut[i - 1] ELSE cut[i] = cut[i - 1] + 1
                              /\ \A k \in cut[i - 1] + 1 .. cut[i] : items[i].c \in {".", text[k]}

-----------------------------------------------------------------------------
(* Checks of user pointers against the size sz of the process; addresses   *)
(* are unsigned, modulo word.  mem tells which bytes are NUL.              *)
fetchint(addr, sz, word) == ~(addr >= sz \/ (addr + 4) % word > sz)

argptr(i, size, sz, word) == ~(size < 0 \/ i >= sz \/ (i + size) % word > sz)

(* The length of the string at addr, or -1. *)
fetchstr(nuls, addr, sz) ==
    LET S == {s \in nuls : s >= addr /\ s < sz} IN
    IF addr >= sz \/ S = {} THEN -1 ELSE Min(S) - addr

-----------------------------------------------------------------------------
(* kbdgetc(): the modifiers held, E0 for an escape, and the character of a *)
(* letter key.  A scan code is a key with an E0 prefix or not, pressed or  *)
(* released.                                                               *)
Code(key) == CASE key = "shift" -> "SHIFT" [] key \in {"ctl", "E0ctl"} -> "CTL" [] OTHER -> "none"

kbdgetc(shift, data) ==
    LET full == IF "E0ESC" \in shift /\ data.key = "ctl" THEN "E0ctl" ELSE data.key
        held == (shift \ {"E0ESC"}) \cup ({Code(full)} \ {"none"})
        caps == IF full # "caps" THEN held
                ELSE IF "CAPSLOCK" \in held THEN held \ {"CAPSLOCK"} ELSE held \cup {"CAPSLOCK"}
        map == IF "CTL" \in caps THEN "control" ELSE IF "SHIFT" \in caps THEN "upper" ELSE "lower"
    IN IF data.key = "E0" THEN [shift |-> shift \cup {"E0ESC"}, c |-> "none"]
       ELSE IF data.up THEN [shift |-> shift \ {Code(full), "E0ESC"}, c |-> "none"]
       ELSE [shift |-> caps,
             c |-> IF full # "letter" THEN "none"
                   ELSE IF "CAPSLOCK" \in caps /\ map = "lower" THEN "upper"
                   ELSE IF "CAPSLOCK" \in caps /\ map = "upper" THEN "lower" ELSE map]

(* The decoder after a sequence of scan codes. *)
Decoded(codes) == FoldLeft(LAMBDA s, d : kbdgetc(s.shift, d), [shift |-> {}, c |-> "none"], codes)

(* The keys that are down after them, with one key for each modifier. *)
Down(codes, key) ==
    LET K == {k \in 1 .. Len(codes) : codes[k].key = key} IN K # {} /\ ~codes[Max(K)].up
CapsOn(codes) == Cardinality({k \in 1 .. Len(codes) : codes[k] = [key |-> "caps", up |-> FALSE]}) % 2 = 1

-----------------------------------------------------------------------------
(* The inputs. *)
Strings(C, n) == UNION {[1 .. k -> C] : k \in 0 .. n}
Word == 256

Scan(key, up) == IF key = "ctl" THEN <<[key |-> "E0", up |-> FALSE], [key |-> key, up |-> up]>>
                 ELSE <<[key |-> key, up |-> up]>>
Typed(evs) == FlattenSeq([k \in 1 .. Len(evs) |-> Scan(evs[k][1], evs[k][2])])

Calls ==
    [f : {"memmove", "ulib_memmove"}, d : 0 .. MemSize - 1, s : 0 .. MemSize - 1, n : 0 .. MemSize]
    \cup [f : {"strncmp", "strncpy", "safestrcpy"}, p : Strings({1, 2}, MaxLength), q : Strings({1, 2}, MaxLength),
          n : 0 .. MaxLength]
    \cup [f : {"strcmp"}, p : Strings({1, 2}, MaxLength), q : Strings({1, 2}, MaxLength)]
    \cup [f : {"printint"}, x : -(Word \div 2) .. (Word \div 2) - 1, base : {10, 16}, sgn : BOOLEAN]
    \cup [f : {"atoi"}, s : Strings({0, 1, 2, 9, -1}, 3)]
    \cup [f : {"match"}, re : Strings({"x", ".", "*", "^", "$"}, MaxLength), text : Strings({"x", "y", "$"}, MaxLength)]
    \cup [f : {"fetch"}, addr : 0 .. 15, size : -8 .. 7, sz : 0 .. 8, nuls : {{}, {0}, {3, 5}, {8}}]
    \cup [f : {"kbdgetc"}, evs : UNION {[1 .. k -> {"shift", "ctl", "caps", "letter"} \X BOOLEAN] : k \in 1 .. Events}]

(* The digits in front. *)
TakePrefix(s) ==
    LET N == {k \in 1 .. Len(s) : s[k] \notin 0 .. 9} IN IF N = {} THEN s ELSE SubSeq(s, 1, Min(N) - 1)

LibInit == lib \in Calls

Sign(x) == IF x < 0 THEN -1 ELSE IF x > 0 THEN 1 ELSE 0
Cut(s, n) == SubSeq(s, 1, IF n < Len(s) THEN n ELSE Len(s))
Nines == [i \in 1 .. MaxLength + 1 |-> 9]

(* Each function returns what it is for: memmove() copies overlapping      *)
(* stretches as if through a third place (the library's only downwards);   *)
(* strncpy() fills exactly n bytes and safestrcpy() always ends the string *)
(* within n; numbers are printed so that they read back, the most negative *)
(* one too; a pattern matches what it denotes; a pointer is accepted only  *)
(* if all the bytes it stands for lie below sz; and the character of a     *)
(* letter key depends only on the modifiers that are down.                 *)
MatchesReference ==
    LET x == lib
        mem == [a \in 0 .. MemSize - 1 |-> a]
    IN
    CASE x.f = "memmove" /\ x.s + x.n <= MemSize /\ x.d + x.n <= MemSize ->
           memmove(mem, x.d, x.s, x.n) = Moved(mem, x.d, x.s, x.n)
      [] x.f = "ulib_memmove" /\ x.s + x.n <= MemSize /\ x.d <= x.s ->
           ulib_memmove(mem, x.d, x.s, x.n) = Moved(mem, x.d, x.s, x.n)
      [] x.f = "strncmp" -> strncmp(x.p, x.q, x.n) = 0 <=> Cut(x.p, x.n) = Cut(x.q, x.n)
      [] x.f = "strcmp" -> /\ strcmp(x.p, x.q) = 0 <=> x.p = x.q
                           /\ Sign(strcmp(x.p, x.q)) = -Sign(strcmp(x.q, x.p))
      [] x.f = "strncpy" -> strncpy(Nines, x.p, x.n, 1) = [i \in 1 .. Len(Nines) |-> IF i <= x.n THEN At(x.p, i) ELSE 9]
      [] x.f = "safestrcpy" -> LET b == safestrcpy(Nines, x.p, x.n, 1) IN
           /\ x.n > 0 => StringIn(b) = Cut(x.p, x.n - 1)
           /\ \A i \in x.n + 1 .. Len(Nines) : b[i] = 9
      [] x.f = "printint" -> LET ds == printint(x.x, x.base, x.sgn, Word) IN
           IF x.sgn /\ x.x < 0 THEN Head(ds) = Minus /\ -Value(Tail(ds), x.base) = x.x
           ELSE Value(ds, x.base) = x.x % Word
      [] x.f = "atoi" -> LET n == Value(TakePrefix(x.s), 10) IN n < Word \div 2 => atoi(x.s, 0, Word) = n
      [] x.f = "match" -> match(x.re, x.text) = Denotes(x.re, x.text)
      [] x.f = "fetch" ->
           /\ fetchint(x.addr, x.sz, 16) => x.addr + 4 <= x.sz
           /\ argptr(x.addr, x.size, x.sz, 16) => x.size >= 0 /\ x.addr + x.size <= x.sz
           /\ fetchstr(x.nuls, x.addr, x.sz) # -1 => x.addr + fetchstr(x.nuls, x.addr, x.sz) \in x.nuls \cap 0 .. x.sz - 1
      [] x.f = "kbdgetc" /\ Last(x.evs) = <<"letter", FALSE>> ->
           LET codes == Typed(x.evs) IN
           Decoded(codes).c = IF Down(codes, "ctl") THEN "control"
                              ELSE IF Down(codes, "shift") # CapsOn(codes) THEN "upper" ELSE "lower"
      [] OTHER -> TRUE
=============================================================================
