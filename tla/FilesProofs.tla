----------------------------- MODULE FilesProofs -----------------------------
(***************************************************************************)
(* References, locks, operations and the cache of inodes, for any number   *)
(* of processes, inodes and files and any clients.  The proof follows the  *)
(* agendas of the processes: which item may follow which, and which inode  *)
(* references and locks the rest of an agenda still has.                   *)
(***************************************************************************)
EXTENDS UserTests, FiniteSetTheorems, FunctionTheorems, SequenceTheorems, WellFoundedInduction, TLAPS

-----------------------------------------------------------------------------
(* Agendas.                                                                *)

(* The items that only give something back. *)
Pops == {"iput", "ifree", "deref", "iunlock"}

(* What may follow an item, and which may be the last. *)
After(l) ==
    CASE l \in Pops -> Pops \cup {"end_op", "walk", "link1", "link2", "unlink1", "unlink3", "create", "exists",
                                  "open1", "open2", "mkdir", "chdir1", "chdir2", "linkbad", "dead"}
      [] l = "begin_op" -> {"namei", "nameiparent", "iput", "writei"}
      [] l \in {"end_op", "close"} -> {"close", "begin_op"}
      [] l = "namei" -> {"link1", "open1", "chdir1"}
      [] l = "nameiparent" -> {"unlink1", "create", "link2"}
      [] l = "walk" -> {"link1", "open1", "chdir1", "unlink1", "create", "link2"}
      [] l \in {"create", "exists", "ialloc", "newinode"} -> {"open2", "mkdir"}
      [] OTHER -> {}
MayEnd == {"end_op", "close", "dup", "read", "write", "fstat", "writei", "link1", "link2", "linkbad",
           "unlink1", "unlink2", "unlink3", "open1", "open2", "mkdir", "chdir1", "chdir2", "dead"}
Outside == {"user", "begin_op", "close", "dup", "read", "write", "fstat"}

Push(x, s) == <<x>> \o s
IsList(s)  == s \in Seq({s[k] : k \in DOMAIN s})

(* The first item that is not one of Pops, and the last item. *)
Mains(s) == {k \in 1 .. Len(s) : s[k][1] \notin Pops /\ \A j \in 1 .. k - 1 : s[j][1] \in Pops}
Main(s)  == IF Mains(s) = {} THEN "user" ELSE s[CHOOSE k \in Mains(s) : TRUE][1]
End(s)   == IF s = <<>> THEN "user" ELSE s[Len(s)][1]

(* The descriptors that are still to be closed, each once. *)
Closes(s)    == {k \in 1 .. Len(s) : s[k][1] = "close"}
CloseArgs(s) == {s[k][2] : k \in Closes(s)}
Once(s)      == \A j, k \in Closes(s) : s[j][2] = s[k][2] => j = k

Wf(s) == \A k \in 1 .. Len(s) :
    IF k = Len(s) THEN s[k][1] \in MayEnd
    ELSE s[k + 1][1] \in After(s[k][1]) /\ (s[k][1] \in {"close", "end_op"} => End(s) = "dead")

-----------------------------------------------------------------------------
(* Sequences. *)

(* A sequence with one more item at its front. *)
LEMMA PushList ==
  ASSUME NEW x, NEW s, IsList(s)
  PROVE  /\ IsList(Push(x, s)) /\ Len(Push(x, s)) = Len(s) + 1 /\ Len(s) \in Nat /\ Push(x, s) # <<>>
         /\ Push(x, s)[1] = x /\ \A k \in 1 .. Len(s) : Push(x, s)[k + 1] = s[k]
         /\ Tail(Push(x, s)) = s
<1> DEFINE S == {s[k] : k \in DOMAIN s}
           c == Push(x, s)
           T == S \cup {x}
<1>1. s \in Seq(T) /\ <<x>> \in Seq(T) /\ s \in Seq(S)
  <2>1. s \in Seq(S) BY DEF IsList
  <2>2. S \subseteq T OBVIOUS
  <2> HIDE DEF S, T
  <2>3. s \in Seq(T) BY <2>1, <2>2, SeqMonotonic
  <2>4. x \in T BY DEF T
  <2> QED BY <2>1, <2>3, <2>4
<1> HIDE DEF S, T
<1>2. Len(s) \in Nat /\ DOMAIN s = 1 .. Len(s) BY <1>1, LenProperties
<1>3. Len(<<x>>) = 1 /\ <<x>>[1] = x OBVIOUS
<1>4. /\ c \in Seq(T) /\ Len(c) = 1 + Len(s)
      /\ \A i \in 1 .. 1 + Len(s) : c[i] = IF i <= 1 THEN <<x>>[i] ELSE s[i - 1]
  BY <1>1, <1>3, ConcatProperties DEF Push
<1>5. c[1] = x /\ \A k \in 1 .. Len(s) : c[k + 1] = s[k] BY <1>2, <1>3, <1>4
<1>6. c # <<>> BY <1>2, <1>4
<1>7. Tail(c) = s
  <2>1. /\ Tail(c) \in Seq(T) /\ Len(Tail(c)) = Len(c) - 1
        /\ \A i \in 1 .. Len(Tail(c)) : Tail(c)[i] = c[i + 1]
    BY <1>4, <1>6, HeadTailProperties
  <2>2. Len(Tail(c)) = Len(s) BY <1>2, <1>4, <2>1
  <2>3. \A i \in 1 .. Len(s) : Tail(c)[i] = s[i] BY <1>5, <2>1, <2>2
  <2> QED BY <1>1, <2>1, <2>2, <2>3, SeqEqual
<1>8. IsList(c)
  <2> DEFINE U == {c[k] : k \in DOMAIN c}
  <2>1. DOMAIN c = 1 .. Len(c) /\ c = [k \in 1 .. Len(c) |-> c[k]] /\ Len(c) \in Nat BY <1>2, <1>4, LenProperties
  <2>2. \A k \in 1 .. Len(c) : c[k] \in U BY <2>1
  <2> HIDE DEF U
  <2>3. [k \in 1 .. Len(c) |-> c[k]] \in Seq(U) BY <2>1, <2>2
  <2> QED BY <2>1, <2>3 DEF IsList, U
<1> QED BY <1>2, <1>4, <1>5, <1>6, <1>7, <1>8

(* A list that is not empty is its first item and the rest. *)
LEMMA TailList ==
  ASSUME NEW s, IsList(s), s # <<>>
  PROVE  /\ s = Push(s[1], Tail(s)) /\ IsList(Tail(s))
         /\ Len(s) \in Nat /\ Len(Tail(s)) = Len(s) - 1 /\ Len(s) > 0
         /\ \A k \in 1 .. Len(s) - 1 : Tail(s)[k] = s[k + 1]
<1> DEFINE S == {s[k] : k \in DOMAIN s}
           t == Tail(s)
<1>1. s \in Seq(S) BY DEF IsList
<1> HIDE DEF S
<1>2. Len(s) \in Nat /\ DOMAIN s = 1 .. Len(s) BY <1>1, LenProperties
<1>3. t \in Seq(S) /\ Len(t) = Len(s) - 1 /\ \A i \in 1 .. Len(t) : t[i] = s[i + 1] BY <1>1, HeadTailProperties
<1>4. Len(s) > 0 BY <1>1, <1>2, LenProperties, EmptySeq
<1>5. IsList(t)
  <2> DEFINE U == {t[k] : k \in DOMAIN t}
  <2>1. DOMAIN t = 1 .. Len(t) /\ t = [k \in 1 .. Len(t) |-> t[k]] /\ Len(t) \in Nat BY <1>3, LenProperties
  <2>2. \A k \in 1 .. Len(t) : t[k] \in U BY <2>1
  <2> HIDE DEF U
  <2>3. [k \in 1 .. Len(t) |-> t[k]] \in Seq(U) BY <2>1, <2>2
  <2> QED BY <2>1, <2>3 DEF IsList, U
<1>6. s = Push(s[1], t)
  <2>1. /\ IsList(Push(s[1], t)) /\ Len(Push(s[1], t)) = Len(t) + 1
        /\ Push(s[1], t)[1] = s[1] /\ \A k \in 1 .. Len(t) : Push(s[1], t)[k + 1] = t[k]
    <3> HIDE DEF t
    <3>1. PICK x : x = s[1] OBVIOUS
    <3>2. /\ IsList(Push(x, t)) /\ Len(Push(x, t)) = Len(t) + 1
          /\ Push(x, t)[1] = x /\ \A k \in 1 .. Len(t) : Push(x, t)[k + 1] = t[k]
      BY <1>5, PushList
    <3> QED BY <3>1, <3>2
  <2>2. \A k \in 1 .. Len(s) : Push(s[1], t)[k] = s[k]
    <3> TAKE k \in 1 .. Len(s)
    <3>1. CASE k = 1 BY <2>1, <3>1
    <3>2. CASE k # 1
      <4>1. k - 1 \in 1 .. Len(t) BY <1>2, <1>3, <3>2
      <4>2. Push(s[1], t)[(k - 1) + 1] = t[k - 1] /\ t[k - 1] = s[(k - 1) + 1] BY <1>3, <2>1, <4>1
      <4>3. (k - 1) + 1 = k BY <1>2
      <4> QED BY <4>2, <4>3
    <3> QED BY <3>1, <3>2
  <2> DEFINE V == {Push(s[1], t)[k] : k \in DOMAIN Push(s[1], t)}
             W == S \cup V
  <2>3. Push(s[1], t) \in Seq(V) BY <2>1 DEF IsList
  <2>4. S \subseteq W /\ V \subseteq W OBVIOUS
  <2> HIDE DEF V, W
  <2>5. s \in Seq(W) /\ Push(s[1], t) \in Seq(W) BY <1>1, <2>3, <2>4, SeqMonotonic
  <2>6. Len(s) = Len(Push(s[1], t)) BY <1>2, <1>3, <2>1
  <2> QED BY <2>2, <2>5, <2>6, SeqEqual
<1> QED BY <1>2, <1>3, <1>4, <1>5, <1>6

(* What the operators on agendas are of a list with one more item. *)
LEMMA MainPush ==
  ASSUME NEW x, NEW s, IsList(s)
  PROVE  Main(Push(x, s)) = IF x[1] \in Pops THEN Main(s) ELSE x[1]
<1> DEFINE c == Push(x, s)
<1>1. /\ Len(c) = Len(s) + 1 /\ Len(s) \in Nat /\ c[1] = x /\ \A k \in 1 .. Len(s) : c[k + 1] = s[k]
  BY PushList
<1> HIDE DEF c
<1>2. \A u : \A j, k \in Mains(u) : Len(u) \in Nat => j = k
  <2> SUFFICES ASSUME NEW u, NEW j \in Mains(u), NEW k \in Mains(u), Len(u) \in Nat PROVE j = k
    OBVIOUS
  <2>1. j \in 1 .. Len(u) /\ k \in 1 .. Len(u) /\ u[j][1] \notin Pops /\ u[k][1] \notin Pops BY DEF Mains
  <2>2. (\A m \in 1 .. j - 1 : u[m][1] \in Pops) /\ \A m \in 1 .. k - 1 : u[m][1] \in Pops BY DEF Mains
  <2>3. ~(j < k) BY <2>1, <2>2
  <2>4. ~(k < j) BY <2>1, <2>2
  <2> QED BY <2>1, <2>3, <2>4
<1>3. CASE x[1] \notin Pops
  <2>1. 1 \in Mains(c) BY <1>1, <1>3 DEF Mains
  <2>2. (CHOOSE k \in Mains(c) : TRUE) = 1 BY <1>1, <1>2, <2>1
  <2> QED BY <1>1, <1>3, <2>1, <2>2 DEF Main, c
<1>4. CASE x[1] \in Pops
  <2>1. \A k \in Mains(s) : k + 1 \in Mains(c)
    <3> SUFFICES ASSUME NEW k \in Mains(s) PROVE k + 1 \in Mains(c) OBVIOUS
    <3>1. k \in 1 .. Len(s) /\ s[k][1] \notin Pops /\ \A j \in 1 .. k - 1 : s[j][1] \in Pops BY DEF Mains
    <3>2. k + 1 \in 1 .. Len(c) /\ c[k + 1] = s[k] BY <1>1, <3>1
    <3>3. ASSUME NEW j \in 1 .. (k + 1) - 1 PROVE c[j][1] \in Pops
      <4>1. CASE j = 1 BY <1>1, <1>4, <4>1
      <4>2. CASE j # 1
        <5>1. j - 1 \in 1 .. k - 1 /\ j - 1 \in 1 .. Len(s) /\ (j - 1) + 1 = j BY <3>1, <4>2
        <5>2. c[(j - 1) + 1] = s[j - 1] BY <1>1, <5>1
        <5> QED BY <3>1, <5>1, <5>2
      <4> QED BY <4>1, <4>2
    <3> QED BY <3>1, <3>2, <3>3 DEF Mains
  <2>2. \A k \in Mains(c) : k - 1 \in Mains(s)
    <3> SUFFICES ASSUME NEW k \in Mains(c) PROVE k - 1 \in Mains(s) OBVIOUS
    <3>1. k \in 1 .. Len(c) /\ c[k][1] \notin Pops /\ \A j \in 1 .. k - 1 : c[j][1] \in Pops BY DEF Mains
    <3>2. k # 1 BY <1>1, <1>4, <3>1
    <3>3. k - 1 \in 1 .. Len(s) /\ (k - 1) + 1 = k BY <1>1, <3>1, <3>2
    <3>4. c[(k - 1) + 1] = s[k - 1] BY <1>1, <3>3
    <3>5. ASSUME NEW j \in 1 .. (k - 1) - 1 PROVE s[j][1] \in Pops
      <4>1. j + 1 \in 1 .. k - 1 /\ j \in 1 .. Len(s) BY <1>1, <3>1
      <4>2. c[j + 1] = s[j] BY <1>1, <4>1
      <4> QED BY <3>1, <4>1, <4>2
    <3> QED BY <3>1, <3>3, <3>4, <3>5 DEF Mains
  <2>3. CASE Mains(s) = {}
    <3>1. Mains(c) = {} BY <2>2, <2>3
    <3> QED BY <1>4, <2>3, <3>1 DEF Main, c
  <2>4. CASE Mains(s) # {}
    <3>1. PICK k \in Mains(s) : k = (CHOOSE j \in Mains(s) : TRUE) BY <2>4
    <3>2. k + 1 \in Mains(c) BY <2>1
    <3>3. (CHOOSE j \in Mains(c) : TRUE) = k + 1 BY <1>1, <1>2, <3>2
    <3>4. k \in 1 .. Len(s) BY DEF Mains
    <3>5. c[k + 1] = s[k] BY <1>1, <3>4
    <3>6. Main(c) = c[k + 1][1] BY <3>2, <3>3 DEF Main
    <3>7. Main(s) = s[k][1] BY <3>1 DEF Main
    <3> QED BY <1>4, <3>5, <3>6, <3>7 DEF c
  <2> QED BY <2>3, <2>4
<1> QED BY <1>3, <1>4

(* The last item stays the last.                                           *)
LEMMA EndPush ==
  ASSUME NEW x, NEW s, IsList(s)
  PROVE  End(Push(x, s)) = IF s = <<>> THEN x[1] ELSE End(s)
<1> DEFINE c == Push(x, s)
<1>1. /\ Len(c) = Len(s) + 1 /\ Len(s) \in Nat /\ c[1] = x /\ \A k \in 1 .. Len(s) : c[k + 1] = s[k]
      /\ c # <<>>
  BY PushList
<1> HIDE DEF c
<1>2. CASE s = <<>>
  <2>1. Len(s) = 0 BY <1>2
  <2> QED BY <1>1, <1>2, <2>1 DEF End, c
<1>3. CASE s # <<>>
  <2>1. Len(s) > 0 BY <1>3, TailList
  <2>2. c[Len(c)] = s[Len(s)] BY <1>1, <2>1
  <2> QED BY <1>1, <1>3, <2>2 DEF End, c
<1> QED BY <1>2, <1>3

(* The descriptors to close, with one more item.                           *)
LEMMA ClosePush ==
  ASSUME NEW x, NEW s, IsList(s)
  PROVE  /\ CloseArgs(Push(x, s)) = IF x[1] = "close" THEN CloseArgs(s) \cup {x[2]} ELSE CloseArgs(s)
         /\ Once(Push(x, s)) <=> Once(s) /\ (x[1] = "close" => x[2] \notin CloseArgs(s))
<1> DEFINE c == Push(x, s)
<1>1. /\ Len(c) = Len(s) + 1 /\ Len(s) \in Nat /\ c[1] = x /\ \A k \in 1 .. Len(s) : c[k + 1] = s[k]
  BY PushList
<1> HIDE DEF c
<1>2. ASSUME NEW k \in Closes(s) PROVE k + 1 \in Closes(c) /\ c[k + 1] = s[k] /\ k \in 1 .. Len(s)
  BY <1>1 DEF Closes
<1>3. ASSUME NEW k \in Closes(c), k # 1 PROVE k - 1 \in Closes(s) /\ s[k - 1] = c[k] /\ k \in Nat
  <2>1. k \in 1 .. Len(c) /\ c[k][1] = "close" BY DEF Closes
  <2>2. k - 1 \in 1 .. Len(s) /\ (k - 1) + 1 = k BY <1>1, <1>3, <2>1
  <2>3. c[(k - 1) + 1] = s[k - 1] BY <1>1, <2>2
  <2> QED BY <2>1, <2>2, <2>3 DEF Closes
<1>4. 1 \in Closes(c) <=> x[1] = "close" BY <1>1 DEF Closes
<1>5. CloseArgs(c) = IF x[1] = "close" THEN CloseArgs(s) \cup {x[2]} ELSE CloseArgs(s)
  <2>1. CloseArgs(s) \subseteq CloseArgs(c) BY <1>2 DEF CloseArgs
  <2>2. \A k \in Closes(c) : k # 1 => c[k][2] \in CloseArgs(s) BY <1>3 DEF CloseArgs
  <2>3. x[1] = "close" => x[2] \in CloseArgs(c) BY <1>1, <1>4 DEF CloseArgs
  <2>4. \A v \in CloseArgs(c) : v \in CloseArgs(s) \/ (x[1] = "close" /\ v = x[2]) BY <1>1, <1>4, <2>2 DEF CloseArgs
  <2> QED BY <2>1, <2>3, <2>4
<1>6. Once(c) => Once(s) /\ (x[1] = "close" => x[2] \notin CloseArgs(s))
  <2> SUFFICES ASSUME Once(c) PROVE Once(s) /\ (x[1] = "close" => x[2] \notin CloseArgs(s)) OBVIOUS
  <2>1. Once(s)
    <3> SUFFICES ASSUME NEW j \in Closes(s), NEW k \in Closes(s), s[j][2] = s[k][2] PROVE j = k BY DEF Once
    <3>1. j + 1 \in Closes(c) /\ k + 1 \in Closes(c) /\ c[j + 1][2] = c[k + 1][2] BY <1>2
    <3>2. j + 1 = k + 1 BY <3>1 DEF Once
    <3>3. j \in 1 .. Len(s) /\ k \in 1 .. Len(s) BY <1>2
    <3> QED BY <3>2, <3>3
  <2>2. ASSUME x[1] = "close", NEW k \in Closes(s) PROVE s[k][2] # x[2]
    <3>1. 1 \in Closes(c) /\ k + 1 \in Closes(c) /\ c[k + 1] = s[k] /\ k \in 1 .. Len(s) BY <1>2, <1>4, <2>2
    <3>2. k + 1 # 1 BY <3>1
    <3> QED BY <1>1, <3>1, <3>2 DEF Once
  <2> QED BY <2>1, <2>2 DEF CloseArgs
<1>7. Once(s) /\ (x[1] = "close" => x[2] \notin CloseArgs(s)) => Once(c)
  <2> SUFFICES ASSUME Once(s), x[1] = "close" => x[2] \notin CloseArgs(s),
                      NEW j \in Closes(c), NEW k \in Closes(c), c[j][2] = c[k][2]
               PROVE  j = k
    BY DEF Once
  <2>1. CASE j = 1 /\ k = 1 BY <2>1
  <2>2. CASE j = 1 /\ k # 1 BY <1>1, <1>3, <1>4, <2>2 DEF CloseArgs
  <2>3. CASE j # 1 /\ k = 1 BY <1>1, <1>3, <1>4, <2>3 DEF CloseArgs
  <2>4. CASE j # 1 /\ k # 1
    <3>1. j - 1 \in Closes(s) /\ k - 1 \in Closes(s) /\ s[j - 1][2] = s[k - 1][2] /\ j \in Nat /\ k \in Nat BY <1>3, <2>4
    <3>2. j - 1 = k - 1 BY <3>1 DEF Once
    <3> QED BY <3>1, <3>2
  <2> QED BY <2>1, <2>2, <2>3, <2>4
<1> QED BY <1>5, <1>6, <1>7 DEF c

(* A list is well formed if its tail is and its first two items match.     *)
LEMMA WfPush ==
  ASSUME NEW x, NEW s, IsList(s)
  PROVE  Wf(Push(x, s)) <=>
           /\ Wf(s)
           /\ s = <<>> => x[1] \in MayEnd
           /\ s # <<>> => s[1][1] \in After(x[1]) /\ (x[1] \in {"close", "end_op"} => End(s) = "dead")
<1> DEFINE c == Push(x, s)
<1>1. /\ Len(c) = Len(s) + 1 /\ Len(s) \in Nat /\ c[1] = x /\ \A k \in 1 .. Len(s) : c[k + 1] = s[k]
      /\ c # <<>>
  BY PushList
<1>2. s # <<>> => End(c) = End(s) BY EndPush
<1>3. s = <<>> => Len(s) = 0 OBVIOUS
<1>4. s # <<>> => Len(s) > 0 BY TailList
<1> DEFINE Good(u, k) == IF k = Len(u) THEN u[k][1] \in MayEnd
                         ELSE u[k + 1][1] \in After(u[k][1]) /\ (u[k][1] \in {"close", "end_op"} => End(u) = "dead")
<1>5. (Wf(c) <=> \A k \in 1 .. Len(c) : Good(c, k)) /\ (Wf(s) <=> \A k \in 1 .. Len(s) : Good(s, k)) BY DEF Wf
<1>6. ASSUME NEW k \in 1 .. Len(s) PROVE Good(c, k + 1) <=> Good(s, k)
  <2>1. k + 1 = Len(c) <=> k = Len(s) BY <1>1
  <2>2. c[k + 1] = s[k] BY <1>1
  <2>3. k # Len(s) => k + 1 \in 1 .. Len(s) BY <1>1
  <2>4. k # Len(s) => c[(k + 1) + 1] = s[k + 1] BY <1>1, <2>3
  <2>5. s # <<>> BY <1>3
  <2>6. End(c) = End(s) BY <1>2, <2>5
  <2> HIDE DEF c
  <2> QED BY <2>1, <2>2, <2>4, <2>6
<1>7. Good(c, 1) <=> /\ s = <<>> => x[1] \in MayEnd
                     /\ s # <<>> => s[1][1] \in After(x[1]) /\ (x[1] \in {"close", "end_op"} => End(s) = "dead")
  <2>1. CASE s = <<>>
    <3>1. Len(c) = 1 BY <1>1, <1>3, <2>1
    <3> HIDE DEF c
    <3> QED BY <1>1, <2>1, <3>1
  <2>2. CASE s # <<>>
    <3>1. Len(c) # 1 /\ 1 \in 1 .. Len(s) BY <1>1, <1>4, <2>2
    <3>2. c[1 + 1] = s[1] BY <1>1, <3>1
    <3>3. End(c) = End(s) BY <1>2, <2>2
    <3> HIDE DEF c
    <3> QED BY <1>1, <2>2, <3>1, <3>2, <3>3
  <2> QED BY <2>1, <2>2
<1> HIDE DEF c, Good
<1>8. (\A k \in 1 .. Len(c) : Good(c, k)) <=> Good(c, 1) /\ \A k \in 1 .. Len(s) : Good(c, k + 1)
  <2>1. 1 \in 1 .. Len(c) /\ \A k \in 1 .. Len(s) : k + 1 \in 1 .. Len(c) BY <1>1
  <2>2. \A k \in 1 .. Len(c) : k # 1 => k - 1 \in 1 .. Len(s) /\ (k - 1) + 1 = k BY <1>1
  <2>3. ASSUME Good(c, 1), \A k \in 1 .. Len(s) : Good(c, k + 1), NEW k \in 1 .. Len(c) PROVE Good(c, k)
    <3>1. CASE k = 1 BY <2>3, <3>1
    <3>2. CASE k # 1
      <4>1. Good(c, (k - 1) + 1) BY <2>2, <2>3, <3>2
      <4> QED BY <2>2, <3>2, <4>1
    <3> QED BY <3>1, <3>2
  <2> QED BY <2>1, <2>3
<1>9. (\A k \in 1 .. Len(s) : Good(c, k + 1)) <=> \A k \in 1 .. Len(s) : Good(s, k) BY <1>6
<1> QED BY <1>5, <1>7, <1>8, <1>9 DEF c

(* The empty agenda, and short ones. *)
LEMMA EmptyList ==
  /\ IsList(<<>>) /\ Len(<<>>) = 0 /\ Main(<<>>) = "user" /\ End(<<>>) = "user" /\ Wf(<<>>)
  /\ CloseArgs(<<>>) = {} /\ Once(<<>>)
<1>1. IsList(<<>>) BY DEF IsList
<1>2. Mains(<<>>) = {} /\ Closes(<<>>) = {} BY DEF Mains, Closes
<1> QED BY <1>1, <1>2 DEF Main, End, Wf, CloseArgs, Once

(* Two lists with the same items are equal. *)
LEMMA ListEqual ==
  ASSUME NEW u, NEW w, IsList(u), IsList(w), Len(u) = Len(w), \A k \in 1 .. Len(u) : u[k] = w[k]
  PROVE  u = w
<1> DEFINE U == {u[k] : k \in DOMAIN u}
           W == {w[k] : k \in DOMAIN w}
           T == U \cup W
<1>1. u \in Seq(U) /\ w \in Seq(W) BY DEF IsList
<1>2. U \subseteq T /\ W \subseteq T OBVIOUS
<1> HIDE DEF U, W, T
<1>3. u \in Seq(T) /\ w \in Seq(T) BY <1>1, <1>2, SeqMonotonic
<1> QED BY <1>3, SeqEqual

(* A sequence is a list.                                                   *)
LEMMA ListOf ==
  ASSUME NEW T, NEW u \in Seq(T) PROVE IsList(u)
<1> DEFINE U == {u[k] : k \in DOMAIN u}
<1>1. DOMAIN u = 1 .. Len(u) /\ u = [k \in 1 .. Len(u) |-> u[k]] /\ Len(u) \in Nat BY LenProperties
<1>2. \A k \in 1 .. Len(u) : u[k] \in U BY <1>1
<1> HIDE DEF U
<1>3. [k \in 1 .. Len(u) |-> u[k]] \in Seq(U) BY <1>1, <1>2
<1> QED BY <1>1, <1>3 DEF IsList, U

(* Lists one after the other. *)
LEMMA ConcatList ==
  ASSUME NEW u, NEW w, IsList(u), IsList(w)
  PROVE  /\ IsList(u \o w) /\ Len(u \o w) = Len(u) + Len(w) /\ Len(u) \in Nat /\ Len(w) \in Nat
         /\ \A k \in 1 .. Len(u) + Len(w) : (u \o w)[k] = IF k <= Len(u) THEN u[k] ELSE w[k - Len(u)]
<1> DEFINE U == {u[k] : k \in DOMAIN u}
           W == {w[k] : k \in DOMAIN w}
           T == U \cup W
<1>1. u \in Seq(U) /\ w \in Seq(W) BY DEF IsList
<1>2. U \subseteq T /\ W \subseteq T OBVIOUS
<1> HIDE DEF U, W, T
<1>3. u \in Seq(T) /\ w \in Seq(T) BY <1>1, <1>2, SeqMonotonic
<1>4. u \o w \in Seq(T) /\ Len(u \o w) = Len(u) + Len(w)
      /\ \A k \in 1 .. Len(u) + Len(w) : (u \o w)[k] = IF k <= Len(u) THEN u[k] ELSE w[k - Len(u)]
  BY <1>3, ConcatProperties
<1> QED BY <1>3, <1>4, ListOf, LenProperties

IsPush(u, x, s) == u = Push(x, s)

(* What PushList says, of a list given by name.                            *)
LEMMA PushIs ==
  ASSUME NEW x, NEW s, NEW u, IsList(s), IsPush(u, x, s)
  PROVE  IsList(u) /\ Len(u) = Len(s) + 1 /\ u[1] = x /\ \A k \in 1 .. Len(s) : u[k + 1] = s[k]
<1>1. /\ IsList(Push(x, s)) /\ Len(Push(x, s)) = Len(s) + 1 /\ Push(x, s)[1] = x
      /\ \A k \in 1 .. Len(s) : Push(x, s)[k + 1] = s[k]
  BY PushList
<1> QED BY <1>1 DEF IsPush

(* The lists of the code in terms of Push. *)
LEMMA Literals ==
  ASSUME NEW a, NEW b, NEW c, NEW d
  PROVE  /\ <<a>> = Push(a, <<>>) /\ <<a, b>> = Push(a, Push(b, <<>>))
         /\ <<a, b, c>> = Push(a, Push(b, Push(c, <<>>)))
         /\ <<a, b, c, d>> = Push(a, Push(b, Push(c, Push(d, <<>>))))
<1> DEFINE T == {a, b, c, d}
<1>1. PICK e : e = <<>> OBVIOUS
<1>2. PICK w1, w2, w3, w4 : w1 = <<a>> /\ w2 = <<a, b>> /\ w3 = <<a, b, c>> /\ w4 = <<a, b, c, d>> OBVIOUS
<1>3. a \in T /\ b \in T /\ c \in T /\ d \in T OBVIOUS
<1> HIDE DEF T
<1>4. w1 \in Seq(T) /\ w2 \in Seq(T) /\ w3 \in Seq(T) /\ w4 \in Seq(T) BY <1>2, <1>3
<1>5. IsList(e) /\ Len(e) = 0 BY <1>1, EmptyList
<1>6. PICK ud : IsPush(ud, d, e) BY DEF IsPush
<1>7. PICK uc : IsPush(uc, c, e) BY DEF IsPush
<1>8. PICK ub : IsPush(ub, b, e) BY DEF IsPush
<1>9. PICK ua : IsPush(ua, a, e) BY DEF IsPush
<1>10. PICK ucd : IsPush(ucd, c, ud) BY DEF IsPush
<1>11. PICK ubc : IsPush(ubc, b, uc) BY DEF IsPush
<1>12. PICK uab : IsPush(uab, a, ub) BY DEF IsPush
<1>13. PICK ubcd : IsPush(ubcd, b, ucd) BY DEF IsPush
<1>14. PICK uabc : IsPush(uabc, a, ubc) BY DEF IsPush
<1>15. PICK uabcd : IsPush(uabcd, a, ubcd) BY DEF IsPush
<1>16. IsList(ud) /\ Len(ud) = 1 /\ ud[1] = d
  <2>0. IsList(e) BY <1>5
  <2>1. IsList(ud) /\ Len(ud) = Len(e) + 1 /\ ud[1] = d /\ \A k \in 1 .. Len(e) : ud[k + 1] = e[k]
    BY <1>6, <2>0, PushIs
  <2> QED BY <1>5, <2>1
<1>17. IsList(uc) /\ Len(uc) = 1 /\ uc[1] = c
  <2>0. IsList(e) BY <1>5
  <2>1. IsList(uc) /\ Len(uc) = Len(e) + 1 /\ uc[1] = c /\ \A k \in 1 .. Len(e) : uc[k + 1] = e[k]
    BY <1>7, <2>0, PushIs
  <2> QED BY <1>5, <2>1
<1>18. IsList(ub) /\ Len(ub) = 1 /\ ub[1] = b
  <2>0. IsList(e) BY <1>5
  <2>1. IsList(ub) /\ Len(ub) = Len(e) + 1 /\ ub[1] = b /\ \A k \in 1 .. Len(e) : ub[k + 1] = e[k]
    BY <1>8, <2>0, PushIs
  <2> QED BY <1>5, <2>1
<1>19. IsList(ua) /\ Len(ua) = 1 /\ ua[1] = a
  <2>0. IsList(e) BY <1>5
  <2>1. IsList(ua) /\ Len(ua) = Len(e) + 1 /\ ua[1] = a /\ \A k \in 1 .. Len(e) : ua[k + 1] = e[k]
    BY <1>9, <2>0, PushIs
  <2> QED BY <1>5, <2>1
<1>20. IsList(ucd) /\ Len(ucd) = 2 /\ ucd[1] = c /\ ucd[2] = d
  <2>0. IsList(ud) BY <1>16
  <2>1. IsList(ucd) /\ Len(ucd) = Len(ud) + 1 /\ ucd[1] = c /\ \A k \in 1 .. Len(ud) : ucd[k + 1] = ud[k]
    BY <1>10, <2>0, PushIs
  <2>2. ucd[1 + 1] = ud[1] BY <1>16, <2>1
  <2> QED BY <1>16, <2>1, <2>2
<1>21. IsList(ubc) /\ Len(ubc) = 2 /\ ubc[1] = b /\ ubc[2] = c
  <2>0. IsList(uc) BY <1>17
  <2>1. IsList(ubc) /\ Len(ubc) = Len(uc) + 1 /\ ubc[1] = b /\ \A k \in 1 .. Len(uc) : ubc[k + 1] = uc[k]
    BY <1>11, <2>0, PushIs
  <2>2. ubc[1 + 1] = uc[1] BY <1>17, <2>1
  <2> QED BY <1>17, <2>1, <2>2
<1>22. IsList(uab) /\ Len(uab) = 2 /\ uab[1] = a /\ uab[2] = b
  <2>0. IsList(ub) BY <1>18
  <2>1. IsList(uab) /\ Len(uab) = Len(ub) + 1 /\ uab[1] = a /\ \A k \in 1 .. Len(ub) : uab[k + 1] = ub[k]
    BY <1>12, <2>0, PushIs
  <2>2. uab[1 + 1] = ub[1] BY <1>18, <2>1
  <2> QED BY <1>18, <2>1, <2>2
<1>23. IsList(ubcd) /\ Len(ubcd) = 3 /\ ubcd[1] = b /\ ubcd[2] = c /\ ubcd[3] = d
  <2>0. IsList(ucd) BY <1>20
  <2>1. IsList(ubcd) /\ Len(ubcd) = Len(ucd) + 1 /\ ubcd[1] = b /\ \A k \in 1 .. Len(ucd) : ubcd[k + 1] = ucd[k]
    BY <1>13, <2>0, PushIs
  <2>2. ubcd[1 + 1] = ucd[1] /\ ubcd[2 + 1] = ucd[2] BY <1>20, <2>1
  <2> QED BY <1>20, <2>1, <2>2
<1>24. IsList(uabc) /\ Len(uabc) = 3 /\ uabc[1] = a /\ uabc[2] = b /\ uabc[3] = c
  <2>0. IsList(ubc) BY <1>21
  <2>1. IsList(uabc) /\ Len(uabc) = Len(ubc) + 1 /\ uabc[1] = a /\ \A k \in 1 .. Len(ubc) : uabc[k + 1] = ubc[k]
    BY <1>14, <2>0, PushIs
  <2>2. uabc[1 + 1] = ubc[1] /\ uabc[2 + 1] = ubc[2] BY <1>21, <2>1
  <2> QED BY <1>21, <2>1, <2>2
<1>25. IsList(uabcd) /\ Len(uabcd) = 4 /\ uabcd[1] = a /\ uabcd[2] = b /\ uabcd[3] = c /\ uabcd[4] = d
  <2>0. IsList(ubcd) BY <1>23
  <2>1. IsList(uabcd) /\ Len(uabcd) = Len(ubcd) + 1 /\ uabcd[1] = a /\ \A k \in 1 .. Len(ubcd) : uabcd[k + 1] = ubcd[k]
    BY <1>15, <2>0, PushIs
  <2>2. uabcd[1 + 1] = ubcd[1] /\ uabcd[2 + 1] = ubcd[2] /\ uabcd[3 + 1] = ubcd[3] BY <1>23, <2>1
  <2> QED BY <1>23, <2>1, <2>2
<1>30. /\ IsList(w1) /\ IsList(w2) /\ IsList(w3) /\ IsList(w4)
       /\ Len(w1) = 1 /\ Len(w2) = 2 /\ Len(w3) = 3 /\ Len(w4) = 4
  BY <1>2, <1>4, ListOf
<1>31. w1 = ua
  <2>1. \A k \in 1 .. 1 : w1[k] = ua[k] BY <1>2, <1>19
  <2> QED BY <1>19, <1>30, <2>1, ListEqual
<1>32. w2 = uab
  <2>1. \A k \in 1 .. 2 : w2[k] = uab[k] BY <1>2, <1>22
  <2> QED BY <1>22, <1>30, <2>1, ListEqual
<1>33. w3 = uabc
  <2>1. \A k \in 1 .. 3 : w3[k] = uabc[k] BY <1>2, <1>24
  <2> QED BY <1>24, <1>30, <2>1, ListEqual
<1>34. w4 = uabcd
  <2>1. \A k \in 1 .. 4 : w4[k] = uabcd[k] BY <1>2, <1>25
  <2> QED BY <1>25, <1>30, <2>1, ListEqual
<1>35. ub = Push(b, e) /\ uc = Push(c, e) /\ ud = Push(d, e) /\ ua = Push(a, e) BY <1>6, <1>7, <1>8, <1>9 DEF IsPush
<1>36. uab = Push(a, ub) /\ ubc = Push(b, uc) /\ ucd = Push(c, ud) BY <1>10, <1>11, <1>12 DEF IsPush
<1>37. uabc = Push(a, ubc) /\ ubcd = Push(b, ucd) /\ uabcd = Push(a, ubcd) BY <1>13, <1>14, <1>15 DEF IsPush
<1> QED BY <1>1, <1>2, <1>31, <1>32, <1>33, <1>34, <1>35, <1>36, <1>37, Zenon

(* The same, one by one. *)
LEMMA Literal3 ==
  ASSUME NEW a, NEW b, NEW c PROVE <<a, b, c>> = Push(a, Push(b, Push(c, <<>>)))
<1>1. PICK d : d = a OBVIOUS
<1>2. <<a, b, c>> = Push(a, Push(b, Push(c, <<>>))) /\ <<a, b, c, d>> = Push(a, Push(b, Push(c, Push(d, <<>>))))
  BY Literals, SMT
<1> QED BY <1>2

(* A literal sequence of four items.                                       *)
LEMMA Literal4 ==
  ASSUME NEW a, NEW b, NEW c, NEW d PROVE <<a, b, c, d>> = Push(a, Push(b, Push(c, Push(d, <<>>))))
BY Literals, SMT

(* One item before one item.                                               *)
LEMMA PairConcat == ASSUME NEW a, NEW b PROVE <<a>> \o <<b>> = <<a, b>>
<1>1. PICK u, w : u = <<a>> /\ w = <<b>> OBVIOUS
<1>2. w = Push(b, <<>>) BY <1>1, Literals, Zenon
<1>3. <<a, b>> = Push(a, Push(b, <<>>)) BY Literals, Zenon
<1>4. u \o w = Push(a, w) BY <1>1 DEF Push
<1>5. u \o w = <<a, b>> BY <1>2, <1>3, <1>4
<1> QED BY <1>1, <1>5

(* What is put before a list. *)
LEMMA ConcatNone == ASSUME NEW e, e = <<>>, NEW t, IsList(t) PROVE e \o t = t
<1>4. IsList(e) /\ Len(e) = 0 BY EmptyList
<1>5. e \o t = t
  <2>1. /\ IsList(e \o t) /\ Len(e \o t) = Len(t) /\ Len(t) \in Nat
        /\ \A k \in 1 .. Len(t) : (e \o t)[k] = t[k]
    <3>1. /\ IsList(e \o t) /\ Len(e \o t) = 0 + Len(t) /\ Len(t) \in Nat
          /\ \A k \in 1 .. 0 + Len(t) : (e \o t)[k] = IF k <= 0 THEN e[k] ELSE t[k - 0]
      BY <1>4, ConcatList
    <3> QED BY <3>1
  <2> QED BY <2>1, ListEqual
<1> QED BY <1>5

(* One item before a list.                                                 *)
LEMMA ConcatOne ==
  ASSUME NEW a, NEW s, s = <<a>>, NEW t, IsList(t) PROVE s \o t = Push(a, t)
BY DEF Push

IsTwo(w, a, b) == w = <<a, b>>
IsThree(w, a, b, c) == w = <<a, b, c>>

(* Two items before a list.                                                *)
LEMMA ConcatTwo ==
  ASSUME NEW a, NEW b, NEW w2, NEW t, IsTwo(w2, a, b), IsList(t) PROVE w2 \o t = Push(a, Push(b, t))
<1>1. w2 = <<a, b>> BY DEF IsTwo
<1> DEFINE T == {a, b}
<1>2. a \in T /\ b \in T OBVIOUS
<1> HIDE DEF T
<1>3. w2 \in Seq(T) BY <1>1, <1>2
<1>4. IsList(w2) /\ Len(w2) = 2 BY <1>1, <1>3, ListOf
<1>7. PICK ub : ub = Push(b, t) OBVIOUS
<1>8. PICK uab : uab = Push(a, ub) OBVIOUS
<1>9. /\ IsList(ub) /\ Len(ub) = Len(t) + 1 /\ Len(t) \in Nat
      /\ ub[1] = b /\ \A k \in 1 .. Len(t) : ub[k + 1] = t[k]
  <2>1. IsList(ub) /\ Len(ub) = Len(t) + 1 /\ ub[1] = b /\ \A k \in 1 .. Len(t) : ub[k + 1] = t[k] BY <1>7, PushIs DEF IsPush
  <2> QED BY <2>1, PushList
<1>10. /\ IsList(uab) /\ Len(uab) = Len(t) + 2
       /\ uab[1] = a /\ \A k \in 1 .. Len(ub) : uab[k + 1] = ub[k]
  <2>1. IsList(uab) /\ Len(uab) = Len(ub) + 1 /\ uab[1] = a /\ \A k \in 1 .. Len(ub) : uab[k + 1] = ub[k]
    BY <1>8, <1>9, PushIs DEF IsPush
  <2> QED BY <1>9, <2>1
<1>12. w2 \o t = uab
  <2>1. /\ IsList(w2 \o t) /\ Len(w2 \o t) = 2 + Len(t)
        /\ \A k \in 1 .. 2 + Len(t) : (w2 \o t)[k] = IF k <= 2 THEN w2[k] ELSE t[k - 2]
    <3>1. /\ IsList(w2 \o t) /\ Len(w2 \o t) = Len(w2) + Len(t)
          /\ \A k \in 1 .. Len(w2) + Len(t) : (w2 \o t)[k] = IF k <= Len(w2) THEN w2[k] ELSE t[k - Len(w2)]
      BY <1>4, ConcatList
    <3> QED BY <1>4, <3>1
  <2>2. ASSUME NEW k \in 1 .. 2 + Len(t) PROVE (w2 \o t)[k] = uab[k]
    <3>1. CASE k = 1 BY <1>1, <1>10, <2>1, <3>1
    <3>2. CASE k = 2
      <4>1. uab[1 + 1] = ub[1] BY <1>9, <1>10
      <4> QED BY <1>1, <1>9, <2>1, <3>2, <4>1
    <3>3. CASE k > 2
      <4>1. k - 2 \in 1 .. Len(t) /\ k - 1 \in 1 .. Len(ub) /\ (k - 2) + 1 = k - 1 /\ (k - 1) + 1 = k BY <1>9, <3>3
      <4>2. uab[(k - 1) + 1] = ub[k - 1] /\ ub[(k - 2) + 1] = t[k - 2] BY <1>9, <1>10, <4>1
      <4>3. (w2 \o t)[k] = t[k - 2] BY <2>1, <3>3
      <4> QED BY <4>1, <4>2, <4>3
    <3>4. k = 1 \/ k = 2 \/ k > 2
      <4>1. k \in Nat /\ k > 0 BY <1>9
      <4> QED BY <4>1
    <3> QED BY <3>1, <3>2, <3>3, <3>4, Zenon
  <2>3. Len(w2 \o t) = Len(uab) BY <1>9, <1>10, <2>1
  <2> QED BY <1>10, <2>1, <2>2, <2>3, ListEqual
<1> QED BY <1>7, <1>8, <1>12, Zenon

(* Three items before a list.                                              *)
LEMMA ConcatThree ==
  ASSUME NEW a, NEW b, NEW c, NEW w3, NEW t, IsThree(w3, a, b, c), IsList(t)
  PROVE  w3 \o t = Push(a, Push(b, Push(c, t)))
<1>1. w3 = <<a, b, c>> BY DEF IsThree
<1> DEFINE T == {a, b, c}
<1>2. a \in T /\ b \in T /\ c \in T OBVIOUS
<1> HIDE DEF T
<1>3. w3 \in Seq(T) BY <1>1, <1>2
<1>4. IsList(w3) /\ Len(w3) = 3 BY <1>1, <1>3, ListOf
<1>6. PICK uc : IsPush(uc, c, t) BY DEF IsPush
<1>7. PICK ubc : IsPush(ubc, b, uc) BY DEF IsPush
<1>8. PICK uabc : IsPush(uabc, a, ubc) BY DEF IsPush
<1>9. IsList(uc) /\ Len(uc) = Len(t) + 1 /\ uc[1] = c /\ (\A k \in 1 .. Len(t) : uc[k + 1] = t[k]) /\ Len(t) \in Nat
  <2>1. IsList(uc) /\ Len(uc) = Len(t) + 1 /\ uc[1] = c /\ \A k \in 1 .. Len(t) : uc[k + 1] = t[k] BY <1>6, PushIs
  <2> QED BY <2>1, PushList
<1>10. IsList(ubc) /\ Len(ubc) = Len(t) + 2 /\ ubc[1] = b /\ \A k \in 1 .. Len(uc) : ubc[k + 1] = uc[k]
  <2>0. IsList(uc) BY <1>9
  <2>1. IsList(ubc) /\ Len(ubc) = Len(uc) + 1 /\ ubc[1] = b /\ \A k \in 1 .. Len(uc) : ubc[k + 1] = uc[k]
    BY <1>7, <2>0, PushIs
  <2> QED BY <1>9, <2>1
<1>11. IsList(uabc) /\ Len(uabc) = Len(t) + 3 /\ uabc[1] = a /\ \A k \in 1 .. Len(ubc) : uabc[k + 1] = ubc[k]
  <2>0. IsList(ubc) BY <1>10
  <2>1. IsList(uabc) /\ Len(uabc) = Len(ubc) + 1 /\ uabc[1] = a /\ \A k \in 1 .. Len(ubc) : uabc[k + 1] = ubc[k]
    BY <1>8, <2>0, PushIs
  <2> QED BY <1>9, <1>10, <2>1
<1>13. w3 \o t = uabc
  <2>1. /\ IsList(w3 \o t) /\ Len(w3 \o t) = 3 + Len(t)
        /\ \A k \in 1 .. 3 + Len(t) : (w3 \o t)[k] = IF k <= 3 THEN w3[k] ELSE t[k - 3]
    <3>1. /\ IsList(w3 \o t) /\ Len(w3 \o t) = Len(w3) + Len(t)
          /\ \A k \in 1 .. Len(w3) + Len(t) : (w3 \o t)[k] = IF k <= Len(w3) THEN w3[k] ELSE t[k - Len(w3)]
      BY <1>4, ConcatList
    <3> QED BY <1>4, <3>1
  <2>2. ASSUME NEW k \in 1 .. 3 + Len(t) PROVE (w3 \o t)[k] = uabc[k]
    <3>1. CASE k = 1 BY <1>1, <1>11, <2>1, <3>1
    <3>2. CASE k = 2
      <4>1. uabc[1 + 1] = ubc[1] BY <1>9, <1>10, <1>11
      <4> QED BY <1>1, <1>10, <2>1, <3>2, <4>1
    <3>3. CASE k = 3
      <4>1. uabc[2 + 1] = ubc[2] /\ ubc[1 + 1] = uc[1] BY <1>9, <1>10, <1>11
      <4> QED BY <1>1, <1>9, <2>1, <3>3, <4>1
    <3>4. CASE k > 3
      <4>1. /\ k - 3 \in 1 .. Len(t) /\ k - 2 \in 1 .. Len(uc) /\ k - 1 \in 1 .. Len(ubc)
            /\ (k - 3) + 1 = k - 2 /\ (k - 2) + 1 = k - 1 /\ (k - 1) + 1 = k
        BY <1>9, <1>10, <3>4
      <4>2. uabc[(k - 1) + 1] = ubc[k - 1] /\ ubc[(k - 2) + 1] = uc[k - 2] /\ uc[(k - 3) + 1] = t[k - 3]
        BY <1>9, <1>10, <1>11, <4>1
      <4>3. (w3 \o t)[k] = t[k - 3] BY <2>1, <3>4
      <4> QED BY <4>1, <4>2, <4>3
    <3>5. k = 1 \/ k = 2 \/ k = 3 \/ k > 3
      <4>1. k \in Nat /\ k > 0 BY <1>9
      <4> QED BY <4>1
    <3> QED BY <3>1, <3>2, <3>3, <3>4, <3>5, Zenon
  <2>3. Len(w3 \o t) = Len(uabc) BY <1>9, <1>11, <2>1
  <2> QED BY <1>11, <2>1, <2>2, <2>3, ListEqual
<1> QED BY <1>6, <1>7, <1>8, <1>13, Zenon DEF IsPush

(* Two items before one item.                                              *)
LEMMA ThreeConcat == ASSUME NEW a, NEW b, NEW c PROVE <<a, b>> \o <<c>> = <<a, b, c>>
<1>1. PICK e, w, z, v : e = <<>> /\ w = <<a, b>> /\ z = <<c>> /\ v = <<a, b, c>> OBVIOUS
<1>2. z = Push(c, e)
  <2>1. <<c>> = Push(c, <<>>) BY Literals, Zenon
  <2> QED BY <1>1, <2>1
<1>3. v = Push(a, Push(b, Push(c, e)))
  <2>1. <<a, b, c>> = Push(a, Push(b, Push(c, <<>>))) BY Literal3
  <2> QED BY <1>1, <2>1
<1>4. IsList(z)
  <2>1. z \in Seq({c}) BY <1>1
  <2> QED BY <2>1, ListOf
<1>5. IsTwo(w, a, b) BY <1>1 DEF IsTwo
<1>6. w \o z = Push(a, Push(b, z)) BY <1>4, <1>5, ConcatTwo
<1>7. w \o z = v BY <1>2, <1>3, <1>6
<1> QED BY <1>1, <1>7

(* The items of a failed unlink().                                         *)
LEMMA FourConcat == ASSUME NEW a, NEW b, NEW c, NEW d PROVE <<a>> \o <<b, c>> \o <<d>> = <<a, b, c, d>>
<1>1. PICK e, u, w, z, v : e = <<>> /\ u = <<a>> /\ w = <<b, c>> /\ z = <<d>> /\ v = <<a, b, c, d>> OBVIOUS
<1>2. z = Push(d, e)
  <2>1. <<d>> = Push(d, <<>>) BY Literals, Zenon
  <2> QED BY <1>1, <2>1
<1>3. w = Push(b, Push(c, e))
  <2>1. <<b, c>> = Push(b, Push(c, <<>>)) BY Literals, Zenon
  <2> QED BY <1>1, <2>1
<1>4. v = Push(a, Push(b, Push(c, Push(d, e))))
  <2>1. <<a, b, c, d>> = Push(a, Push(b, Push(c, Push(d, <<>>)))) BY Literal4
  <2> QED BY <1>1, <2>1
<1>5. IsList(u) /\ IsList(w) /\ IsList(z)
  <2> DEFINE T == {a, b, c, d}
  <2>1. a \in T /\ b \in T /\ c \in T /\ d \in T OBVIOUS
  <2> HIDE DEF T
  <2>2. u \in Seq(T) /\ w \in Seq(T) /\ z \in Seq(T) BY <1>1, <2>1
  <2> QED BY <2>2, ListOf
<1>6. IsTwo(w, b, c) BY <1>1 DEF IsTwo
<1>7. w \o z = Push(b, Push(c, z)) BY <1>5, <1>6, ConcatTwo
<1>8. u \o (w \o z) = Push(a, w \o z) BY <1>1 DEF Push
<1>9. (u \o w) \o z = u \o (w \o z)
  <2> DEFINE T == {a, b, c, d}
  <2>1. a \in T /\ b \in T /\ c \in T /\ d \in T OBVIOUS
  <2> HIDE DEF T
  <2>2. u \in Seq(T) /\ w \in Seq(T) /\ z \in Seq(T) BY <1>1, <2>1
  <2> QED BY <2>2, ConcatAssociative
<1>10. (u \o w) \o z = v BY <1>2, <1>4, <1>7, <1>8, <1>9
<1> QED BY <1>1, <1>10

-----------------------------------------------------------------------------
(* Well formed agendas.                                                    *)

(* Item l may stand before list s. *)
Follows(l, s) ==
    /\ s = <<>> => l \in MayEnd
    /\ s # <<>> => s[1][1] \in After(l) /\ (l \in {"close", "end_op"} => End(s) = "dead")
Good(s) == IsList(s) /\ Wf(s)

(* What a process has to do, and whether it is inside an operation. *)
AgendaOk(s, in) == Good(s) /\ (in <=> s # <<>> /\ s[1][1] \notin Outside)

(* A well formed list with one more item, which may stand before it.       *)
LEMMA GoodPush ==
  ASSUME NEW x, NEW t, Good(t), Follows(x[1], t)
  PROVE  /\ Good(Push(x, t)) /\ Push(x, t) # <<>> /\ Push(x, t)[1] = x
         /\ End(Push(x, t)) = IF t = <<>> THEN x[1] ELSE End(t)
<1>1. IsList(t) /\ Wf(t) BY DEF Good
<1>2. IsList(Push(x, t)) /\ Push(x, t) # <<>> /\ Push(x, t)[1] = x BY <1>1, PushList
<1>3. End(Push(x, t)) = IF t = <<>> THEN x[1] ELSE End(t) BY <1>1, EndPush
<1>4. Wf(Push(x, t)) BY <1>1, WfPush DEF Follows
<1> QED BY <1>2, <1>3, <1>4 DEF Good

(* A well formed list is its first item and a well formed list.            *)
LEMMA GoodTail ==
  ASSUME NEW s, Good(s), s # <<>>
  PROVE  /\ s = Push(s[1], Tail(s)) /\ Good(Tail(s)) /\ Follows(s[1][1], Tail(s))
         /\ End(s) = IF Tail(s) = <<>> THEN s[1][1] ELSE End(Tail(s))
         /\ Len(s) = 1 <=> Tail(s) = <<>>
<1>1. IsList(s) /\ Wf(s) BY DEF Good
<1>2. s = Push(s[1], Tail(s)) /\ IsList(Tail(s)) /\ Len(s) \in Nat /\ Len(Tail(s)) = Len(s) - 1 BY <1>1, TailList
<1>3. PICK x, t : x = s[1] /\ t = Tail(s) OBVIOUS
<1>4. IsList(t) /\ s = Push(x, t) BY <1>2, <1>3
<1>5. Wf(Push(x, t)) BY <1>1, <1>4
<1>6. Wf(t) /\ Follows(x[1], t)
  <2>1. Wf(Push(x, t)) <=>
           /\ Wf(t)
           /\ t = <<>> => x[1] \in MayEnd
           /\ t # <<>> => t[1][1] \in After(x[1]) /\ (x[1] \in {"close", "end_op"} => End(t) = "dead")
    BY <1>4, WfPush
  <2> QED BY <1>5, <2>1 DEF Follows
<1>7. End(Push(x, t)) = IF t = <<>> THEN x[1] ELSE End(t) BY <1>4, EndPush
<1>8. Len(t) = 0 <=> t = <<>>
  <2>1. t \in Seq({t[k] : k \in DOMAIN t}) BY <1>4 DEF IsList
  <2> QED BY <2>1, EmptySeq
<1> QED BY <1>2, <1>3, <1>4, <1>6, <1>7, <1>8 DEF Good

(* Which items may follow which. *)
LEMMA AfterIs ==
  /\ \A l \in Pops : After(l) = After("iput")
  /\ \A l \in Pops : l \in After("iput")
  /\ {"end_op", "walk", "link1", "link2", "unlink1", "unlink3", "create", "exists",
      "open1", "open2", "mkdir", "chdir1", "chdir2", "linkbad", "dead"} \subseteq After("iput")
  /\ \A l \in After("iput") : l \notin Outside
  /\ After("begin_op") = {"namei", "nameiparent", "iput", "writei"}
  /\ After("end_op") = {"close", "begin_op"} /\ After("close") = {"close", "begin_op"}
  /\ After("namei") = {"link1", "open1", "chdir1"}
  /\ After("nameiparent") = {"unlink1", "create", "link2"}
  /\ After("walk") = {"link1", "open1", "chdir1", "unlink1", "create", "link2"}
  /\ \A l \in {"create", "exists", "ialloc", "newinode"} : After(l) = {"open2", "mkdir"}
BY DEF After, Pops, Outside

(* Nothing follows the items that end a system call.                       *)
LEMMA AfterEnds ==
  \A l \in {"dup", "read", "write", "fstat", "writei", "link1", "link2", "linkbad", "unlink1", "unlink2",
            "unlink3", "open1", "open2", "mkdir", "chdir1", "chdir2", "dead"} : After(l) = {} /\ l \in MayEnd
BY DEF After, Pops, MayEnd

(* A process that is not in a system call.                                 *)
LEMMA EmptyGood == Good(<<>>) /\ End(<<>>) = "user"
BY EmptyList DEF Good

(* Lists with one, two, three or four items. *)
LEMMA GoodOne ==
  ASSUME NEW a, a[1] \in MayEnd
  PROVE  Good(<<a>>) /\ <<a>> # <<>> /\ <<a>>[1] = a /\ End(<<a>>) = a[1]
<1>1. PICK e, w : e = <<>> /\ w = <<a>> OBVIOUS
<1>2. w = Push(a, e) BY <1>1, Literals, Zenon
<1>3. Good(e) /\ Follows(a[1], e) BY <1>1, EmptyGood DEF Follows
<1>4. Good(w) /\ w # <<>> /\ w[1] = a /\ End(w) = a[1] BY <1>1, <1>2, <1>3, GoodPush
<1> QED BY <1>1, <1>4

(* A list of two items.                                                    *)
LEMMA GoodTwo ==
  ASSUME NEW a, NEW b, b[1] \in MayEnd, b[1] \in After(a[1]), a[1] \notin {"close", "end_op"}
  PROVE  Good(<<a, b>>) /\ <<a, b>> # <<>> /\ <<a, b>>[1] = a /\ End(<<a, b>>) = b[1]
<1>1. PICK e, w, z : e = <<>> /\ w = <<b>> /\ z = <<a, b>> OBVIOUS
<1>2. w = Push(b, e) /\ z = Push(a, Push(b, e)) BY <1>1, Literals, Zenon
<1>3. Good(w) /\ w # <<>> /\ w[1] = b /\ End(w) = b[1] BY <1>1, GoodOne
<1>4. Follows(a[1], w) BY <1>3 DEF Follows
<1>5. z = Push(a, w) BY <1>2
<1>6. Good(z) /\ z # <<>> /\ z[1] = a /\ End(z) = b[1] BY <1>3, <1>4, <1>5, GoodPush
<1> QED BY <1>1, <1>6

(* A list of three items.                                                  *)
LEMMA GoodThree ==
  ASSUME NEW a, NEW b, NEW c, c[1] \in MayEnd, c[1] \in After(b[1]), b[1] \in After(a[1]),
         {a[1], b[1]} \cap {"close", "end_op"} = {}
  PROVE  Good(<<a, b, c>>) /\ <<a, b, c>> # <<>> /\ <<a, b, c>>[1] = a /\ End(<<a, b, c>>) = c[1]
<1>1. PICK e, w, z : e = <<>> /\ w = <<b, c>> /\ z = <<a, b, c>> OBVIOUS
<1>2. w = Push(b, Push(c, e)) /\ z = Push(a, Push(b, Push(c, e)))
  <2>1. <<b, c>> = Push(b, Push(c, <<>>)) BY Literals, Zenon
  <2>2. <<a, b, c>> = Push(a, Push(b, Push(c, <<>>))) BY Literal3
  <2> QED BY <1>1, <2>1, <2>2, Zenon
<1>3. Good(w) /\ w # <<>> /\ w[1] = b /\ End(w) = c[1] BY <1>1, GoodTwo
<1>4. Follows(a[1], w) BY <1>3 DEF Follows
<1>5. z = Push(a, w) BY <1>2
<1>6. Good(z) /\ z # <<>> /\ z[1] = a /\ End(z) = c[1] BY <1>3, <1>4, <1>5, GoodPush
<1> QED BY <1>1, <1>6

(* A list of four items.                                                   *)
LEMMA GoodFour ==
  ASSUME NEW a, NEW b, NEW c, NEW d, d[1] \in MayEnd, d[1] \in After(c[1]), c[1] \in After(b[1]), b[1] \in After(a[1]),
         {a[1], b[1], c[1]} \cap {"close", "end_op"} = {}
  PROVE  Good(<<a, b, c, d>>) /\ <<a, b, c, d>> # <<>> /\ <<a, b, c, d>>[1] = a /\ End(<<a, b, c, d>>) = d[1]
<1>1. PICK e, w, z : e = <<>> /\ w = <<b, c, d>> /\ z = <<a, b, c, d>> OBVIOUS
<1>2. w = Push(b, Push(c, Push(d, e))) /\ z = Push(a, Push(b, Push(c, Push(d, e))))
  <2>1. <<b, c, d>> = Push(b, Push(c, Push(d, <<>>))) BY Literal3
  <2>2. <<a, b, c, d>> = Push(a, Push(b, Push(c, Push(d, <<>>)))) BY Literal4
  <2> QED BY <1>1, <2>1, <2>2, Zenon
<1>3. Good(w) /\ w # <<>> /\ w[1] = b /\ End(w) = d[1] BY <1>1, GoodThree
<1>4. Follows(a[1], w) BY <1>3 DEF Follows
<1>5. z = Push(a, w) BY <1>2
<1>6. Good(z) /\ z # <<>> /\ z[1] = a /\ End(z) = d[1] BY <1>3, <1>4, <1>5, GoodPush
<1> QED BY <1>1, <1>6

-----------------------------------------------------------------------------
(* The specification with any clients.                                     *)

(* wait() returns: nothing but the result changes. *)
Waited(p) ==
    /\ todo[p] = <<>>
    /\ \E r : ret' = [ret EXCEPT ![p] = r]
    /\ UNCHANGED <<dinode, inode, file, ofile, cwd, op, todo, reg, panic>>

FInit == \E names : InitWith(names)
FNext ==
    \E p \in Procs :
      \/ \E c : c.op \in SystemCalls /\ Syscall(p, c)
      \/ \E q \in Procs : Fork(p, q)
      \/ Waited(p) \/ Step(p) \/ Panic(p)
FSpec == FInit /\ [][FNext]_vars

-----------------------------------------------------------------------------
(* Who is inside an operation.                                             *)

OpInv ==
    /\ todo = [p \in Procs |-> todo[p]]
    /\ op \subseteq Procs
    /\ \A p \in Procs : AgendaOk(todo[p], p \in op)

(* The first item of an agenda and the others. *)
LEMMA Popped ==
  ASSUME OpInv, NEW p \in Procs, todo[p] # <<>>
  PROVE  /\ Label(p) = todo[p][1][1] /\ Arg(p) = todo[p][1][2]
         /\ todo[p] = Push(todo[p][1], Tail(todo[p])) /\ Good(Tail(todo[p]))
         /\ Follows(Label(p), Tail(todo[p])) /\ (p \in op <=> Label(p) \notin Outside)
         /\ End(todo[p]) = IF Tail(todo[p]) = <<>> THEN Label(p) ELSE End(Tail(todo[p]))
         /\ Len(todo[p]) = 1 <=> Tail(todo[p]) = <<>>
<1>1. Good(todo[p]) /\ (p \in op <=> todo[p][1][1] \notin Outside) BY DEF OpInv, AgendaOk
<1>2. Label(p) = todo[p][1][1] /\ Arg(p) = todo[p][1][2] BY DEF Label, Arg
<1>3. PICK s : s = todo[p] OBVIOUS
<1>4. /\ s = Push(s[1], Tail(s)) /\ Good(Tail(s)) /\ Follows(s[1][1], Tail(s))
      /\ End(s) = IF Tail(s) = <<>> THEN s[1][1] ELSE End(Tail(s))
      /\ Len(s) = 1 <=> Tail(s) = <<>>
  BY <1>1, <1>3, GoodTail
<1> QED BY <1>1, <1>2, <1>3, <1>4

(* A process with an item to run has an agenda.                            *)
LEMMA Labelled ==
  ASSUME NEW p, Label(p) # "user" PROVE todo[p] # <<>>
BY DEF Label

(* What Only() and Then() make of the agenda. *)
LEMMA OnlyIs ==
  ASSUME OpInv, NEW p \in Procs, NEW s, Only(p, s)
  PROVE  todo'[p] = s /\ todo' = [q \in Procs |-> todo'[q]] /\ \A q \in Procs \ {p} : todo'[q] = todo[q]
BY DEF OpInv, Only

(* The agenda after a step that puts s in the place of its first item.     *)
LEMMA ThenIs ==
  ASSUME OpInv, NEW p \in Procs, NEW s, Then(p, s)
  PROVE  /\ todo'[p] = s \o Tail(todo[p])
         /\ todo' = [q \in Procs |-> todo'[q]] /\ \A q \in Procs \ {p} : todo'[q] = todo[q]
BY DEF OpInv, Then

(* The first item is done.                                                 *)
LEMMA ThenNone ==
  ASSUME OpInv, NEW p \in Procs, todo[p] # <<>>, Then(p, <<>>)
  PROVE  todo'[p] = Tail(todo[p])
<1>1. PICK s, t : s = <<>> /\ t = Tail(todo[p]) OBVIOUS
<1>2. Then(p, s) BY <1>1
<1>3. todo'[p] = s \o t BY <1>1, <1>2, ThenIs
<1>4. IsList(t) BY <1>1, Popped DEF Good
<1>5. s \o t = t BY <1>1, <1>4, ConcatNone
<1> QED BY <1>1, <1>3, <1>5

(* The first item is replaced by one.                                      *)
LEMMA ThenOne ==
  ASSUME OpInv, NEW p \in Procs, todo[p] # <<>>, NEW a, Then(p, <<a>>)
  PROVE  todo'[p] = Push(a, Tail(todo[p]))
<1>1. PICK s, t : s = <<a>> /\ t = Tail(todo[p]) OBVIOUS
<1>2. Then(p, s) BY <1>1
<1>3. todo'[p] = s \o t BY <1>1, <1>2, ThenIs
<1>4. IsList(t) BY <1>1, Popped DEF Good
<1>5. s \o t = Push(a, t) BY <1>1, <1>4, ConcatOne
<1> QED BY <1>1, <1>3, <1>5

(* The first item is replaced by two.                                      *)
LEMMA ThenTwo ==
  ASSUME OpInv, NEW p \in Procs, todo[p] # <<>>, NEW a, NEW b, Then(p, <<a, b>>)
  PROVE  todo'[p] = Push(a, Push(b, Tail(todo[p])))
<1>1. PICK s, t : s = <<a, b>> /\ t = Tail(todo[p]) OBVIOUS
<1>2. Then(p, s) BY <1>1
<1>3. todo'[p] = s \o t BY <1>1, <1>2, ThenIs
<1>4. IsList(t) BY <1>1, Popped DEF Good
<1>0. IsTwo(s, a, b) BY <1>1 DEF IsTwo
<1>5. s \o t = Push(a, Push(b, t)) BY <1>0, <1>4, ConcatTwo
<1> QED BY <1>1, <1>3, <1>5

(* The first item is replaced by three.                                    *)
LEMMA ThenThree ==
  ASSUME OpInv, NEW p \in Procs, todo[p] # <<>>, NEW a, NEW b, NEW c, Then(p, <<a, b, c>>)
  PROVE  todo'[p] = Push(a, Push(b, Push(c, Tail(todo[p]))))
<1>1. PICK s, t : s = <<a, b, c>> /\ t = Tail(todo[p]) OBVIOUS
<1>2. Then(p, s) BY <1>1
<1>3. todo'[p] = s \o t BY <1>1, <1>2, ThenIs
<1>4. IsList(t) BY <1>1, Popped DEF Good
<1>0. IsThree(s, a, b, c) BY <1>1 DEF IsThree
<1>5. s \o t = Push(a, Push(b, Push(c, t))) BY <1>0, <1>4, ConcatThree
<1> QED BY <1>1, <1>3, <1>5

(* Agendas after a step: the first item is gone, perhaps for others. *)
LEMMA OkNone ==
  ASSUME OpInv, NEW p \in Procs, todo[p] # <<>>, Then(p, <<>>), NEW in,
         Tail(todo[p]) # <<>> => (in <=> Tail(todo[p])[1][1] \notin Outside),
         Tail(todo[p]) = <<>> => ~in
  PROVE  AgendaOk(todo'[p], in)
<1>1. todo'[p] = Tail(todo[p]) /\ Good(Tail(todo[p])) BY ThenNone, Popped
<1> QED BY <1>1 DEF AgendaOk

(* One item in the place of the first.                                     *)
LEMMA OkOne ==
  ASSUME OpInv, NEW p \in Procs, todo[p] # <<>>, NEW a, Then(p, <<a>>), Follows(a[1], Tail(todo[p])),
         NEW in, in <=> a[1] \notin Outside
  PROVE  AgendaOk(todo'[p], in)
<1>1. PICK t, w : t = Tail(todo[p]) /\ w = todo'[p] OBVIOUS
<1>2. w = Push(a, t) /\ Good(t) BY <1>1, ThenOne, Popped
<1>3. Good(w) /\ w # <<>> /\ w[1] = a BY <1>1, <1>2, GoodPush
<1> QED BY <1>1, <1>3 DEF AgendaOk

(* Two items in the place of the first.                                    *)
LEMMA OkTwo ==
  ASSUME OpInv, NEW p \in Procs, todo[p] # <<>>, NEW a, NEW b, Then(p, <<a, b>>),
         Follows(b[1], Tail(todo[p])), b[1] \in After(a[1]), a[1] \notin {"close", "end_op"},
         NEW in, in <=> a[1] \notin Outside
  PROVE  AgendaOk(todo'[p], in)
<1>1. PICK t, w : t = Tail(todo[p]) /\ w = todo'[p] OBVIOUS
<1>2. w = Push(a, Push(b, t)) /\ Good(t) BY <1>1, ThenTwo, Popped
<1>3. PICK u : u = Push(b, t) OBVIOUS
<1>4. Good(u) /\ u # <<>> /\ u[1] = b BY <1>1, <1>2, <1>3, GoodPush
<1>5. Follows(a[1], u) BY <1>4 DEF Follows
<1>6. Good(w) /\ w # <<>> /\ w[1] = a BY <1>2, <1>3, <1>4, <1>5, GoodPush
<1> QED BY <1>1, <1>6 DEF AgendaOk

(* Each step of a system call leaves a well formed agenda. *)
LEMMA PopSteps ==
  ASSUME OpInv, NEW p \in Procs, todo[p] # <<>>,
         Iput(p) \/ Ifree(p) \/ Deref(p) \/ Iunlock(p) \/ BeginOp(p) \/ EndOp(p)
  PROVE  AgendaOk(todo'[p], p \in op')
<1> DEFINE t == Tail(todo[p])
<1>1. Follows(Label(p), t) /\ (p \in op <=> Label(p) \notin Outside) /\ (Len(todo[p]) = 1 <=> t = <<>>) BY Popped
<1> HIDE DEF t
<1>2. Pops = {"iput", "ifree", "deref", "iunlock"} /\ \A l \in Pops : l \notin MayEnd /\ l \notin Outside
  BY DEF Pops, MayEnd, Outside
<1>3. CASE Iput(p)
  <2>1. Label(p) = "iput" /\ op' = op BY <1>3 DEF Iput
  <2>2. t # <<>> /\ Follows("ifree", t) /\ Follows("deref", t)
    <3>1. Follows("iput", t) BY <1>1, <2>1
    <3> QED BY <3>1, <1>2, AfterIs DEF Follows
  <2>3. \/ Then(p, << <<"ifree", Arg(p)>> >>) \/ Then(p, << <<"deref", Arg(p)>> >>) BY <1>3 DEF Iput
  <2>4. p \in op' BY <1>1, <1>2, <2>1
  <2>5. CASE Then(p, << <<"ifree", Arg(p)>> >>)
    <3>1. PICK a : a = <<"ifree", Arg(p)>> OBVIOUS
    <3>2. Then(p, <<a>>) /\ a[1] = "ifree" BY <2>5, <3>1
    <3> QED BY <1>2, <2>2, <2>4, <3>2, OkOne DEF t
  <2>6. CASE Then(p, << <<"deref", Arg(p)>> >>)
    <3>1. PICK a : a = <<"deref", Arg(p)>> OBVIOUS
    <3>2. Then(p, <<a>>) /\ a[1] = "deref" BY <2>6, <3>1
    <3> QED BY <1>2, <2>2, <2>4, <3>2, OkOne DEF t
  <2> QED BY <2>3, <2>5, <2>6
<1>4. CASE Ifree(p)
  <2>1. Label(p) = "ifree" /\ op' = op /\ Then(p, << <<"deref", Arg(p)>> >>) BY <1>4 DEF Ifree
  <2>2. Follows("deref", t)
    <3>1. Follows("ifree", t) BY <1>1, <2>1
    <3> QED BY <3>1, <1>2, AfterIs DEF Follows
  <2>3. PICK a : a = <<"deref", Arg(p)>> OBVIOUS
  <2>4. Then(p, <<a>>) /\ a[1] = "deref" BY <2>1, <2>3
  <2> QED BY <1>1, <1>2, <2>1, <2>2, <2>4, OkOne DEF t
<1>5. CASE Deref(p) \/ Iunlock(p)
  <2>1. Label(p) \in Pops /\ op' = op /\ Then(p, <<>>) BY <1>2, <1>5 DEF Deref, Iunlock
  <2>2. t # <<>> /\ t[1][1] \notin Outside BY <1>1, <1>2, <2>1, AfterIs DEF Follows
  <2> QED BY <1>1, <1>2, <2>1, <2>2, OkNone DEF t
<1>6. CASE BeginOp(p)
  <2>1. Label(p) = "begin_op" /\ op' = op \cup {p} /\ Then(p, <<>>) BY <1>6 DEF BeginOp
  <2>2. t # <<>> /\ t[1][1] \notin Outside
    <3>1. "begin_op" \notin MayEnd /\ \A l \in {"namei", "nameiparent", "iput", "writei"} : l \notin Outside BY DEF MayEnd, Outside
    <3> QED BY <1>1, <2>1, <3>1, AfterIs DEF Follows
  <2> QED BY <2>1, <2>2, OkNone DEF t
<1>7. CASE EndOp(p)
  <2>1. Label(p) = "end_op" /\ op' = op \ {p} BY <1>7 DEF EndOp
  <2>2. CASE Len(todo[p]) = 1
    <3>1. Only(p, <<>>) BY <1>7, <2>2 DEF EndOp, Return
    <3>2. PICK s : s = <<>> OBVIOUS
    <3>3. todo'[p] = s BY <3>1, <3>2, OnlyIs
    <3> QED BY <2>1, <3>2, <3>3, EmptyGood DEF AgendaOk
  <2>3. CASE Len(todo[p]) # 1
    <3>1. Then(p, <<>>) BY <1>7, <2>3 DEF EndOp
    <3>2. t # <<>> /\ t[1][1] \in Outside
      <4>1. \A l \in {"close", "begin_op"} : l \in Outside BY DEF Outside
      <4> QED BY <1>1, <2>1, <2>3, <4>1, AfterIs DEF Follows
    <3>3. p \notin op' /\ (t # <<>> => (p \in op' <=> t[1][1] \notin Outside)) BY <2>1, <3>2
    <3>4. todo'[p] = t /\ Good(t) BY <3>1, ThenNone, Popped DEF t
    <3> QED BY <3>2, <3>3, <3>4 DEF AgendaOk
  <2> QED BY <2>2, <2>3
<1> QED BY <1>3, <1>4, <1>5, <1>6, <1>7

(* namex(), its loop, and a failed lookup.                                 *)
LEMMA PathSteps ==
  ASSUME OpInv, NEW p \in Procs, todo[p] # <<>>,
         Namex(p) \/ Walk(p) \/ \E l \in {"link1", "unlink1", "mkdir", "open1", "open2", "chdir1"} : NoInode(p, l)
  PROVE  AgendaOk(todo'[p], p \in op')
<1> DEFINE t == Tail(todo[p])
<1>1. Follows(Label(p), t) /\ (p \in op <=> Label(p) \notin Outside) BY Popped
<1> HIDE DEF t
<1>2. "iput" \in Pops /\ {"walk", "iput", "end_op", "namei", "nameiparent"} \cap Outside = {} /\ "walk" \notin MayEnd
      /\ "namei" \notin MayEnd /\ "nameiparent" \notin MayEnd /\ "end_op" \in MayEnd
  BY DEF Pops, Outside, MayEnd
<1>3. \A l : l \in After("walk") => l \in After("iput") /\ l \notin Outside BY AfterIs DEF Outside
<1>4. CASE Namex(p)
  <2>1. Label(p) \in {"namei", "nameiparent"} /\ op' = op BY <1>4 DEF Namex
  <2>2. t # <<>> /\ t[1][1] \in After("walk")
    <3>1. t # <<>> /\ t[1][1] \in After(Label(p)) BY <1>1, <1>2, <2>1 DEF Follows
    <3> QED BY <2>1, <3>1, AfterIs
  <2>3. Follows("walk", t) /\ Follows("iput", t) BY <1>3, <2>2 DEF Follows
  <2>4. \/ Then(p, << <<"walk", Label(p) = "nameiparent">> >>) \/ Then(p, <<>>)
        \/ Then(p, <<iput(StartOf(p, Arg(p)))>>)
    BY <1>4 DEF Namex
  <2>5. p \in op' BY <1>1, <1>2, <2>1
  <2>6. CASE Then(p, << <<"walk", Label(p) = "nameiparent">> >>)
    <3>1. PICK a : a = <<"walk", Label(p) = "nameiparent">> OBVIOUS
    <3>2. Then(p, <<a>>) /\ a[1] = "walk" BY <2>6, <3>1
    <3> QED BY <1>2, <2>3, <2>5, <3>2, OkOne DEF t
  <2>7. CASE Then(p, <<iput(StartOf(p, Arg(p)))>>)
    <3>1. PICK a : a = iput(StartOf(p, Arg(p))) OBVIOUS
    <3>2. Then(p, <<a>>) /\ a[1] = "iput" BY <2>7, <3>1 DEF iput
    <3> QED BY <1>2, <2>3, <2>5, <3>2, OkOne DEF t
  <2>8. CASE Then(p, <<>>) BY <1>3, <2>2, <2>5, <2>8, OkNone DEF t
  <2> QED BY <2>4, <2>6, <2>7, <2>8
<1>5. CASE Walk(p)
  <2>1. Label(p) = "walk" /\ op' = op BY <1>5 DEF Walk
  <2>2. t # <<>> /\ t[1][1] \in After("walk") BY <1>1, <1>2, <2>1 DEF Follows
  <2>3. Follows("walk", t) /\ Follows("iput", t) BY <1>3, <2>2 DEF Follows
  <2>4. p \in op' BY <1>1, <1>2, <2>1
  <2>5. PICK a, b : a = iput(reg[p].ip) /\ b = todo[p][1] OBVIOUS
  <2>6. a[1] = "iput" /\ b[1] = "walk" BY <2>1, <2>5, Popped DEF iput
  <2>7. Then(p, <<>>) \/ Then(p, <<a>>) \/ Then(p, <<a, b>>)
    <3>1. CASE Len(reg[p].elems) = 1 BY <1>5, <2>5, <3>1 DEF Walk
    <3>2. CASE Len(reg[p].elems) # 1
      <4>1. Then(p, <<>>) \/ Then(p, <<a>>) \/ Then(p, <<a>> \o <<b>>) BY <1>5, <2>5, <3>2 DEF Walk
      <4>2. <<a>> \o <<b>> = <<a, b>> BY PairConcat
      <4> QED BY <4>1, <4>2
    <3> QED BY <3>1, <3>2
  <2>8. CASE Then(p, <<>>) BY <1>3, <2>2, <2>4, <2>8, OkNone DEF t
  <2>9. CASE Then(p, <<a>>) BY <1>2, <2>3, <2>4, <2>6, <2>9, OkOne DEF t
  <2>10. CASE Then(p, <<a, b>>)
    <3>1. b[1] \in After(a[1]) /\ a[1] \notin {"close", "end_op"} BY <2>6, AfterIs
    <3> QED BY <1>2, <2>3, <2>4, <2>6, <2>10, <3>1, OkTwo DEF t
  <2> QED BY <2>7, <2>8, <2>9, <2>10
<1>6. CASE \E l \in {"link1", "unlink1", "mkdir", "open1", "open2", "chdir1"} : NoInode(p, l)
  <2>1. Label(p) \in {"link1", "unlink1", "mkdir", "open1", "open2", "chdir1"} /\ op' = op /\ Only(p, <<end_op(-1)>>)
    BY <1>6 DEF NoInode
  <2>2. PICK a, s : a = end_op(-1) /\ s = <<a>> OBVIOUS
  <2>3. a[1] = "end_op" /\ Only(p, s) BY <2>1, <2>2 DEF end_op
  <2>4. todo'[p] = s BY <2>3, OnlyIs
  <2>5. Good(s) /\ s # <<>> /\ s[1] = a BY <1>2, <2>2, <2>3, GoodOne
  <2>6. p \in op' BY <1>1, <2>1 DEF Outside
  <2> QED BY <1>2, <2>3, <2>4, <2>5, <2>6 DEF AgendaOk
<1> QED BY <1>4, <1>5, <1>6

(* A step that replaces the agenda by a well formed list.                  *)
LEMMA OnlyOk ==
  ASSUME OpInv, NEW p \in Procs, NEW s, Only(p, s), Good(s), NEW in, in <=> s # <<>> /\ s[1][1] \notin Outside
  PROVE  AgendaOk(todo'[p], in)
<1>1. todo'[p] = s BY OnlyIs
<1> QED BY <1>1 DEF AgendaOk

(* sys_link() and its undoing.                                             *)
LEMMA LinkSteps ==
  ASSUME OpInv, NEW p \in Procs, todo[p] # <<>>, Link1(p) \/ Link2(p) \/ LinkNoDir(p) \/ LinkBad(p)
  PROVE  AgendaOk(todo'[p], p \in op')
<1>1. p \in op <=> Label(p) \notin Outside BY Popped
<1>2. {"iput", "iunlock", "nameiparent", "linkbad", "link1", "link2", "end_op"} \cap Outside = {}
      /\ {"end_op", "linkbad", "link2"} \subseteq MayEnd /\ {"iput", "iunlock"} \subseteq Pops
  BY DEF Outside, MayEnd, Pops
<1>3. /\ "end_op" \in After("iput") /\ "iput" \in After("iput") /\ "iunlock" \in After("iput")
      /\ "iput" \in After("iunlock") /\ "linkbad" \in After("iput") /\ "link2" \in After("nameiparent")
  BY <1>2, AfterIs
<1>4. /\ \A i : iput(i)[1] = "iput" /\ iunlock(i)[1] = "iunlock" /\ end_op(i)[1] = "end_op"
      /\ \A l : Item(l)[1] = l
  BY DEF iput, iunlock, end_op, Item
<1>5. CASE Link1(p)
  <2>1. Label(p) = "link1" /\ op' = op BY <1>5 DEF Link1
  <2>2. PICK a, b, c, d : a = iput(reg[p].ip) /\ b = end_op(-1) /\ c = <<"nameiparent", reg[p].call.new>> /\ d = Item("link2")
    OBVIOUS
  <2>3. Only(p, <<a, b>>) \/ Only(p, <<c, d>>) BY <1>5, <2>2 DEF Link1
  <2>4. a[1] = "iput" /\ b[1] = "end_op" /\ c[1] = "nameiparent" /\ d[1] = "link2" BY <1>4, <2>2
  <2>5. Good(<<a, b>>) /\ <<a, b>> # <<>> /\ <<a, b>>[1] = a BY <1>2, <1>3, <2>4, GoodTwo
  <2>6. Good(<<c, d>>) /\ <<c, d>> # <<>> /\ <<c, d>>[1] = c BY <1>2, <1>3, <2>4, GoodTwo
  <2>7. p \in op' BY <1>1, <1>2, <2>1
  <2>8. PICK s : Only(p, s) /\ Good(s) /\ s # <<>> /\ s[1][1] \notin Outside BY <1>2, <2>3, <2>4, <2>5, <2>6
  <2> QED BY <2>7, <2>8, OnlyOk
<1>6. CASE Link2(p)
  <2>1. Label(p) = "link2" /\ op' = op BY <1>6 DEF Link2
  <2>2. PICK a, b, c, d, e, g, h :
          /\ a = iput(dirlookup(Ilocked(reg[p].ip), reg[p].name)) /\ b = iunlock(reg[p].ip) /\ c = iput(reg[p].ip)
          /\ d = Item("linkbad") /\ e = iput(reg[p].ip) /\ g = iput(reg[p].old) /\ h = end_op(0)
    OBVIOUS
  <2>3. Only(p, <<a, b, c, d>>) \/ Only(p, <<e, g, h>>)
    <3>1. Only(p, <<a>> \o <<b, c>> \o <<d>>) \/ Only(p, <<e, g, h>>) BY <1>6, <2>2 DEF Link2, iunlockput
    <3>2. <<a>> \o <<b, c>> \o <<d>> = <<a, b, c, d>> BY FourConcat
    <3> QED BY <3>1, <3>2
  <2>4. a[1] = "iput" /\ b[1] = "iunlock" /\ c[1] = "iput" /\ d[1] = "linkbad" /\ e[1] = "iput" /\ g[1] = "iput" /\ h[1] = "end_op"
    BY <1>4, <2>2
  <2>5. Good(<<a, b, c, d>>) /\ <<a, b, c, d>> # <<>> /\ <<a, b, c, d>>[1] = a BY <1>2, <1>3, <2>4, GoodFour
  <2>6. Good(<<e, g, h>>) /\ <<e, g, h>> # <<>> /\ <<e, g, h>>[1] = e BY <1>2, <1>3, <2>4, GoodThree
  <2>7. p \in op' BY <1>1, <1>2, <2>1
  <2>8. PICK s : Only(p, s) /\ Good(s) /\ s # <<>> /\ s[1][1] \notin Outside BY <1>2, <2>3, <2>4, <2>5, <2>6
  <2> QED BY <2>7, <2>8, OnlyOk
<1>7. CASE LinkNoDir(p)
  <2>1. Label(p) = "link2" /\ op' = op BY <1>7 DEF LinkNoDir
  <2>2. PICK a : a = Item("linkbad") OBVIOUS
  <2>3. Only(p, <<a>>) /\ a[1] = "linkbad" BY <1>4, <1>7, <2>2 DEF LinkNoDir
  <2>4. Good(<<a>>) /\ <<a>> # <<>> /\ <<a>>[1] = a BY <1>2, <2>3, GoodOne
  <2>5. p \in op' BY <1>1, <1>2, <2>1
  <2>6. PICK s : Only(p, s) /\ Good(s) /\ s # <<>> /\ s[1][1] \notin Outside BY <1>2, <2>3, <2>4
  <2> QED BY <2>5, <2>6, OnlyOk
<1>8. CASE LinkBad(p)
  <2>1. Label(p) = "linkbad" /\ op' = op BY <1>8 DEF LinkBad
  <2>2. PICK a, b : a = iput(reg[p].old) /\ b = end_op(-1) OBVIOUS
  <2>3. Only(p, <<a, b>>) BY <1>8, <2>2 DEF LinkBad
  <2>4. a[1] = "iput" /\ b[1] = "end_op" BY <1>4, <2>2
  <2>5. Good(<<a, b>>) /\ <<a, b>> # <<>> /\ <<a, b>>[1] = a BY <1>2, <1>3, <2>4, GoodTwo
  <2>6. p \in op' BY <1>1, <1>2, <2>1
  <2>7. PICK s : Only(p, s) /\ Good(s) /\ s # <<>> /\ s[1][1] \notin Outside BY <1>2, <2>3, <2>4, <2>5
  <2> QED BY <2>6, <2>7, OnlyOk
<1> QED BY <1>5, <1>6, <1>7, <1>8

(* The labels of items, and what they may stand before. *)
LEMMA Labels ==
  /\ \A i : iput(i)[1] = "iput" /\ iunlock(i)[1] = "iunlock" /\ end_op(i)[1] = "end_op"
  /\ \A i : iput(i)[2] = i /\ iunlock(i)[2] = i /\ end_op(i)[2] = i
  /\ \A l : Item(l)[1] = l
  /\ {"iput", "iunlock"} \subseteq Pops
  /\ {"iput", "iunlock", "end_op", "unlink2", "unlink3", "open2", "chdir2", "mkdir", "ialloc", "newinode", "exists"}
       \cap Outside = {}
  /\ {"end_op", "unlink2", "unlink3", "open2", "chdir2", "mkdir", "writei"} \subseteq MayEnd
  /\ {"end_op", "iput", "iunlock", "unlink3", "chdir2"} \subseteq After("iput") /\ "iput" \in After("iunlock")
  /\ "end_op" \in After("iunlock")
<1>1. {"iput", "iunlock"} \subseteq Pops BY DEF Pops
<1> QED BY <1>1, AfterIs DEF iput, iunlock, end_op, Item, Outside, MayEnd

(* The agendas that end a call. *)
EndsWith(s, l) == Good(s) /\ s # <<>> /\ s[1][1] = l

(* The end of most calls: iput() and end_op().                             *)
LEMMA EndPut == ASSUME NEW i, NEW r PROVE EndsWith(<<iput(i), end_op(r)>>, "iput")
<1>1. PICK a, b : a = iput(i) /\ b = end_op(r) OBVIOUS
<1>2. a[1] = "iput" /\ b[1] = "end_op" BY <1>1, Labels
<1>3. Good(<<a, b>>) /\ <<a, b>> # <<>> /\ <<a, b>>[1] = a BY <1>2, Labels, GoodTwo
<1> QED BY <1>1, <1>2, <1>3 DEF EndsWith

(* An iput() and the rest of unlink(), chdir() or a failed link().         *)
LEMMA EndPutItem == ASSUME NEW i, NEW l \in {"unlink3", "chdir2", "linkbad"} PROVE EndsWith(<<iput(i), Item(l)>>, "iput")
<1>1. PICK a, b : a = iput(i) /\ b = Item(l) OBVIOUS
<1>2. a[1] = "iput" /\ b[1] = l BY <1>1, Labels
<1>3. l \in After("iput") /\ l \in MayEnd BY AfterIs DEF MayEnd
<1>4. Good(<<a, b>>) /\ <<a, b>> # <<>> /\ <<a, b>>[1] = a BY <1>2, <1>3, GoodTwo
<1> QED BY <1>1, <1>2, <1>4 DEF EndsWith

(* A single item.                                                          *)
LEMMA EndItem == ASSUME NEW l \in MayEnd PROVE EndsWith(<<Item(l)>>, l)
<1>1. PICK a : a = Item(l) OBVIOUS
<1>2. a[1] = l BY <1>1, Labels
<1>3. Good(<<a>>) /\ <<a>> # <<>> /\ <<a>>[1] = a BY <1>2, GoodOne
<1> QED BY <1>1, <1>2, <1>3 DEF EndsWith

(* iunlockput() and end_op().                                              *)
LEMMA EndUnlock ==
  ASSUME NEW i, NEW r
  PROVE  /\ iunlockput(i) \o <<end_op(r)>> = <<iunlock(i), iput(i), end_op(r)>>
         /\ EndsWith(iunlockput(i) \o <<end_op(r)>>, "iunlock")
<1>1. PICK a, b, c : a = iunlock(i) /\ b = iput(i) /\ c = end_op(r) OBVIOUS
<1>2. a[1] = "iunlock" /\ b[1] = "iput" /\ c[1] = "end_op" BY <1>1, Labels
<1>3. iunlockput(i) = <<a, b>> BY <1>1 DEF iunlockput
<1>4. <<a, b>> \o <<c>> = <<a, b, c>> BY ThreeConcat
<1>5. Good(<<a, b, c>>) /\ <<a, b, c>> # <<>> /\ <<a, b, c>>[1] = a BY <1>2, Labels, GoodThree
<1> QED BY <1>1, <1>2, <1>3, <1>4, <1>5 DEF EndsWith

(* The end of an unlink() of a directory that is not empty.                *)
LEMMA EndPutUnlock ==
  ASSUME NEW i, NEW j, NEW r
  PROVE  /\ <<iput(j)>> \o iunlockput(i) \o <<end_op(r)>> = <<iput(j), iunlock(i), iput(i), end_op(r)>>
         /\ EndsWith(<<iput(j)>> \o iunlockput(i) \o <<end_op(r)>>, "iput")
<1>1. PICK a, b, c, d : a = iunlock(i) /\ b = iput(i) /\ c = end_op(r) /\ d = iput(j) OBVIOUS
<1>2. a[1] = "iunlock" /\ b[1] = "iput" /\ c[1] = "end_op" /\ d[1] = "iput" BY <1>1, Labels
<1>3. iunlockput(i) = <<a, b>> BY <1>1 DEF iunlockput
<1>4. <<d>> \o <<a, b>> \o <<c>> = <<d, a, b, c>> BY FourConcat
<1>5. Good(<<d, a, b, c>>) /\ <<d, a, b, c>> # <<>> /\ <<d, a, b, c>>[1] = d BY <1>2, Labels, GoodFour
<1> QED BY <1>1, <1>2, <1>3, <1>4, <1>5 DEF EndsWith

(* A step inside an operation that leaves one of these endings.            *)
LEMMA OnlyEnds ==
  ASSUME OpInv, NEW p \in Procs, NEW s, NEW l, Only(p, s), EndsWith(s, l), l \notin Outside, p \in op'
  PROVE  AgendaOk(todo'[p], p \in op')
BY OnlyOk DEF EndsWith

(* sys_unlink()                                                            *)
LEMMA UnlinkSteps ==
  ASSUME OpInv, NEW p \in Procs, todo[p] # <<>>, Unlink1(p) \/ Unlink2(p) \/ Unlink3(p)
  PROVE  AgendaOk(todo'[p], p \in op')
<1>1. Label(p) \in {"unlink1", "unlink2", "unlink3"} /\ op' = op BY DEF Unlink1, Unlink2, Unlink3
<1>2. p \in op' BY <1>1, Popped DEF Outside
<1>3. PICK s, l : Only(p, s) /\ EndsWith(s, l) /\ l \notin Outside
  <2>1. "iput" \notin Outside /\ "unlink2" \notin Outside /\ "unlink2" \in MayEnd BY Labels
  <2>2. CASE Unlink1(p)
    <3>1. Only(p, <<iput(reg[p].ip), end_op(-1)>>) \/ Only(p, <<Item("unlink2")>>) BY <2>2 DEF Unlink1
    <3>2. EndsWith(<<iput(reg[p].ip), end_op(-1)>>, "iput") BY EndPut
    <3>3. EndsWith(<<Item("unlink2")>>, "unlink2") BY <2>1, EndItem
    <3> QED BY <2>1, <3>1, <3>2, <3>3
  <2>3. CASE Unlink2(p)
    <3>1. \/ Only(p, <<iput(reg[p].ip)>> \o iunlockput(reg[p].dp) \o <<end_op(-1)>>)
          \/ Only(p, <<iput(reg[p].dp), Item("unlink3")>>)
      BY <2>3 DEF Unlink2
    <3>2. EndsWith(<<iput(reg[p].ip)>> \o iunlockput(reg[p].dp) \o <<end_op(-1)>>, "iput") BY EndPutUnlock
    <3>3. EndsWith(<<iput(reg[p].dp), Item("unlink3")>>, "iput") BY EndPutItem
    <3> QED BY <2>1, <3>1, <3>2, <3>3
  <2>4. CASE Unlink3(p)
    <3>1. Only(p, <<iput(reg[p].ip), end_op(0)>>) BY <2>4 DEF Unlink3
    <3>2. EndsWith(<<iput(reg[p].ip), end_op(0)>>, "iput") BY EndPut
    <3> QED BY <2>1, <3>1, <3>2
  <2> QED BY <2>2, <2>3, <2>4
<1> QED BY <1>2, <1>3, OnlyEnds

(* create() and the calls after it.                                        *)
LEMMA CreateSteps ==
  ASSUME OpInv, NEW p \in Procs, todo[p] # <<>>,
         Create1(p) \/ CreateNoDir(p) \/ CreateExists(p) \/ ialloc(p) \/ CreateNew(p) \/ Mkdir(p)
  PROVE  AgendaOk(todo'[p], p \in op')
<1> DEFINE t == Tail(todo[p])
           L == {"create", "exists", "ialloc", "newinode"}
<1>1. Label(p) \in L \cup {"mkdir"} /\ op' = op
  BY DEF Create1, CreateNoDir, CreateExists, ialloc, CreateNew, Mkdir
<1>2. p \in op' BY <1>1, Popped DEF Outside
<1>3. CASE Mkdir(p)
  <2>1. Only(p, iunlockput(reg[p].ip) \o <<end_op(0)>>) BY <1>3 DEF Mkdir
  <2>2. EndsWith(iunlockput(reg[p].ip) \o <<end_op(0)>>, "iunlock") BY EndUnlock
  <2>3. "iunlock" \notin Outside BY Labels
  <2> QED BY <1>2, <2>1, <2>2, <2>3, OnlyEnds
<1>4. CASE ~Mkdir(p)
  <2>1. Label(p) \in L BY <1>4 DEF Create1, CreateNoDir, CreateExists, ialloc, CreateNew
  <2>2. Follows(Label(p), t) BY Popped
  <2>3. t # <<>> /\ t[1][1] \in {"open2", "mkdir"}
    <3>1. \A l \in L : l \notin MayEnd BY DEF MayEnd
    <3> HIDE DEF t, L
    <3>2. After(Label(p)) = {"open2", "mkdir"} BY <2>1, AfterIs DEF L
    <3> QED BY <2>1, <2>2, <3>1, <3>2 DEF Follows
  <2>4. \A l \in L \cup {"iput"} : Follows(l, t)
    <3> SUFFICES ASSUME NEW l \in L \cup {"iput"} PROVE Follows(l, t) OBVIOUS
    <3> HIDE DEF t
    <3>1. l \notin {"close", "end_op"} /\ t[1][1] \in After(l) BY <2>3, AfterIs
    <3> QED BY <2>3, <3>1 DEF Follows
  <2>5. \A l \in L \cup {"iput", "open2", "mkdir"} : l \notin Outside BY DEF Outside
  <2> HIDE DEF t
  <2>6. PICK a, b, c, d, e :
          /\ a = iput(reg[p].ip) /\ b = <<"exists", Arg(p)>> /\ c = <<"ialloc", Arg(p)>> /\ d = <<"newinode", Arg(p)>>
          /\ e = iput(reg[p].dp)
    OBVIOUS
  <2>7. a[1] = "iput" /\ b[1] = "exists" /\ c[1] = "ialloc" /\ d[1] = "newinode" /\ e[1] = "iput" BY <2>6, Labels
  <2>8. \/ Then(p, <<a, b>>) \/ Then(p, <<c>>) \/ Then(p, <<>>) \/ Then(p, <<a>>) \/ Then(p, <<d>>) \/ Then(p, <<e>>)
    <3>1. Create1(p) => Then(p, <<a, b>>) \/ Then(p, <<c>>) BY <2>6 DEF Create1
    <3>2. CreateNoDir(p) => Then(p, <<>>) BY DEF CreateNoDir
    <3>3. CreateExists(p) => Then(p, <<a>>) \/ Then(p, <<>>) BY <2>6 DEF CreateExists
    <3>4. ialloc(p) => Then(p, <<d>>) BY <2>6 DEF ialloc
    <3>5. CreateNew(p) => Then(p, <<e>>) BY <2>6 DEF CreateNew
    <3> QED BY <1>4, <3>1, <3>2, <3>3, <3>4, <3>5
  <2>9. CASE Then(p, <<a, b>>)
    <3>1. b[1] \in After(a[1]) /\ a[1] \notin {"close", "end_op"} BY <2>7, AfterIs
    <3> QED BY <1>2, <2>4, <2>5, <2>7, <2>9, <3>1, OkTwo DEF t
  <2>10. CASE Then(p, <<>>) BY <1>2, <2>3, <2>5, <2>10, OkNone DEF t
  <2>11. CASE Then(p, <<a>>) BY <1>2, <2>4, <2>5, <2>7, <2>11, OkOne DEF t
  <2>12. CASE Then(p, <<c>>) BY <1>2, <2>4, <2>5, <2>7, <2>12, OkOne DEF t
  <2>13. CASE Then(p, <<d>>) BY <1>2, <2>4, <2>5, <2>7, <2>13, OkOne DEF t
  <2>14. CASE Then(p, <<e>>) BY <1>2, <2>4, <2>5, <2>7, <2>14, OkOne DEF t
  <2> QED BY <2>8, <2>9, <2>10, <2>11, <2>12, <2>13, <2>14
<1> QED BY <1>3, <1>4

(* A step that ends the call and the operation.                            *)
LEMMA OnlyNone ==
  ASSUME OpInv, NEW p \in Procs, Only(p, <<>>), p \notin op'
  PROVE  AgendaOk(todo'[p], p \in op')
<1>1. PICK s : s = <<>> OBVIOUS
<1>2. todo'[p] = s BY <1>1, OnlyIs
<1> QED BY <1>1, <1>2, EmptyGood DEF AgendaOk

(* sys_open() and sys_chdir() after the lookup, and the end of exit().     *)
LEMMA OpenSteps ==
  ASSUME OpInv, NEW p \in Procs, todo[p] # <<>>, Open1(p) \/ Open2(p) \/ Chdir1(p) \/ Chdir2(p) \/ Dead(p)
  PROVE  AgendaOk(todo'[p], p \in op')
<1>1. Label(p) \in {"open1", "open2", "chdir1", "chdir2", "dead"} BY DEF Open1, Open2, Chdir1, Chdir2, Dead
<1>2. p \in op BY <1>1, Popped DEF Outside
<1>3. {"iput", "iunlock", "open2"} \cap Outside = {} /\ "open2" \in MayEnd BY Labels
<1>4. CASE Open1(p)
  <2>1. op' = op /\ (Only(p, <<iput(reg[p].ip), end_op(-1)>>) \/ Only(p, <<Item("open2")>>)) BY <1>4 DEF Open1
  <2>2. EndsWith(<<iput(reg[p].ip), end_op(-1)>>, "iput") BY EndPut
  <2>3. EndsWith(<<Item("open2")>>, "open2") BY <1>3, EndItem
  <2>4. PICK s, l : Only(p, s) /\ EndsWith(s, l) /\ l \notin Outside BY <1>3, <2>1, <2>2, <2>3
  <2> QED BY <1>2, <2>1, <2>4, OnlyEnds
<1>5. CASE Open2(p) /\ (FreeFiles = {} \/ FreeFds(p) = {})
  <2>1. op' = op /\ Only(p, iunlockput(reg[p].ip) \o <<end_op(-1)>>) BY <1>5 DEF Open2
  <2>2. EndsWith(iunlockput(reg[p].ip) \o <<end_op(-1)>>, "iunlock") BY EndUnlock
  <2> QED BY <1>2, <1>3, <2>1, <2>2, OnlyEnds
<1>6. CASE Open2(p) /\ ~(FreeFiles = {} \/ FreeFds(p) = {})
  <2>1. op' = op \ {p} /\ Only(p, <<>>) BY <1>6 DEF Open2, Return
  <2> QED BY <2>1, OnlyNone
<1>7. CASE Chdir1(p)
  <2>1. op' = op /\ (Only(p, <<iput(reg[p].ip), end_op(-1)>>) \/ Only(p, <<iput(cwd[p]), Item("chdir2")>>))
    <3>1. CASE IsDir(Ilocked(reg[p].ip)) BY <1>7, <3>1 DEF Chdir1
    <3>2. CASE ~IsDir(Ilocked(reg[p].ip)) BY <1>7, <3>2 DEF Chdir1
    <3> QED BY <3>1, <3>2
  <2>2. EndsWith(<<iput(reg[p].ip), end_op(-1)>>, "iput") BY EndPut
  <2>3. EndsWith(<<iput(cwd[p]), Item("chdir2")>>, "iput") BY EndPutItem
  <2>4. PICK s, l : Only(p, s) /\ EndsWith(s, l) /\ l \notin Outside BY <1>3, <2>1, <2>2, <2>3
  <2> QED BY <1>2, <2>1, <2>4, OnlyEnds
<1>8. CASE Chdir2(p) \/ Dead(p)
  <2>1. op' = op \ {p} /\ Only(p, <<>>) BY <1>8 DEF Chdir2, Dead, Return
  <2> QED BY <2>1, OnlyNone
<1> QED BY <1>4, <1>5, <1>6, <1>7, <1>8

(* The calls on a descriptor.                                              *)
LEMMA FdSteps ==
  ASSUME OpInv, NEW p \in Procs, todo[p] # <<>>,
         BadFd(p) \/ Fileclose(p) \/ Dup(p) \/ Read(p) \/ Fstat(p) \/ Write(p) \/ Writei(p)
  PROVE  AgendaOk(todo'[p], p \in op')
<1> DEFINE t == Tail(todo[p])
<1>1. Follows(Label(p), t) /\ (p \in op <=> Label(p) \notin Outside) /\ (Len(todo[p]) = 1 <=> t = <<>>) BY Popped
<1> HIDE DEF t
<1>2. {"close", "dup", "read", "write", "fstat", "begin_op"} \subseteq Outside /\ "writei" \notin Outside BY DEF Outside
<1>3. CASE BadFd(p) \/ Dup(p) \/ Read(p) \/ Fstat(p)
  <2>1. op' = op /\ Label(p) \in Outside BY <1>2, <1>3 DEF BadFd, Dup, Read, Fstat
  <2>2. Only(p, <<>>) BY <1>3 DEF BadFd, Dup, Read, Fstat, Return
  <2> QED BY <1>1, <2>1, <2>2, OnlyNone
<1>4. CASE Fileclose(p)
  <2>1. Label(p) = "close" /\ op' = op BY <1>4 DEF Fileclose
  <2>2. p \notin op' BY <1>1, <1>2, <2>1
  <2>3. PICK i : Only(p, <<>>) \/ (Len(todo[p]) # 1 /\ Then(p, <<>>)) \/ Then(p, CloseInode(i))
    <3>1. PICK i : i = file[argfd(p, Arg(p))].ip OBVIOUS
    <3> QED BY <1>4, <3>1 DEF Fileclose, Return
  <2>4. t # <<>> => t[1][1] \in {"close", "begin_op"} /\ End(t) = "dead" BY <1>1, <2>1, AfterIs DEF Follows
  <2>5. CASE Only(p, <<>>) BY <2>2, <2>5, OnlyNone
  <2>6. CASE Len(todo[p]) # 1 /\ Then(p, <<>>)
    <3>1. t # <<>> /\ t[1][1] \in Outside BY <1>1, <1>2, <2>4, <2>6
    <3>2. todo'[p] = t /\ Good(t) BY <2>6, ThenNone, Popped DEF t
    <3> QED BY <2>2, <3>1, <3>2 DEF AgendaOk
  <2>7. CASE Then(p, CloseInode(i))
    <3>1. PICK a, b, c : a = Item("begin_op") /\ b = iput(i) /\ c = end_op(0) OBVIOUS
    <3>2. Then(p, <<a, b, c>>) BY <2>7, <3>1 DEF CloseInode
    <3>3. a[1] = "begin_op" /\ b[1] = "iput" /\ c[1] = "end_op" BY <3>1, Labels
    <3>4. Follows(c[1], t)
      <4>1. "end_op" \in MayEnd BY Labels
      <4> QED BY <2>4, <3>3, <4>1, AfterIs DEF Follows
    <3>5. c[1] \in After(b[1]) /\ b[1] \in After(a[1]) /\ {a[1], b[1]} \cap {"close", "end_op"} = {}
      BY <3>3, AfterIs
    <3>6. todo'[p] = Push(a, Push(b, Push(c, t))) /\ Good(t) BY <3>2, ThenThree, Popped DEF t
    <3>7. PICK u : u = Push(c, t) OBVIOUS
    <3>8. PICK v : v = Push(b, u) OBVIOUS
    <3>9. Good(u) /\ u # <<>> /\ u[1] = c BY <3>4, <3>6, <3>7, GoodPush
    <3>10. Follows(b[1], u) BY <3>5, <3>9 DEF Follows
    <3>11. Good(v) /\ v # <<>> /\ v[1] = b BY <3>8, <3>9, <3>10, GoodPush
    <3>12. Follows(a[1], v) BY <3>5, <3>11 DEF Follows
    <3>13. PICK w : w = Push(a, v) OBVIOUS
    <3>14. Good(w) /\ w # <<>> /\ w[1] = a BY <3>11, <3>12, <3>13, GoodPush
    <3>15. todo'[p] = w BY <3>6, <3>7, <3>8, <3>13
    <3> QED BY <1>2, <2>2, <3>3, <3>14, <3>15 DEF AgendaOk
  <2> QED BY <2>3, <2>5, <2>6, <2>7
<1>5. ASSUME NEW n PROVE EndsWith(<<Item("begin_op"), <<"writei", n>> >>, "begin_op")
  <2>1. PICK a, b : a = Item("begin_op") /\ b = <<"writei", n>> OBVIOUS
  <2>2. a[1] = "begin_op" /\ b[1] = "writei" BY <2>1, Labels
  <2>3. "writei" \in After("begin_op") /\ "writei" \in MayEnd BY AfterIs, Labels
  <2>4. Good(<<a, b>>) /\ <<a, b>> # <<>> /\ <<a, b>>[1] = a BY <2>2, <2>3, GoodTwo
  <2> QED BY <2>1, <2>2, <2>4 DEF EndsWith
<1>6. ASSUME NEW s, EndsWith(s, "begin_op"), Only(p, s), p \notin op' PROVE AgendaOk(todo'[p], p \in op')
  <2>1. todo'[p] = s BY <1>6, OnlyIs
  <2> QED BY <1>2, <1>6, <2>1 DEF AgendaOk, EndsWith
<1>7. CASE Write(p)
  <2>1. op' = op /\ p \notin op BY <1>1, <1>2, <1>7 DEF Write
  <2>2. Only(p, <<>>) \/ Only(p, <<Item("begin_op"), <<"writei", 0>> >>) BY <1>7 DEF Write, Return
  <2>3. CASE Only(p, <<>>) BY <2>1, <2>3, OnlyNone
  <2>4. CASE Only(p, <<Item("begin_op"), <<"writei", 0>> >>) BY <1>5, <1>6, <2>1, <2>4
  <2> QED BY <2>2, <2>3, <2>4
<1>8. CASE Writei(p)
  <2>1. op' = op \ {p} BY <1>8 DEF Writei
  <2>2. PICK n : Only(p, <<>>) \/ Only(p, <<Item("begin_op"), <<"writei", n>> >>)
    <3>1. PICK n : n = Arg(p) + Min({Len(reg[p].call.data) - Arg(p), WriteMax}) OBVIOUS
    <3> QED BY <1>8, <3>1 DEF Writei, Return
  <2>3. CASE Only(p, <<>>) BY <2>1, <2>3, OnlyNone
  <2>4. CASE Only(p, <<Item("begin_op"), <<"writei", n>> >>) BY <1>5, <1>6, <2>1, <2>4
  <2> QED BY <2>2, <2>3, <2>4
<1> QED BY <1>3, <1>4, <1>7, <1>8

-----------------------------------------------------------------------------
(* The calls.                                                              *)

OpenSet(p) == {fd \in Fds : ofile[p][fd] # None}

(* A finite set of numbers in increasing order. *)
LEMMA Enumeration ==
  ASSUME NEW S, S \subseteq Nat, IsFiniteSet(S)
  PROVE  \E s \in [1 .. Cardinality(S) -> S] : \A j, k \in DOMAIN s : j < k => s[j] < s[k]
<1> DEFINE n == Cardinality(S)
           UpTo(x) == {y \in S : y <= x}
           rank == [x \in S |-> Cardinality(UpTo(x))]
<1>1. n \in Nat BY FS_CardinalityType
<1>2. ASSUME NEW x \in S PROVE IsFiniteSet(UpTo(x)) /\ Cardinality(UpTo(x)) \in 1 .. n
  <2>1. UpTo(x) \in SUBSET S /\ x \in UpTo(x) OBVIOUS
  <2> HIDE DEF UpTo
  <2>2. IsFiniteSet(UpTo(x)) /\ Cardinality(UpTo(x)) <= n BY <2>1, FS_Subset
  <2>3. Cardinality(UpTo(x)) \in Nat /\ Cardinality(UpTo(x)) # 0 BY <2>1, <2>2, FS_CardinalityType, FS_EmptySet
  <2> QED BY <1>1, <2>2, <2>3
<1>3. ASSUME NEW x \in S, NEW y \in S, x < y PROVE Cardinality(UpTo(x)) < Cardinality(UpTo(y))
  <2>0. \A z \in S : z \in Nat OBVIOUS
  <2>1. UpTo(x) \in SUBSET UpTo(y) /\ y \in UpTo(y) /\ y \notin UpTo(x)
    <3>1. \A z \in S : z <= x => z <= y BY <1>3, <2>0
    <3>2. y <= y /\ ~(y <= x) BY <1>3, <2>0
    <3> QED BY <3>1, <3>2
  <2>2. IsFiniteSet(UpTo(y)) /\ IsFiniteSet(UpTo(x)) BY <1>2
  <2>5. Cardinality(UpTo(x)) \in 1 .. n /\ Cardinality(UpTo(y)) \in 1 .. n BY <1>2
  <2> HIDE DEF UpTo
  <2>3. Cardinality(UpTo(x)) <= Cardinality(UpTo(y)) /\ (Cardinality(UpTo(y)) = Cardinality(UpTo(x)) => UpTo(y) = UpTo(x))
    BY <2>1, <2>2, FS_Subset
  <2>4. UpTo(x) # UpTo(y) BY <2>1
  <2> QED BY <1>1, <2>3, <2>4, <2>5
<1>4. rank \in [S -> 1 .. n] /\ \A x \in S : rank[x] = Cardinality(UpTo(x)) BY <1>2
<1>5. \A x, y \in S : x < y => rank[x] < rank[y] BY <1>3, <1>4
<1> HIDE DEF rank, n
<1>6. \A x, y \in S : rank[x] = rank[y] => x = y
  <2> SUFFICES ASSUME NEW x \in S, NEW y \in S, rank[x] = rank[y] PROVE x = y OBVIOUS
  <2>1. rank[x] \in 1 .. n BY <1>4
  <2>2. x < y \/ y < x \/ x = y OBVIOUS
  <2> QED BY <1>1, <1>5, <2>1, <2>2
<1>7. rank \in Injection(S, 1 .. n) BY <1>4, <1>6 DEF Injection, IsInjective
<1>8. IsFiniteSet(1 .. n) /\ Cardinality(1 .. n) = n
  <2>1. IsFiniteSet(1 .. n) /\ Cardinality(1 .. n) = IF 1 > n THEN 0 ELSE n - 1 + 1 BY <1>1, FS_Interval
  <2> QED BY <1>1, <2>1
<1>9. rank \in Surjection(S, 1 .. n) BY <1>7, <1>8, FS_Injection DEF n
<1>10. \A k \in 1 .. n : \E x \in S : rank[x] = k BY <1>9 DEF Surjection
<1> DEFINE s == [k \in 1 .. n |-> CHOOSE x \in S : rank[x] = k]
<1>11. \A k \in 1 .. n : s[k] \in S /\ rank[s[k]] = k BY <1>10
<1>12. s \in [1 .. n -> S] /\ DOMAIN s = 1 .. n BY <1>11
<1> HIDE DEF s
<1>13. ASSUME NEW j \in 1 .. n, NEW k \in 1 .. n, j < k PROVE s[j] < s[k]
  <2>1. s[j] \in S /\ s[k] \in S /\ rank[s[j]] = j /\ rank[s[k]] = k BY <1>11
  <2>2. s[j] < s[k] \/ s[k] < s[j] \/ s[j] = s[k]
    <3>1. s[j] \in Nat /\ s[k] \in Nat BY <2>1
    <3> QED BY <3>1
  <2>3. ~(s[k] < s[j])
    <3> SUFFICES ASSUME s[k] < s[j] PROVE FALSE OBVIOUS
    <3>1. rank[s[k]] < rank[s[j]] BY <1>5, <2>1
    <3> QED BY <1>1, <1>13, <2>1, <3>1
  <2> QED BY <1>1, <1>13, <2>1, <2>2, <2>3
<1> QED BY <1>12, <1>13 DEF n

(* exit() closes each open descriptor once. *)
LEMMA OpenFdsIs ==
  ASSUME NEW p
  PROVE  /\ OpenFds(p) \in Seq(Fds) /\ Len(OpenFds(p)) \in Nat
         /\ \A j, k \in 1 .. Len(OpenFds(p)) : OpenFds(p)[j] = OpenFds(p)[k] => j = k
         /\ {OpenFds(p)[k] : k \in 1 .. Len(OpenFds(p))} = OpenSet(p)
<1> DEFINE S == OpenSet(p)
           n == Cardinality(S)
           Up(z) == \A j, k \in DOMAIN z : j < k => z[j] < z[k]
           s == OpenFds(p)
<1>1. S \subseteq Fds /\ Fds \subseteq Nat /\ IsFiniteSet(Fds)
  <2>1. NOFILE \in Nat BY FilesAssumption
  <2>2. IsFiniteSet(0 .. NOFILE - 1) BY <2>1, FS_Interval
  <2> QED BY <2>1, <2>2 DEF Fds, OpenSet
<1>2. IsFiniteSet(S) BY <1>1, FS_Subset
<1>3. n \in Nat BY <1>2, FS_CardinalityType
<1>4. s = CHOOSE z \in [1 .. n -> S] : Up(z) BY DEF OpenFds, OpenSet
<1> HIDE DEF s, S
<1>5. \E z \in [1 .. n -> S] : Up(z) BY <1>1, <1>2, Enumeration
<1>6. s \in [1 .. n -> S] /\ Up(s) BY <1>4, <1>5
<1>7. Len(s) = n /\ DOMAIN s = 1 .. n /\ s \in Seq(Fds)
  <2>1. s \in Seq(S) /\ Len(s) = n BY <1>3, <1>6
  <2> QED BY <1>1, <1>6, <2>1, SeqMonotonic
<1>8. \A j, k \in 1 .. n : s[j] = s[k] => j = k
  <2> SUFFICES ASSUME NEW j \in 1 .. n, NEW k \in 1 .. n, s[j] = s[k] PROVE j = k OBVIOUS
  <2>1. s[j] \in Nat /\ s[k] \in Nat BY <1>1, <1>6
  <2>2. ~(j < k) BY <1>6, <1>7, <2>1
  <2>3. ~(k < j) BY <1>6, <1>7, <2>1
  <2> QED BY <1>3, <2>2, <2>3
<1>9. s \in Injection(1 .. n, S) BY <1>6, <1>8 DEF Injection, IsInjective
<1>10. IsFiniteSet(1 .. n) /\ Cardinality(1 .. n) = n
  <2>1. IsFiniteSet(1 .. n) /\ Cardinality(1 .. n) = IF 1 > n THEN 0 ELSE n - 1 + 1 BY <1>3, FS_Interval
  <2> QED BY <1>3, <2>1
<1>11. s \in Surjection(1 .. n, S)
  <2> HIDE DEF n
  <2>1. n = Cardinality(S) BY DEF n
  <2> QED BY <1>2, <1>9, <1>10, <2>1, FS_Injection
<1>12. {s[k] : k \in 1 .. n} = S BY <1>6, <1>11 DEF Surjection
<1> QED BY <1>3, <1>7, <1>8, <1>12 DEF s, S

(* The agenda of exit(). *)
LEMMA CloseAll ==
  ASSUME NEW n \in Nat, NEW g, g \in [1 .. n -> {<<"close", x>> : x \in Fds}],
         NEW u, Good(u), u # <<>>, u[1][1] = "begin_op", End(u) = "dead"
  PROVE  /\ Good(g \o u) /\ g \o u # <<>> /\ (g \o u)[1][1] \in {"close", "begin_op"} /\ End(g \o u) = "dead"
<1> DEFINE w == g \o u
<1>1. g \in Seq({<<"close", x>> : x \in Fds}) /\ Len(g) = n OBVIOUS
<1>2. IsList(g) BY <1>1, ListOf
<1>3. IsList(u) /\ Wf(u) BY DEF Good
<1>4. /\ IsList(w) /\ Len(w) = n + Len(u) /\ Len(u) \in Nat
      /\ \A k \in 1 .. n + Len(u) : w[k] = IF k <= n THEN g[k] ELSE u[k - n]
  BY <1>1, <1>2, <1>3, ConcatList
<1>5. Len(u) > 0 BY <1>3, TailList
<1>6. \A k \in 1 .. n : g[k][1] = "close" OBVIOUS
<1> HIDE DEF w
<1>7. w # <<>> BY <1>4, <1>5
<1>8. w[1][1] \in {"close", "begin_op"} BY <1>4, <1>5, <1>6
<1>9. End(w) = "dead"
  <2>1. w[Len(w)] = u[Len(u)] BY <1>4, <1>5
  <2>2. u[Len(u)][1] = "dead" BY DEF End
  <2> QED BY <1>7, <2>1, <2>2 DEF End
<1>10. ASSUME NEW k \in 1 .. Len(w)
       PROVE  IF k = Len(w) THEN w[k][1] \in MayEnd
              ELSE w[k + 1][1] \in After(w[k][1]) /\ (w[k][1] \in {"close", "end_op"} => End(w) = "dead")
  <2>1. CASE k < n
    <3>1. w[k][1] = "close" /\ w[k + 1][1] = "close" /\ k # Len(w) BY <1>4, <1>6, <2>1
    <3> QED BY <1>9, <3>1, AfterIs
  <2>2. CASE k = n
    <3>1. w[k] = g[k] /\ w[k + 1] = u[1] /\ k # Len(w) BY <1>4, <1>5, <2>2
    <3>2. w[k][1] = "close" /\ w[k + 1][1] = "begin_op" BY <1>6, <2>2, <3>1
    <3> QED BY <1>9, <3>1, <3>2, AfterIs
  <2>3. CASE k > n
    <3>1. PICK m : m = k - n OBVIOUS
    <3>2. m \in 1 .. Len(u) /\ w[k] = u[m] /\ (k = Len(w) <=> m = Len(u)) BY <1>4, <2>3, <3>1
    <3>3. m # Len(u) => w[k + 1] = u[m + 1] BY <1>4, <2>3, <3>1, <3>2
    <3>4. IF m = Len(u) THEN u[m][1] \in MayEnd
          ELSE u[m + 1][1] \in After(u[m][1]) /\ (u[m][1] \in {"close", "end_op"} => End(u) = "dead")
      BY <1>3, <3>2 DEF Wf
    <3> QED BY <1>9, <3>2, <3>3, <3>4
  <2> QED BY <1>4, <2>1, <2>2, <2>3
<1>11. Wf(w) BY <1>10 DEF Wf
<1> QED BY <1>4, <1>7, <1>8, <1>9, <1>11 DEF Good, w

(* begin_op() and what follows it. *)
InOp(s) == <<Item("begin_op")>> \o s

(* begin_op() before a path or an iput().                                  *)
LEMMA InOpGood ==
  ASSUME NEW s, Good(s), s # <<>>, s[1][1] \in {"namei", "nameiparent", "iput"}
  PROVE  EndsWith(InOp(s), "begin_op") /\ End(InOp(s)) = End(s) /\ InOp(s) = Push(Item("begin_op"), s)
<1>1. PICK a, w : a = Item("begin_op") /\ w = InOp(s) OBVIOUS
<1>2. a[1] = "begin_op" BY <1>1, Labels
<1>3. w = Push(a, s) BY <1>1 DEF InOp, Push
<1>4. Follows(a[1], s) BY <1>2, AfterIs DEF Follows
<1>5. Good(w) /\ w # <<>> /\ w[1] = a /\ End(w) = End(s) BY <1>3, <1>4, GoodPush
<1> QED BY <1>1, <1>2, <1>3, <1>5 DEF EndsWith

(* The agenda of every system call is well formed and begins outside an    *)
(* operation.                                                              *)
LEMMA AgendaGood ==
  ASSUME NEW p, NEW c, c.op \in SystemCalls
  PROVE  Good(Agenda(p, c)) /\ Agenda(p, c) # <<>> /\ Agenda(p, c)[1][1] \in Outside
<1>1. {"begin_op", "close", "dup", "read", "write", "fstat"} \subseteq Outside
      /\ {"link1", "unlink1", "open1", "chdir1", "open2", "mkdir", "dead", "close", "dup", "read", "write", "fstat"} \subseteq MayEnd
  BY DEF Outside, MayEnd
<1>2. ASSUME NEW x, NEW l \in {"link1", "open1", "chdir1"}
      PROVE  EndsWith(InOp(<< <<"namei", x>>, Item(l) >>), "begin_op")
  <2>1. PICK a, b : a = <<"namei", x>> /\ b = Item(l) OBVIOUS
  <2>2. a[1] = "namei" /\ b[1] = l BY <2>1, Labels
  <2>3. l \in After("namei") /\ l \in MayEnd BY <1>1, AfterIs
  <2>4. PICK s : s = <<a, b>> OBVIOUS
  <2>5. Good(s) /\ s # <<>> /\ s[1] = a BY <2>2, <2>3, <2>4, GoodTwo
  <2>6. EndsWith(InOp(s), "begin_op") BY <2>2, <2>5, InOpGood
  <2> QED BY <2>1, <2>4, <2>6
<1>3. ASSUME NEW x, NEW y, NEW l \in {"open2", "mkdir"}
      PROVE  EndsWith(InOp(<< <<"nameiparent", x>>, <<"create", y>>, Item(l) >>), "begin_op")
  <2>1. PICK a, b, d : a = <<"nameiparent", x>> /\ b = <<"create", y>> /\ d = Item(l) OBVIOUS
  <2>2. a[1] = "nameiparent" /\ b[1] = "create" /\ d[1] = l BY <2>1, Labels
  <2>3. "create" \in After("nameiparent") /\ l \in After("create") /\ l \in MayEnd BY <1>1, AfterIs
  <2>4. PICK s : s = <<a, b, d>> OBVIOUS
  <2>5. Good(s) /\ s # <<>> /\ s[1] = a BY <2>2, <2>3, <2>4, GoodThree
  <2>6. EndsWith(InOp(s), "begin_op") BY <2>2, <2>5, InOpGood
  <2> QED BY <2>1, <2>4, <2>6
<1>4. ASSUME NEW x PROVE EndsWith(InOp(<< <<"nameiparent", x>>, Item("unlink1") >>), "begin_op")
  <2>1. PICK a, b : a = <<"nameiparent", x>> /\ b = Item("unlink1") OBVIOUS
  <2>2. a[1] = "nameiparent" /\ b[1] = "unlink1" BY <2>1, Labels
  <2>3. "unlink1" \in After("nameiparent") /\ "unlink1" \in MayEnd BY <1>1, AfterIs
  <2>4. PICK s : s = <<a, b>> OBVIOUS
  <2>5. Good(s) /\ s # <<>> /\ s[1] = a BY <2>2, <2>3, <2>4, GoodTwo
  <2>6. EndsWith(InOp(s), "begin_op") BY <2>2, <2>5, InOpGood
  <2> QED BY <2>1, <2>4, <2>6
<1>5. CASE c.op \in {"link", "open", "chdir"}
  <2>1. PICK l \in {"link1", "open1", "chdir1"} : Agenda(p, c) = InOp(<< <<"namei", c.path>>, Item(l) >>)
    BY <1>5 DEF Agenda, InOp
  <2> QED BY <1>1, <1>2, <2>1 DEF EndsWith
<1>6. CASE c.op \in {"creat", "mkdir", "mknod"}
  <2>1. PICK y : \E l \in {"open2", "mkdir"} :
          Agenda(p, c) = InOp(<< <<"nameiparent", c.path>>, <<"create", y>>, Item(l) >>)
    BY <1>6 DEF Agenda, InOp
  <2> QED BY <1>1, <1>3, <2>1 DEF EndsWith
<1>7. CASE c.op = "unlink"
  <2>1. Agenda(p, c) = InOp(<< <<"nameiparent", c.path>>, Item("unlink1") >>) BY <1>7 DEF Agenda, InOp
  <2> QED BY <1>1, <1>4, <2>1 DEF EndsWith
<1>8. CASE c.op = "exit"
  <2>1. PICK s, n, g : /\ s = <<iput(cwd[p]), Item("dead")>> /\ n = Len(OpenFds(p))
                       /\ g = [k \in 1 .. n |-> <<"close", OpenFds(p)[k]>>]
    OBVIOUS
  <2>2. Agenda(p, c) = g \o InOp(s) BY <1>8, <2>1 DEF Agenda, InOp
  <2>3. Good(s) /\ s # <<>> /\ s[1][1] = "iput" /\ End(s) = "dead"
    <3>1. PICK a, b : a = iput(cwd[p]) /\ b = Item("dead") OBVIOUS
    <3>2. a[1] = "iput" /\ b[1] = "dead" BY <3>1, Labels
    <3>3. "dead" \in After("iput") /\ "dead" \in MayEnd BY <1>1, AfterIs
    <3>4. Good(<<a, b>>) /\ <<a, b>> # <<>> /\ <<a, b>>[1] = a /\ End(<<a, b>>) = b[1] BY <3>2, <3>3, GoodTwo
    <3> QED BY <2>1, <3>1, <3>2, <3>4
  <2>4. EndsWith(InOp(s), "begin_op") /\ End(InOp(s)) = "dead" BY <2>3, InOpGood
  <2>5. n \in Nat /\ g \in [1 .. n -> {<<"close", x>> : x \in Fds}]
    <3>1. OpenFds(p) \in Seq(Fds) /\ n \in Nat BY <2>1, OpenFdsIs
    <3>2. \A k \in 1 .. n : OpenFds(p)[k] \in Fds BY <2>1, <3>1
    <3> QED BY <2>1, <3>1, <3>2
  <2>6. Good(g \o InOp(s)) /\ g \o InOp(s) # <<>> /\ (g \o InOp(s))[1][1] \in {"close", "begin_op"}
    <3>1. PICK u : u = InOp(s) OBVIOUS
    <3>2. Good(u) /\ u # <<>> /\ u[1][1] = "begin_op" /\ End(u) = "dead" BY <2>4, <3>1 DEF EndsWith
    <3>3. Good(g \o u) /\ g \o u # <<>> /\ (g \o u)[1][1] \in {"close", "begin_op"} BY <2>5, <3>2, CloseAll
    <3> QED BY <3>1, <3>3
  <2> QED BY <1>1, <2>2, <2>6
<1>9. CASE c.op \in {"close", "dup", "read", "write", "fstat"}
  <2>1. Agenda(p, c) = << <<c.op, c.fd>> >> BY <1>9 DEF Agenda
  <2>2. PICK a : a = <<c.op, c.fd>> OBVIOUS
  <2>3. a[1] = c.op /\ c.op \in MayEnd BY <1>1, <1>9, <2>2
  <2>4. Good(<<a>>) /\ <<a>> # <<>> /\ <<a>>[1] = a BY <2>3, GoodOne
  <2> QED BY <1>1, <1>9, <2>1, <2>2, <2>3, <2>4
<1> QED BY <1>5, <1>6, <1>7, <1>8, <1>9 DEF SystemCalls

-----------------------------------------------------------------------------
(* Every step keeps the agendas.                                           *)

(* A step changes the agenda of its process, and whether it is in an       *)
(* operation.                                                              *)
LEMMA StepFrame ==
  ASSUME OpInv, NEW p \in Procs, Step(p)
  PROVE  /\ todo' = [q \in Procs |-> todo'[q]] /\ \A q \in Procs \ {p} : todo'[q] = todo[q]
         /\ op' \in {op, op \cup {p}, op \ {p}}
<1>1. (\E s : Only(p, s) \/ Then(p, s)) /\ op' \in {op, op \cup {p}, op \ {p}}
  <2>1. CASE Iput(p) \/ Ifree(p) \/ Deref(p) \/ Iunlock(p) \/ BeginOp(p) \/ EndOp(p)
    BY <2>1 DEF Iput, Ifree, Deref, Iunlock, BeginOp, EndOp, Return
  <2>2. CASE Namex(p) \/ Walk(p) \/ \E l \in {"link1", "unlink1", "mkdir", "open1", "open2", "chdir1"} : NoInode(p, l)
    BY <2>2 DEF Namex, Walk, NoInode
  <2>3. CASE Link1(p) \/ Link2(p) \/ LinkNoDir(p) \/ LinkBad(p) BY <2>3 DEF Link1, Link2, LinkNoDir, LinkBad
  <2>4. CASE Unlink1(p) \/ Unlink2(p) \/ Unlink3(p) BY <2>4 DEF Unlink1, Unlink2, Unlink3
  <2>5. CASE Create1(p) \/ CreateNoDir(p) \/ CreateExists(p) \/ ialloc(p) \/ CreateNew(p) \/ Mkdir(p)
    BY <2>5 DEF Create1, CreateNoDir, CreateExists, ialloc, CreateNew, Mkdir
  <2>6. CASE Open1(p) \/ Open2(p) \/ Chdir1(p) \/ Chdir2(p) \/ Dead(p)
    BY <2>6 DEF Open1, Open2, Chdir1, Chdir2, Dead, Return
  <2>7. CASE BadFd(p) \/ Fileclose(p) \/ Dup(p) \/ Read(p) \/ Fstat(p) \/ Write(p) \/ Writei(p)
    BY <2>7 DEF BadFd, Fileclose, Dup, Read, Fstat, Write, Writei, Return
  <2> QED BY <2>1, <2>2, <2>3, <2>4, <2>5, <2>6, <2>7 DEF Step
<1>2. PICK s : Only(p, s) \/ Then(p, s) BY <1>1
<1> QED BY <1>1, <1>2, OnlyIs, ThenIs

(* Every step of a process keeps its agenda well formed.                   *)
LEMMA StepAgenda ==
  ASSUME OpInv, NEW p \in Procs, Step(p) PROVE AgendaOk(todo'[p], p \in op')
<1>1. todo[p] # <<>> BY DEF Step
<1>2. CASE Iput(p) \/ Ifree(p) \/ Deref(p) \/ Iunlock(p) \/ BeginOp(p) \/ EndOp(p) BY <1>1, <1>2, PopSteps
<1>3. CASE Namex(p) \/ Walk(p) \/ \E l \in {"link1", "unlink1", "mkdir", "open1", "open2", "chdir1"} : NoInode(p, l)
  BY <1>1, <1>3, PathSteps
<1>4. CASE Link1(p) \/ Link2(p) \/ LinkNoDir(p) \/ LinkBad(p) BY <1>1, <1>4, LinkSteps
<1>5. CASE Unlink1(p) \/ Unlink2(p) \/ Unlink3(p) BY <1>1, <1>5, UnlinkSteps
<1>6. CASE Create1(p) \/ CreateNoDir(p) \/ CreateExists(p) \/ ialloc(p) \/ CreateNew(p) \/ Mkdir(p)
  BY <1>1, <1>6, CreateSteps
<1>7. CASE Open1(p) \/ Open2(p) \/ Chdir1(p) \/ Chdir2(p) \/ Dead(p) BY <1>1, <1>7, OpenSteps
<1>8. CASE BadFd(p) \/ Fileclose(p) \/ Dup(p) \/ Read(p) \/ Fstat(p) \/ Write(p) \/ Writei(p) BY <1>1, <1>8, FdSteps
<1> QED BY <1>2, <1>3, <1>4, <1>5, <1>6, <1>7, <1>8 DEF Step

(* No process is in a system call at first.                                *)
LEMMA OpStart == ASSUME FInit PROVE OpInv
<1>1. /\ todo = [p \in Procs |-> <<>>] /\ op = {} BY DEF FInit, InitWith
<1>2. ASSUME NEW p \in Procs PROVE AgendaOk(todo[p], p \in op)
  <2>1. todo[p] = <<>> /\ p \notin op BY <1>1
  <2> QED BY <2>1, EmptyGood DEF AgendaOk
<1> QED BY <1>1, <1>2 DEF OpInv

(* System calls, their steps, fork() and wait() keep the agendas well      *)
(* formed.                                                                 *)
LEMMA OpStep == ASSUME OpInv, [FNext]_vars PROVE OpInv'
<1>1. CASE UNCHANGED vars BY <1>1 DEF OpInv, AgendaOk, vars
<1>2. ASSUME NEW p \in Procs, NEW c, c.op \in SystemCalls, Syscall(p, c) PROVE OpInv'
  <2>1. Only(p, Agenda(p, c)) /\ op' = op /\ todo[p] = <<>> BY <1>2 DEF Syscall
  <2>2. PICK s : s = Agenda(p, c) OBVIOUS
  <2>3. Good(s) /\ s # <<>> /\ s[1][1] \in Outside BY <1>2, <2>2, AgendaGood
  <2>4. todo'[p] = s /\ todo' = [q \in Procs |-> todo'[q]] /\ \A q \in Procs \ {p} : todo'[q] = todo[q]
    BY <2>1, <2>2, OnlyIs
  <2>5. p \notin op BY <2>1 DEF OpInv, AgendaOk
  <2>6. \A q \in Procs : AgendaOk(todo'[q], q \in op')
    <3> SUFFICES ASSUME NEW q \in Procs PROVE AgendaOk(todo'[q], q \in op') OBVIOUS
    <3>1. CASE q = p BY <2>1, <2>3, <2>4, <2>5, <3>1 DEF AgendaOk
    <3>2. CASE q # p
      <4>1. AgendaOk(todo[q], q \in op) BY DEF OpInv
      <4> QED BY <2>1, <2>4, <3>2, <4>1
    <3> QED BY <3>1, <3>2
  <2> QED BY <2>1, <2>4, <2>6 DEF OpInv
<1>3. ASSUME NEW p \in Procs, (\E q \in Procs : Fork(p, q)) \/ Waited(p) \/ Panic(p) PROVE OpInv'
  <2>1. todo' = todo /\ op' = op BY <1>3 DEF Fork, Waited, Panic
  <2> QED BY <2>1 DEF OpInv, AgendaOk
<1>4. ASSUME NEW p \in Procs, Step(p) PROVE OpInv'
  <2>1. /\ todo' = [q \in Procs |-> todo'[q]] /\ \A q \in Procs \ {p} : todo'[q] = todo[q]
        /\ op' \in {op, op \cup {p}, op \ {p}}
    BY <1>4, StepFrame
  <2>2. AgendaOk(todo'[p], p \in op') BY <1>4, StepAgenda
  <2>3. ASSUME NEW q \in Procs, q # p PROVE AgendaOk(todo'[q], q \in op')
    <3>1. AgendaOk(todo[q], q \in op) BY DEF OpInv
    <3>2. todo'[q] = todo[q] /\ (q \in op' <=> q \in op) BY <2>1, <2>3
    <3> QED BY <3>1, <3>2 DEF AgendaOk
  <2>4. op' \subseteq Procs BY <2>1 DEF OpInv
  <2> QED BY <2>1, <2>2, <2>3, <2>4 DEF OpInv
<1> QED BY <1>1, <1>2, <1>3, <1>4 DEF FNext

(* A process is between begin_op() and end_op() exactly when the next      *)
(* item of its agenda is one that needs it.                                *)
THEOREM Operations == FSpec => []OpInv
<1>1. FInit => OpInv BY OpStart
<1>2. OpInv /\ [FNext]_vars => OpInv' BY OpStep
<1> QED BY <1>1, <1>2, PTL DEF FSpec

(* The disk changes only in a step of a process inside an operation of the *)
(* log: every path through sysfile.c, error returns and exit() included,   *)
(* is between begin_op() and end_op() when it comes to write.              *)
THEOREM DiskInsideOperation == FSpec => InsideOperation
<1>1. ASSUME OpInv, [FNext]_vars
      PROVE  [\A p \in Procs : todo'[p] # todo[p] /\ dinode' # dinode => p \in op]_vars
  <2> SUFFICES ASSUME FNext, NEW p \in Procs, todo'[p] # todo[p], dinode' # dinode PROVE p \in op
    BY <1>1
  <2>1. PICK q \in Procs : Step(q) BY DEF FNext, Syscall, Fork, Waited, Panic, fsvars
  <2>2. \A r \in Procs \ {q} : todo'[r] = todo[r] BY <1>1, <2>1, StepFrame
  <2>3. p = q BY <2>2
  <2>4. Label(q) \in {"ifree", "link1", "link2", "linkbad", "unlink2", "unlink3", "ialloc", "newinode", "writei"}
    <3>1. CASE Iput(q) \/ Ifree(q) \/ Deref(q) \/ Iunlock(q) \/ BeginOp(q) \/ EndOp(q)
      BY <3>1 DEF Iput, Ifree, Deref, Iunlock, BeginOp, EndOp, fsvars
    <3>2. CASE Namex(q) \/ Walk(q) \/ \E l \in {"link1", "unlink1", "mkdir", "open1", "open2", "chdir1"} : NoInode(q, l)
      BY <3>2 DEF Namex, Walk, NoInode, fsvars
    <3>3. CASE Link1(q) \/ Link2(q) \/ LinkNoDir(q) \/ LinkBad(q) BY <3>3 DEF Link1, Link2, LinkNoDir, LinkBad, fsvars
    <3>4. CASE Unlink1(q) \/ Unlink2(q) \/ Unlink3(q) BY <3>4 DEF Unlink1, Unlink2, Unlink3
    <3>5. CASE Create1(q) \/ CreateNoDir(q) \/ CreateExists(q) \/ ialloc(q) \/ CreateNew(q) \/ Mkdir(q)
      BY <3>5 DEF Create1, CreateNoDir, CreateExists, ialloc, CreateNew, Mkdir, fsvars
    <3>6. CASE Open1(q) \/ Open2(q) \/ Chdir1(q) \/ Chdir2(q) \/ Dead(q)
      BY <3>6 DEF Open1, Open2, Chdir1, Chdir2, Dead, fsvars
    <3>7. CASE BadFd(q) \/ Fileclose(q) \/ Dup(q) \/ Read(q) \/ Fstat(q) \/ Write(q) \/ Writei(q)
      BY <3>7 DEF BadFd, Fileclose, Dup, Read, Fstat, Write, Writei, fsvars
    <3> QED BY <2>1, <3>1, <3>2, <3>3, <3>4, <3>5, <3>6, <3>7 DEF Step
  <2>5. todo[q] # <<>> BY <2>1 DEF Step
  <2>6. q \in op <=> Label(q) \notin Outside BY <1>1, <2>5, Popped
  <2> QED BY <2>3, <2>4, <2>6 DEF Outside
<1> QED BY <1>1, Operations, PTL DEF FSpec, InsideOperation

-----------------------------------------------------------------------------
(* The cache of inodes and the inodes on disk.                             *)

(* A cached inode has all its fields; one that is valid is not free and is *)
(* the one on disk.                                                        *)
Whole(n)   == n = [ref |-> n.ref, lock |-> n.lock, valid |-> n.valid,
                   type |-> n.type, nlink |-> n.nlink, data |-> n.data]
Fits(n, d) == Whole(n) /\ (n.valid => n.type # T_FREE /\ OnDisk(n) = d)
Coherent(c, e) ==
    /\ c = [i \in Inums |-> c[i]] /\ e = [i \in Inums |-> e[i]]
    /\ \A i \in Inums : e[i] = OnDisk(e[i]) /\ Fits(c[i], e[i])
CacheInv == Coherent(inode, dinode)

(* The step can lock the inode it wants, so its type is not free.          *)
LEMMA NoInode0 == None \notin Inums
BY DEF None, Inums

(* ilock() leaves the cached inode as it is on disk; its type is not free, *)
(* or ilock() would have panicked.                                         *)
LEMMA LockedFits ==
  ASSUME CacheInv, NEW p \in Procs, Step(p), NEW i \in Inums, i = Wants(p), Label(p) # "iput"
  PROVE  Fits(Ilocked(i), dinode[i]) /\ Ilocked(i).type # T_FREE
<1>1. i # None BY NoInode0
<1>2. ~(Ilocked(i).type = T_FREE /\ ~inode[i].valid) BY <1>1 DEF Step, Panics, NoType
<1>3. dinode[i] = OnDisk(dinode[i]) /\ Fits(inode[i], dinode[i]) BY DEF CacheInv, Coherent
<1>4. CASE inode[i].valid
  <2>1. Ilocked(i) = inode[i] BY <1>4 DEF Ilocked
  <2> QED BY <1>3, <1>4, <2>1 DEF Fits
<1>5. CASE ~inode[i].valid
  <2>1. PICK n, d, m : n = inode[i] /\ d = dinode[i] /\ m = Ilocked(i) OBVIOUS
  <2>2. m = [n EXCEPT !.valid = TRUE, !.type = d.type, !.nlink = d.nlink, !.data = d.data]
    BY <1>5, <2>1 DEF Ilocked
  <2>3. n = [ref |-> n.ref, lock |-> n.lock, valid |-> n.valid,
             type |-> n.type, nlink |-> n.nlink, data |-> n.data] BY <1>3, <2>1 DEF Fits, Whole
  <2>4. m = [ref |-> n.ref, lock |-> n.lock, valid |-> TRUE,
             type |-> d.type, nlink |-> d.nlink, data |-> d.data] BY <2>2, <2>3
  <2>5. Whole(m) /\ OnDisk(m) = OnDisk(d) /\ m.type = d.type BY <2>4 DEF Whole, OnDisk
  <2>6. m.type # T_FREE BY <1>2, <1>5, <2>1
  <2> QED BY <1>3, <2>1, <2>5, <2>6 DEF Fits
<1> QED BY <1>4, <1>5

(* A cached inode is replaced by another that fits the one on disk.        *)
LEMMA PutCached ==
  ASSUME NEW c, NEW e, Coherent(c, e), NEW i, NEW m, i \in Inums => Fits(m, e[i])
  PROVE  Coherent([c EXCEPT ![i] = m], e)
<1>1. PICK b : b = [c EXCEPT ![i] = m] OBVIOUS
<1>2. c = [j \in Inums |-> c[j]] BY DEF Coherent
<1>3. b = [j \in Inums |-> b[j]] /\ \A j \in Inums : b[j] = IF j = i THEN m ELSE c[j] BY <1>1, <1>2
<1>4. \A j \in Inums : Fits(b[j], e[j]) BY <1>3 DEF Coherent
<1>5. Coherent(b, e) BY <1>3, <1>4 DEF Coherent
<1> QED BY <1>1, <1>5

(* An inode is changed in the cache and on disk.                           *)
LEMMA PutBoth ==
  ASSUME NEW c, NEW e, Coherent(c, e), NEW i, NEW m,
         i \in Inums => Whole(m) /\ (m.valid => m.type # T_FREE)
  PROVE  Coherent([c EXCEPT ![i] = m], [e EXCEPT ![i] = OnDisk(m)])
<1>1. PICK b, h : b = [c EXCEPT ![i] = m] /\ h = [e EXCEPT ![i] = OnDisk(m)] OBVIOUS
<1>2. c = [j \in Inums |-> c[j]] /\ e = [j \in Inums |-> e[j]] BY DEF Coherent
<1>3. b = [j \in Inums |-> b[j]] /\ \A j \in Inums : b[j] = IF j = i THEN m ELSE c[j] BY <1>1, <1>2
<1>4. h = [j \in Inums |-> h[j]] /\ \A j \in Inums : h[j] = IF j = i THEN OnDisk(m) ELSE e[j] BY <1>1, <1>2
<1>5. ASSUME NEW j \in Inums PROVE h[j] = OnDisk(h[j]) /\ Fits(b[j], h[j])
  <2>1. CASE j = i
    <3>1. b[j] = m /\ h[j] = OnDisk(m) BY <1>3, <1>4, <2>1
    <3>2. OnDisk(OnDisk(m)) = OnDisk(m) BY DEF OnDisk
    <3> QED BY <2>1, <3>1, <3>2 DEF Fits
  <2>2. CASE j # i
    <3>1. b[j] = c[j] /\ h[j] = e[j] BY <1>3, <1>4, <2>2
    <3> QED BY <3>1 DEF Coherent
  <2> QED BY <2>1, <2>2
<1>6. Coherent(b, h) BY <1>3, <1>4, <1>5 DEF Coherent
<1> QED BY <1>1, <1>6

(* iget() and idup() at most make a cached inode invalid.                  *)
LEMMA GetCached ==
  ASSUME NEW c, NEW e, Coherent(c, e), NEW i PROVE Coherent(IgetIn(c, i), e)
<1>1. CASE i = None \/ i \notin Inums
  <2>1. c = [j \in Inums |-> c[j]] BY DEF Coherent
  <2>2. IgetIn(c, i) = c BY <1>1, <2>1 DEF IgetIn
  <2> QED BY <2>2
<1>2. CASE i # None /\ i \in Inums
  <2>1. PICK n, m : n = c[i] /\ m = [n EXCEPT !.ref = @ + 1, !.valid = @ /\ n.ref > 0] OBVIOUS
  <2>2. c = [j \in Inums |-> c[j]] BY DEF Coherent
  <2>3. IgetIn(c, i) = [c EXCEPT ![i] = m] BY <1>2, <2>1, <2>2 DEF IgetIn
  <2>4. Fits(n, e[i]) BY <1>2, <2>1 DEF Coherent
  <2>5. n = [ref |-> n.ref, lock |-> n.lock, valid |-> n.valid,
             type |-> n.type, nlink |-> n.nlink, data |-> n.data] BY <2>4 DEF Fits, Whole
  <2>6. m = [ref |-> n.ref + 1, lock |-> n.lock, valid |-> n.valid /\ n.ref > 0,
             type |-> n.type, nlink |-> n.nlink, data |-> n.data] BY <2>1, <2>5
  <2>7. Whole(m) /\ OnDisk(m) = OnDisk(n) /\ m.type = n.type /\ (m.valid => n.valid) BY <2>6 DEF Whole, OnDisk
  <2>8. Fits(m, e[i]) BY <2>4, <2>7 DEF Fits
  <2>9. Coherent([c EXCEPT ![i] = m], e) BY <2>8, PutCached
  <2> QED BY <2>3, <2>9
<1> QED BY <1>1, <1>2

(* Who holds the lock, and how many references there are, is not on disk.  *)
LEMMA SameFits ==
  ASSUME NEW n, NEW d, Fits(n, d), NEW x
  PROVE  Fits([n EXCEPT !.lock = x], d) /\ Fits([n EXCEPT !.ref = x], d)
<1>1. n = [ref |-> n.ref, lock |-> n.lock, valid |-> n.valid,
           type |-> n.type, nlink |-> n.nlink, data |-> n.data] BY DEF Fits, Whole
<1>2. PICK a, b : a = [n EXCEPT !.lock = x] /\ b = [n EXCEPT !.ref = x] OBVIOUS
<1>3. a = [ref |-> n.ref, lock |-> x, valid |-> n.valid,
           type |-> n.type, nlink |-> n.nlink, data |-> n.data] BY <1>1, <1>2
<1>4. b = [ref |-> x, lock |-> n.lock, valid |-> n.valid,
           type |-> n.type, nlink |-> n.nlink, data |-> n.data] BY <1>1, <1>2
<1>5. Whole(a) /\ OnDisk(a) = OnDisk(n) /\ a.type = n.type /\ a.valid = n.valid BY <1>3 DEF Whole, OnDisk
<1>6. Whole(b) /\ OnDisk(b) = OnDisk(n) /\ b.type = n.type /\ b.valid = n.valid BY <1>4 DEF Whole, OnDisk
<1> QED BY <1>2, <1>5, <1>6 DEF Fits

(* A change of the link count or of the content of an inode in use.        *)
LEMMA ChangedWhole ==
  ASSUME NEW n, Whole(n), NEW x
  PROVE  /\ LET m == [n EXCEPT !.nlink = x] IN Whole(m) /\ m.type = n.type /\ m.valid = n.valid
         /\ LET m == [n EXCEPT !.data = x]  IN Whole(m) /\ m.type = n.type /\ m.valid = n.valid
         /\ LET m == [n EXCEPT !.lock = x]  IN Whole(m) /\ m.type = n.type /\ m.valid = n.valid
<1>1. n = [ref |-> n.ref, lock |-> n.lock, valid |-> n.valid,
           type |-> n.type, nlink |-> n.nlink, data |-> n.data] BY DEF Whole
<1>2. PICK a, b, h : a = [n EXCEPT !.nlink = x] /\ b = [n EXCEPT !.data = x] /\ h = [n EXCEPT !.lock = x] OBVIOUS
<1>3. a = [ref |-> n.ref, lock |-> n.lock, valid |-> n.valid,
           type |-> n.type, nlink |-> x, data |-> n.data] BY <1>1, <1>2
<1>4. b = [ref |-> n.ref, lock |-> n.lock, valid |-> n.valid,
           type |-> n.type, nlink |-> n.nlink, data |-> x] BY <1>1, <1>2
<1>5. h = [ref |-> n.ref, lock |-> x, valid |-> n.valid,
           type |-> n.type, nlink |-> n.nlink, data |-> n.data] BY <1>1, <1>2
<1>6. Whole(a) /\ a.type = n.type /\ a.valid = n.valid BY <1>3 DEF Whole
<1>7. Whole(b) /\ b.type = n.type /\ b.valid = n.valid BY <1>4 DEF Whole
<1>8. Whole(h) /\ h.type = n.type /\ h.valid = n.valid BY <1>5 DEF Whole
<1> QED BY <1>2, <1>6, <1>7, <1>8

(* The entries of a directory are its content.                             *)
LEMMA EntryIs ==
  ASSUME NEW n, NEW s, NEW i
  PROVE  /\ \E x : WithEntry(n, s, i) = [n EXCEPT !.data = x]
         /\ \E x : WithoutEntry(n, s) = [n EXCEPT !.data = x]
BY DEF WithEntry, WithoutEntry

(* A cached inode that is valid is in use.                                 *)
InUse(n) == Whole(n) /\ (n.valid => n.type # T_FREE)

(* An inode in use stays one when its link count, its content or the       *)
(* holder of its lock changes.                                             *)
LEMMA StaysInUse ==
  ASSUME NEW n, InUse(n), NEW x
  PROVE  InUse([n EXCEPT !.nlink = x]) /\ InUse([n EXCEPT !.data = x]) /\ InUse([n EXCEPT !.lock = x])
BY ChangedWhole DEF InUse

(* A directory in use stays one with an entry more or less.                *)
LEMMA EntryInUse ==
  ASSUME NEW n, InUse(n), NEW s, NEW i
  PROVE  InUse(WithEntry(n, s, i)) /\ InUse(WithoutEntry(n, s))
<1>1. PICK x : WithEntry(n, s, i) = [n EXCEPT !.data = x] BY EntryIs
<1>2. PICK y : WithoutEntry(n, s) = [n EXCEPT !.data = y] BY EntryIs
<1>3. InUse([n EXCEPT !.data = x]) BY StaysInUse
<1>4. InUse([n EXCEPT !.data = y]) BY StaysInUse
<1> QED BY <1>1, <1>2, <1>3, <1>4

(* iput(), iunlock() and the end of iput() change only the lock and the    *)
(* reference count; what iput() frees is not valid afterwards.             *)
LEMMA PutSteps ==
  ASSUME CacheInv, NEW p, Iput(p) \/ Ifree(p) \/ Deref(p) \/ Iunlock(p) PROVE CacheInv'
<1>1. PICK i : i = Arg(p) OBVIOUS
<1>2. inode = [j \in Inums |-> inode[j]] BY DEF CacheInv, Coherent
<1>3. PICK n : n = inode[i] OBVIOUS
<1>4. i \in Inums => Fits(n, dinode[i]) BY <1>3 DEF CacheInv, Coherent
<1>5. ASSUME NEW m, i \in Inums => Fits(m, dinode[i]), inode' = [inode EXCEPT ![i] = m], dinode' = dinode PROVE CacheInv'
  <2>1. Coherent([inode EXCEPT ![i] = m], dinode) BY <1>5, PutCached DEF CacheInv
  <2> QED BY <1>5, <2>1 DEF CacheInv
<1>6. CASE Iput(p) /\ inode' = [inode EXCEPT ![i].lock = p]
  <2>1. PICK m : m = [n EXCEPT !.lock = p] OBVIOUS
  <2>2. inode' = [inode EXCEPT ![i] = m] /\ dinode' = dinode BY <1>2, <1>3, <1>6, <2>1 DEF Iput
  <2> QED BY <1>4, <1>5, <2>1, <2>2, SameFits
<1>7. CASE Iput(p) /\ UNCHANGED inode BY <1>7 DEF Iput, CacheInv
<1>8. CASE Deref(p)
  <2>1. PICK m : m = [n EXCEPT !.ref = n.ref - 1] OBVIOUS
  <2>2. inode' = [inode EXCEPT ![i] = m] /\ dinode' = dinode BY <1>1, <1>2, <1>3, <1>8, <2>1 DEF Deref
  <2> QED BY <1>4, <1>5, <2>1, <2>2, SameFits
<1>9. CASE Iunlock(p)
  <2>1. PICK m : m = [n EXCEPT !.lock = None] OBVIOUS
  <2>2. inode' = [inode EXCEPT ![i] = m] /\ dinode' = dinode BY <1>1, <1>2, <1>3, <1>9, <2>1 DEF Iunlock
  <2> QED BY <1>4, <1>5, <2>1, <2>2, SameFits
<1>10. CASE Ifree(p)
  <2>1. PICK m : m = [n EXCEPT !.lock = None, !.valid = FALSE, !.type = T_FREE, !.data = <<>>] OBVIOUS
  <2>2. inode' = [inode EXCEPT ![i] = m] /\ dinode' = [dinode EXCEPT ![i] = FreeInode]
    BY <1>1, <1>3, <1>10, <2>1 DEF Ifree
  <2>3. CASE i \in Inums
    <3>1. n = [ref |-> n.ref, lock |-> n.lock, valid |-> n.valid,
               type |-> n.type, nlink |-> n.nlink, data |-> n.data] BY <1>4, <2>3 DEF Fits, Whole
    <3>2. m = [ref |-> n.ref, lock |-> None, valid |-> FALSE,
               type |-> T_FREE, nlink |-> n.nlink, data |-> <<>>] BY <2>1, <3>1
    <3>3. Whole(m) /\ ~m.valid BY <3>2 DEF Whole
    <3>4. dinode = [j \in Inums |-> dinode[j]] BY DEF CacheInv, Coherent
    <3>5. PICK b, e : b = inode' /\ e = dinode' OBVIOUS
    <3>6. /\ b = [j \in Inums |-> b[j]] /\ \A j \in Inums : b[j] = IF j = i THEN m ELSE inode[j]
      BY <1>2, <2>2, <3>5
    <3>7. /\ e = [j \in Inums |-> e[j]] /\ \A j \in Inums : e[j] = IF j = i THEN FreeInode ELSE dinode[j]
      BY <2>2, <3>4, <3>5
    <3>8. FreeInode = OnDisk(FreeInode) BY DEF FreeInode, OnDisk
    <3>9. ASSUME NEW j \in Inums PROVE e[j] = OnDisk(e[j]) /\ Fits(b[j], e[j])
      <4>1. CASE j = i BY <3>3, <3>6, <3>7, <3>8, <4>1 DEF Fits
      <4>2. CASE j # i
        <5>1. b[j] = inode[j] /\ e[j] = dinode[j] BY <3>6, <3>7, <4>2
        <5> QED BY <5>1 DEF CacheInv, Coherent
      <4> QED BY <4>1, <4>2
    <3> QED BY <3>5, <3>6, <3>7, <3>9 DEF CacheInv, Coherent
  <2>4. CASE i \notin Inums
    <3>1. inode' = inode BY <1>2, <2>2, <2>4
    <3>2. dinode = [j \in Inums |-> dinode[j]] BY DEF CacheInv, Coherent
    <3>3. dinode' = dinode BY <2>2, <2>4, <3>2
    <3> QED BY <3>1, <3>3 DEF CacheInv
  <2> QED BY <2>3, <2>4
<1>11. Iput(p) => inode' = [inode EXCEPT ![i].lock = p] \/ UNCHANGED inode BY <1>1 DEF Iput
<1> QED BY <1>6, <1>7, <1>8, <1>9, <1>10, <1>11

(* A step that locks the inode it wants and reads: it may keep the lock,   *)
(* and may get a reference to an inode.  A step that changes an inode in   *)
(* the cache and on disk.                                                  *)
Looked(p) ==
    /\ UNCHANGED dinode /\ Label(p) # "iput"
    /\ \E m \in {Ilocked(Wants(p)), Hold(Ilocked(Wants(p)), p)} :
         \/ inode' = [inode EXCEPT ![Wants(p)] = m]
         \/ \E j : inode' = IgetIn([inode EXCEPT ![Wants(p)] = m], j)
Wrote(i, m) ==
    /\ i \in Inums => InUse(m)
    /\ inode' = [inode EXCEPT ![i] = m] /\ dinode' = [dinode EXCEPT ![i] = OnDisk(m)]

(* The inode as ilock() leaves it, with the lock kept or not.              *)
LEMMA WantedFits ==
  ASSUME CacheInv, NEW p \in Procs, Step(p), NEW i, i = Wants(p), i \in Inums, Label(p) # "iput"
  PROVE  /\ Fits(Ilocked(i), dinode[i]) /\ Fits(Hold(Ilocked(i), p), dinode[i])
         /\ InUse(Ilocked(i)) /\ InUse(Hold(Ilocked(i), p))
<1>1. Fits(Ilocked(i), dinode[i]) /\ Ilocked(i).type # T_FREE BY LockedFits
<1>2. PICK m : m = Ilocked(i) OBVIOUS
<1>3. Fits(Hold(m, p), dinode[i]) BY <1>1, <1>2, SameFits DEF Hold
<1>4. InUse(m) BY <1>1, <1>2 DEF InUse, Fits
<1>5. InUse(Hold(m, p)) BY <1>4, StaysInUse DEF Hold
<1> QED BY <1>1, <1>2, <1>3, <1>4, <1>5

(* A step that reads keeps the cache coherent.                             *)
LEMMA LookedOk ==
  ASSUME CacheInv, NEW p \in Procs, Step(p), Looked(p) PROVE CacheInv'
<1>1. PICK i : i = Wants(p) OBVIOUS
<1>2. PICK m \in {Ilocked(i), Hold(Ilocked(i), p)} :
         \/ inode' = [inode EXCEPT ![i] = m]
         \/ \E j : inode' = IgetIn([inode EXCEPT ![i] = m], j)
  BY <1>1 DEF Looked
<1>3. i \in Inums => Fits(m, dinode[i]) BY <1>1, <1>2, WantedFits DEF Looked
<1>4. Coherent([inode EXCEPT ![i] = m], dinode) BY <1>3, PutCached DEF CacheInv
<1>5. \A j : Coherent(IgetIn([inode EXCEPT ![i] = m], j), dinode) BY <1>4, GetCached
<1> QED BY <1>2, <1>4, <1>5 DEF Looked, CacheInv

(* A step that changes cache and disk alike keeps the cache coherent.      *)
LEMMA WroteOk ==
  ASSUME CacheInv, NEW i, NEW m, Wrote(i, m) PROVE CacheInv'
<1>1. i \in Inums => Whole(m) /\ (m.valid => m.type # T_FREE) BY DEF Wrote, InUse
<1>2. Coherent([inode EXCEPT ![i] = m], [dinode EXCEPT ![i] = OnDisk(m)]) BY <1>1, PutBoth DEF CacheInv
<1> QED BY <1>2 DEF Wrote, CacheInv

(* A cached inode is in use, or not valid. *)
LEMMA CachedInUse ==
  ASSUME CacheInv, NEW i \in Inums PROVE InUse(inode[i])
<1>1. Fits(inode[i], dinode[i]) BY DEF CacheInv, Coherent
<1> QED BY <1>1 DEF InUse, Fits

(* namex(), create() and the system calls on a path, as far as they look.  *)
LEMMA LookSteps ==
  ASSUME NEW p, NEW ip, ip = reg[p].ip,
         \/ Walk(p) \/ Unlink1(p) \/ Create1(p) \/ CreateExists(p) \/ Open1(p) \/ Chdir1(p)
         \/ Link1(p) /\ IsDir(Ilocked(ip))
         \/ Link2(p) /\ dirlookup(Ilocked(ip), reg[p].name) # None
         \/ Unlink2(p) /\ IsDir(Ilocked(ip)) /\ ~isdirempty(Ilocked(ip))
  PROVE  Looked(p)
<1>1. Label(p) \in {"walk", "unlink1", "create", "exists", "open1", "chdir1", "link1", "link2", "unlink2"}
  BY DEF Walk, Unlink1, Create1, CreateExists, Open1, Chdir1, Link1, Link2, Unlink2
<1>2. Wants(p) = ip BY <1>1 DEF Wants
<1>3. Label(p) # "iput" BY <1>1
<1>4. CASE Walk(p) BY <1>2, <1>3, <1>4 DEF Walk, Looked
<1>5. CASE Unlink1(p)
  <2>1. dinode' = dinode BY <1>5 DEF Unlink1
  <2>2. \/ inode' = [inode EXCEPT ![ip] = Ilocked(ip)]
        \/ \E j : inode' = IgetIn([inode EXCEPT ![ip] = Hold(Ilocked(ip), p)], j)
    BY <1>5 DEF Unlink1
  <2> QED BY <1>2, <1>3, <2>1, <2>2 DEF Looked
<1>6. CASE Create1(p)
  <2>1. dinode' = dinode BY <1>6 DEF Create1
  <2>2. \/ inode' = [inode EXCEPT ![ip] = Hold(Ilocked(ip), p)]
        \/ \E j : inode' = IgetIn([inode EXCEPT ![ip] = Ilocked(ip)], j)
    BY <1>6 DEF Create1
  <2> QED BY <1>2, <1>3, <2>1, <2>2 DEF Looked
<1>7. CASE CreateExists(p)
  <2>1. dinode' = dinode BY <1>7 DEF CreateExists
  <2>2. \/ inode' = [inode EXCEPT ![ip] = Hold(Ilocked(ip), p)]
        \/ inode' = [inode EXCEPT ![ip] = Ilocked(ip)]
    BY <1>7 DEF CreateExists
  <2> QED BY <1>2, <1>3, <2>1, <2>2 DEF Looked
<1>8. CASE Open1(p)
  <2>1. dinode' = dinode BY <1>8 DEF Open1
  <2>2. \/ inode' = [inode EXCEPT ![ip] = Hold(Ilocked(ip), p)]
        \/ inode' = [inode EXCEPT ![ip] = Ilocked(ip)]
    BY <1>8 DEF Open1
  <2> QED BY <1>2, <1>3, <2>1, <2>2 DEF Looked
<1>9. CASE Chdir1(p) BY <1>2, <1>3, <1>9 DEF Chdir1, Looked
<1>10. CASE Link1(p) /\ IsDir(Ilocked(ip)) BY <1>2, <1>3, <1>10 DEF Link1, Looked
<1>11. CASE Link2(p) /\ dirlookup(Ilocked(ip), reg[p].name) # None BY <1>2, <1>3, <1>11 DEF Link2, Looked
<1>12. CASE Unlink2(p) /\ IsDir(Ilocked(ip)) /\ ~isdirempty(Ilocked(ip)) BY <1>2, <1>3, <1>12 DEF Unlink2, Looked
<1> QED BY <1>4, <1>5, <1>6, <1>7, <1>8, <1>9, <1>10, <1>11, <1>12

(* sys_link(): the link count, then the entry, or the count again.         *)
LEMMA LinkWrites ==
  ASSUME CacheInv, NEW p \in Procs, Step(p), Link1(p) \/ Link2(p) \/ LinkBad(p)
  PROVE  CacheInv'
<1>1. PICK ip : ip = IF LinkBad(p) THEN reg[p].old ELSE reg[p].ip OBVIOUS
<1>2. Label(p) \in {"link1", "link2", "linkbad"} /\ (LinkBad(p) <=> Label(p) = "linkbad")
  BY DEF Link1, Link2, LinkBad
<1>3. Wants(p) = ip /\ Label(p) # "iput" BY <1>1, <1>2 DEF Wants
<1>4. PICK n : n = Ilocked(ip) OBVIOUS
<1>5. ip \in Inums => InUse(n) BY <1>3, <1>4, WantedFits
<1>6. CASE Link1(p) /\ ~IsDir(n)
  <2>1. ip = reg[p].ip BY <1>1, <1>2, <1>6 DEF Link1
  <2>2. PICK m : m = [n EXCEPT !.nlink = n.nlink + 1] OBVIOUS
  <2>3. inode' = [inode EXCEPT ![ip] = m] /\ dinode' = [dinode EXCEPT ![ip] = OnDisk(m)]
    BY <1>4, <1>6, <2>1, <2>2 DEF Link1
  <2>4. ip \in Inums => InUse(m) BY <1>5, <2>2, StaysInUse
  <2>5. Wrote(ip, m) BY <2>3, <2>4 DEF Wrote
  <2> QED BY <2>5, WroteOk
<1>7. CASE Link2(p) /\ dirlookup(n, reg[p].name) = None
  <2>1. ip = reg[p].ip BY <1>1, <1>2, <1>7 DEF Link2
  <2>2. PICK m : m = WithEntry(n, reg[p].name, reg[p].old) OBVIOUS
  <2>3. inode' = [inode EXCEPT ![ip] = m] /\ dinode' = [dinode EXCEPT ![ip] = OnDisk(m)]
    BY <1>4, <1>7, <2>1, <2>2 DEF Link2
  <2>4. ip \in Inums => InUse(m) BY <1>5, <2>2, EntryInUse
  <2>5. Wrote(ip, m) BY <2>3, <2>4 DEF Wrote
  <2> QED BY <2>5, WroteOk
<1>8. CASE LinkBad(p)
  <2>1. ip = reg[p].old BY <1>1, <1>8
  <2>2. PICK m : m = [n EXCEPT !.nlink = n.nlink - 1] OBVIOUS
  <2>3. inode' = [inode EXCEPT ![ip] = m] /\ dinode' = [dinode EXCEPT ![ip] = OnDisk(m)]
    BY <1>4, <1>8, <2>1, <2>2 DEF LinkBad
  <2>4. ip \in Inums => InUse(m) BY <1>5, <2>2, StaysInUse
  <2>5. Wrote(ip, m) BY <2>3, <2>4 DEF Wrote
  <2> QED BY <2>5, WroteOk
<1>9. CASE (Link1(p) /\ IsDir(n)) \/ (Link2(p) /\ dirlookup(n, reg[p].name) # None)
  <2>1. ip = reg[p].ip BY <1>1, <1>2, <1>9 DEF Link1, Link2
  <2>2. Looked(p) BY <1>4, <1>9, <2>1, LookSteps
  <2> QED BY <2>2, LookedOk
<1> QED BY <1>6, <1>7, <1>8, <1>9

(* sys_unlink(): the entry and the parent's link, then the inode's link;   *)
(* the directory has been locked, and so read, before.                     *)
LEMMA UnlinkWrites ==
  ASSUME CacheInv, NEW p \in Procs, Step(p), Unlink2(p) \/ Unlink3(p)
  PROVE  CacheInv'
<1>1. PICK ip, dp, n : ip = reg[p].ip /\ dp = reg[p].dp /\ n = Ilocked(ip) OBVIOUS
<1>2. CASE Unlink2(p) /\ IsDir(n) /\ ~isdirempty(n)
  <2>1. Looked(p) BY <1>1, <1>2, LookSteps
  <2> QED BY <2>1, LookedOk
<1>3. CASE Unlink2(p) /\ ~(IsDir(n) /\ ~isdirempty(n))
  <2>1. Label(p) = "unlink2" BY <1>3 DEF Unlink2
  <2>2. Wants(p) = ip /\ Label(p) # "iput" BY <1>1, <2>1 DEF Wants
  <2>3. PICK d0, w, d : /\ d0 = inode[dp] /\ w = WithoutEntry(d0, reg[p].name)
                        /\ d = [w EXCEPT !.lock = None, !.nlink = w.nlink - ParentLinks(n.type)]
    OBVIOUS
  <2>4. /\ inode' = [inode EXCEPT ![ip] = Hold(n, p), ![dp] = d] /\ dinode' = [dinode EXCEPT ![dp] = OnDisk(d)]
    BY <1>1, <1>3, <2>3 DEF Unlink2
  <2>5. PICK b : b = [inode EXCEPT ![ip] = Hold(n, p)] OBVIOUS
  <2>6. Coherent(b, dinode)
    <3>1. ip \in Inums => Fits(Hold(n, p), dinode[ip]) BY <1>1, <2>2, WantedFits
    <3> QED BY <2>5, <3>1, PutCached DEF CacheInv
  <2>7. dp \in Inums => InUse(d)
    <3>1. HAVE dp \in Inums
    <3>2. InUse(d0) BY <2>3, <3>1, CachedInUse
    <3>3. InUse(w) BY <2>3, <3>2, EntryInUse
    <3>4. PICK x, y : x = w.nlink - ParentLinks(n.type) /\ y = [w EXCEPT !.lock = None] OBVIOUS
    <3>5. InUse(y) BY <3>3, <3>4, StaysInUse
    <3>6. d = [y EXCEPT !.nlink = x] BY <2>3, <3>4
    <3> QED BY <3>5, <3>6, StaysInUse
  <2>8. inode' = [b EXCEPT ![dp] = d] BY <2>4, <2>5
  <2>9. dp \in Inums => Whole(d) /\ (d.valid => d.type # T_FREE) BY <2>7 DEF InUse
  <2>10. Coherent([b EXCEPT ![dp] = d], [dinode EXCEPT ![dp] = OnDisk(d)]) BY <2>6, <2>9, PutBoth
  <2> QED BY <2>4, <2>8, <2>10 DEF CacheInv
<1>4. CASE Unlink3(p)
  <2>1. PICK m0, x, m, y : m0 = inode[ip] /\ x = m0.nlink - 1 /\ y = [m0 EXCEPT !.nlink = x]
                           /\ m = [m0 EXCEPT !.nlink = x, !.lock = None]
    OBVIOUS
  <2>2. inode' = [inode EXCEPT ![ip] = m] /\ dinode' = [dinode EXCEPT ![ip] = OnDisk(m)]
    BY <1>1, <1>4, <2>1 DEF Unlink3
  <2>3. ip \in Inums => InUse(m)
    <3>1. HAVE ip \in Inums
    <3>2. InUse(m0) BY <2>1, <3>1, CachedInUse
    <3>3. InUse(y) BY <2>1, <3>2, StaysInUse
    <3>4. m = [y EXCEPT !.lock = None] BY <2>1
    <3> QED BY <3>3, <3>4, StaysInUse
  <2>4. Wrote(ip, m) BY <2>2, <2>3 DEF Wrote
  <2> QED BY <2>4, WroteOk
<1> QED BY <1>2, <1>3, <1>4

(* A set of numbers has a least one.                                       *)
LEMMA LeastNat ==
  ASSUME NEW S, S \subseteq Nat, S # {} PROVE Min(S) \in S
<1> DEFINE R == OpToRel(<, Nat)
<1>1. IsWellFoundedOn(R, Nat) BY NatLessThanWellFounded
<1>2. \E x \in S : \A y \in S : <<y, x>> \notin R
  <2> HIDE DEF R
  <2> QED BY <1>1, WFMin
<1>3. \E x \in S : \A y \in S : ~(y < x) BY <1>2 DEF OpToRel
<1>4. \E x \in S : \A y \in S : x <= y BY <1>3
<1> QED BY <1>4 DEF Min

(* ialloc() takes a free inode, which nobody has valid in the cache; then  *)
(* create() fills it and enters it in the directory.                       *)
LEMMA CreateWrites ==
  ASSUME CacheInv, NEW p \in Procs, Step(p), ialloc(p) \/ CreateNew(p)
  PROVE  CacheInv'
<1>1. CASE ialloc(p)
  <2>1. PICK i, d : /\ i = Min(FreeInums)
                    /\ d = [type |-> Arg(p), nlink |-> 0, data |-> IF Arg(p) = T_DIR THEN EmptyDir ELSE <<>>]
    OBVIOUS
  <2>2. dinode' = [dinode EXCEPT ![i] = d] /\ inode' = IgetIn(inode, i) BY <1>1, <2>1 DEF ialloc
  <2>3. i \in Inums /\ dinode[i].type = T_FREE
    <3>1. FreeInums # {} BY <1>1 DEF Step, Panics, NoFree, ialloc
    <3>2. FreeInums \subseteq Nat BY DEF FreeInums, Inums
    <3>3. i \in FreeInums BY <2>1, <3>1, <3>2, LeastNat
    <3> QED BY <3>3 DEF FreeInums
  <2>4. ~inode[i].valid BY <2>3 DEF CacheInv, Coherent, Fits, OnDisk
  <2>5. d = OnDisk(d) BY <2>1 DEF OnDisk
  <2>6. PICK e : e = [dinode EXCEPT ![i] = d] OBVIOUS
  <2>7. dinode = [j \in Inums |-> dinode[j]] BY DEF CacheInv, Coherent
  <2>8. e = [j \in Inums |-> e[j]] /\ \A j \in Inums : e[j] = IF j = i THEN d ELSE dinode[j] BY <2>6, <2>7
  <2>9. ASSUME NEW j \in Inums PROVE e[j] = OnDisk(e[j]) /\ Fits(inode[j], e[j])
    <3>1. Fits(inode[j], dinode[j]) /\ dinode[j] = OnDisk(dinode[j]) BY DEF CacheInv, Coherent
    <3>2. CASE j = i BY <2>4, <2>5, <2>8, <3>1, <3>2 DEF Fits
    <3>3. CASE j # i BY <2>8, <3>1, <3>3
    <3> QED BY <3>2, <3>3
  <2>10. Coherent(inode, e) BY <2>8, <2>9 DEF CacheInv, Coherent
  <2>11. Coherent(IgetIn(inode, i), e) BY <2>10, GetCached
  <2> QED BY <2>2, <2>6, <2>11 DEF CacheInv
<1>2. CASE CreateNew(p)
  <2>1. PICK ip, dp, l : ip = reg[p].ip /\ dp = reg[p].dp /\ l = Ilocked(ip) OBVIOUS
  <2>2. Label(p) = "newinode" BY <1>2 DEF CreateNew
  <2>3. Wants(p) = ip /\ Label(p) # "iput" BY <2>1, <2>2 DEF Wants
  <2>4. PICK x, n : /\ x = (IF Arg(p) = T_DIR THEN NewDir(ip, dp) ELSE l.data)
                    /\ n = [l EXCEPT !.nlink = 1, !.lock = p, !.data = x]
    OBVIOUS
  <2>5. PICK w, y, d : /\ w = WithEntry(inode[dp], reg[p].name, ip) /\ y = w.nlink + ParentLinks(Arg(p))
                       /\ d = [w EXCEPT !.lock = None, !.nlink = y]
    OBVIOUS
  <2>6. inode' = [inode EXCEPT ![ip] = n, ![dp] = d] /\ dinode' = [dinode EXCEPT ![ip] = OnDisk(n), ![dp] = OnDisk(d)]
    BY <1>2, <2>1, <2>4, <2>5 DEF CreateNew
  <2>7. ip \in Inums => InUse(n)
    <3>1. HAVE ip \in Inums
    <3>2. InUse(l) BY <2>1, <2>3, <3>1, WantedFits
    <3>3. PICK a, b : a = [l EXCEPT !.nlink = 1] /\ b = [a EXCEPT !.lock = p] OBVIOUS
    <3>4. InUse(a) BY <3>2, <3>3, StaysInUse
    <3>5. InUse(b) BY <3>3, <3>4, StaysInUse
    <3>6. n = [b EXCEPT !.data = x] BY <2>4, <3>3
    <3> QED BY <3>5, <3>6, StaysInUse
  <2>8. dp \in Inums => InUse(d)
    <3>1. HAVE dp \in Inums
    <3>2. InUse(inode[dp]) BY <3>1, CachedInUse
    <3>3. InUse(w) BY <2>5, <3>2, EntryInUse
    <3>4. PICK a : a = [w EXCEPT !.lock = None] OBVIOUS
    <3>5. InUse(a) BY <3>3, <3>4, StaysInUse
    <3>6. d = [a EXCEPT !.nlink = y] BY <2>5, <3>4
    <3> QED BY <3>5, <3>6, StaysInUse
  <2>9. PICK c, e : c = [inode EXCEPT ![ip] = n] /\ e = [dinode EXCEPT ![ip] = OnDisk(n)] OBVIOUS
  <2>10. Coherent(c, e) BY <2>7, <2>9, PutBoth DEF CacheInv, InUse
  <2>11. Coherent([c EXCEPT ![dp] = d], [e EXCEPT ![dp] = OnDisk(d)]) BY <2>8, <2>10, PutBoth DEF InUse
  <2>12. inode' = [c EXCEPT ![dp] = d] /\ dinode' = [e EXCEPT ![dp] = OnDisk(d)] BY <2>6, <2>9
  <2> QED BY <2>11, <2>12 DEF CacheInv
<1> QED BY <1>1, <1>2

(* The calls on a descriptor.                                              *)
LEMMA FdWrites ==
  ASSUME CacheInv, NEW p \in Procs, Step(p), Read(p) \/ Fstat(p) \/ Writei(p)
  PROVE  CacheInv'
<1>1. CASE (Read(p) \/ Fstat(p)) /\ inode' # inode
  <2>1. Label(p) \in {"read", "fstat"} /\ argfd(p, Arg(p)) # None BY <1>1 DEF Read, Fstat
  <2>2. PICK i : i = file[argfd(p, Arg(p))].ip OBVIOUS
  <2>3. Wants(p) = i /\ Label(p) # "iput" BY <2>1, <2>2 DEF Wants
  <2>4. inode' = [inode EXCEPT ![i] = Ilocked(i)] /\ dinode' = dinode BY <1>1, <2>2 DEF Read, Fstat
  <2>5. Looked(p) BY <2>3, <2>4 DEF Looked
  <2> QED BY <2>5, LookedOk
<1>2. CASE (Read(p) \/ Fstat(p)) /\ inode' = inode
  <2>1. dinode' = dinode BY <1>2 DEF Read, Fstat
  <2> QED BY <1>2, <2>1 DEF CacheInv
<1>3. CASE Writei(p)
  <2>1. PICK i, m : i = file[argfd(p, reg[p].call.fd)].ip /\ m = Ilocked(i) OBVIOUS
  <2>2. Label(p) = "writei" BY <1>3 DEF Writei
  <2>3. Wants(p) = i /\ Label(p) # "iput" BY <2>1, <2>2 DEF Wants
  <2>4. \/ inode' = [inode EXCEPT ![i] = m] /\ dinode' = dinode
        \/ \E x : LET w == [m EXCEPT !.data = x]
                  IN inode' = [inode EXCEPT ![i] = w] /\ dinode' = [dinode EXCEPT ![i] = OnDisk(w)]
    BY <1>3, <2>1 DEF Writei
  <2>5. CASE inode' = [inode EXCEPT ![i] = m] /\ dinode' = dinode
    <3>1. Looked(p) BY <2>1, <2>3, <2>5 DEF Looked
    <3> QED BY <3>1, LookedOk
  <2>6. CASE \E x : LET w == [m EXCEPT !.data = x]
                    IN inode' = [inode EXCEPT ![i] = w] /\ dinode' = [dinode EXCEPT ![i] = OnDisk(w)]
    <3>1. PICK x, w : /\ w = [m EXCEPT !.data = x]
                      /\ inode' = [inode EXCEPT ![i] = w] /\ dinode' = [dinode EXCEPT ![i] = OnDisk(w)]
      BY <2>6
    <3>2. i \in Inums => InUse(m) BY <2>1, <2>3, WantedFits
    <3>3. i \in Inums => InUse(w) BY <3>1, <3>2, StaysInUse
    <3>4. Wrote(i, w) BY <3>1, <3>3 DEF Wrote
    <3> QED BY <3>4, WroteOk
  <2> QED BY <2>4, <2>5, <2>6
<1> QED BY <1>1, <1>2, <1>3

(* The remaining steps change the cache by an iget() or an iunlock().      *)
LEMMA OtherSteps ==
  ASSUME CacheInv, NEW p,
         \/ BeginOp(p) \/ EndOp(p) \/ Namex(p)
         \/ \E l \in {"link1", "unlink1", "mkdir", "open1", "open2", "chdir1"} : NoInode(p, l)
         \/ LinkNoDir(p) \/ CreateNoDir(p) \/ Mkdir(p) \/ Open2(p) \/ Chdir2(p)
         \/ BadFd(p) \/ Fileclose(p) \/ Dup(p) \/ Write(p) \/ Dead(p)
         \/ \E q : Fork(p, q)
  PROVE  CacheInv'
<1>1. CASE Open2(p) /\ ~(FreeFiles = {} \/ FreeFds(p) = {})
  <2>1. PICK ip, n, m : ip = reg[p].ip /\ n = inode[ip] /\ m = [n EXCEPT !.lock = None] OBVIOUS
  <2>2. inode = [j \in Inums |-> inode[j]] BY DEF CacheInv, Coherent
  <2>3. inode' = [inode EXCEPT ![ip].lock = None] /\ dinode' = dinode BY <1>1, <2>1 DEF Open2
  <2>4. inode' = [inode EXCEPT ![ip] = m] BY <2>1, <2>2, <2>3
  <2>5. ip \in Inums => Fits(n, dinode[ip]) BY <2>1 DEF CacheInv, Coherent
  <2>6. ip \in Inums => Fits(m, dinode[ip]) BY <2>1, <2>5, SameFits
  <2>7. Coherent([inode EXCEPT ![ip] = m], dinode) BY <2>6, PutCached DEF CacheInv
  <2> QED BY <2>3, <2>4, <2>7 DEF CacheInv
<1>2. CASE Open2(p) /\ (FreeFiles = {} \/ FreeFds(p) = {}) BY <1>2 DEF Open2, CacheInv
<1>3. CASE Namex(p) \/ \E q : Fork(p, q)
  <2>1. PICK i : inode' = IgetIn(inode, i) /\ dinode' = dinode BY <1>3 DEF Namex, Fork
  <2>2. Coherent(IgetIn(inode, i), dinode) BY GetCached DEF CacheInv
  <2> QED BY <2>1, <2>2 DEF CacheInv
<1>4. CASE BeginOp(p) \/ EndOp(p) \/ \E l \in {"link1", "unlink1", "mkdir", "open1", "open2", "chdir1"} : NoInode(p, l)
  BY <1>4 DEF BeginOp, EndOp, NoInode, fsvars, CacheInv
<1>5. CASE LinkNoDir(p) \/ CreateNoDir(p) \/ Mkdir(p) BY <1>5 DEF LinkNoDir, CreateNoDir, Mkdir, fsvars, CacheInv
<1>6. CASE Chdir2(p) \/ BadFd(p) \/ Fileclose(p) \/ Dup(p) \/ Write(p) \/ Dead(p)
  BY <1>6 DEF Chdir2, BadFd, Fileclose, Dup, Write, Dead, fsvars, CacheInv
<1> QED BY <1>1, <1>2, <1>3, <1>4, <1>5, <1>6

(* Nothing is valid at first.                                              *)
LEMMA CacheStart == ASSUME FInit PROVE CacheInv
<1>1. PICK names : InitWith(names) BY DEF FInit
<1>2. /\ dinode = [i \in Inums |-> dinode[i]] /\ inode = [i \in Inums |-> inode[i]]
      /\ \A i \in Inums : dinode[i] = OnDisk(dinode[i])
  <2>1. \A i \in Inums : dinode[i] \in {FreeInode, [type |-> T_DIR, nlink |-> 1, data |-> RootDir(names)],
                                        [type |-> T_FILE, nlink |-> 1, data |-> <<>>]}
    BY <1>1 DEF InitWith
  <2>2. \A i \in Inums : dinode[i] = OnDisk(dinode[i]) BY <2>1 DEF FreeInode, OnDisk
  <2> QED BY <1>1, <2>2 DEF InitWith
<1>3. ASSUME NEW i \in Inums PROVE Fits(inode[i], dinode[i])
  <2>1. PICK r : inode[i] = [ref |-> r, lock |-> None, valid |-> FALSE, type |-> T_FREE, nlink |-> 0, data |-> <<>>]
    BY <1>1 DEF InitWith
  <2> QED BY <2>1 DEF Fits, Whole
<1> QED BY <1>2, <1>3 DEF CacheInv, Coherent

(* Every step keeps the cache coherent.                                    *)
LEMMA CacheStep == ASSUME CacheInv, [FNext]_vars PROVE CacheInv'
<1>1. CASE UNCHANGED vars BY <1>1 DEF CacheInv, vars
<1>2. ASSUME NEW p \in Procs, (\E c : Syscall(p, c)) \/ Waited(p) \/ Panic(p) PROVE CacheInv'
  BY <1>2 DEF Syscall, Waited, Panic, fsvars, CacheInv
<1>3. ASSUME NEW p \in Procs, NEW q \in Procs, Fork(p, q) PROVE CacheInv' BY <1>3, OtherSteps
<1>4. ASSUME NEW p \in Procs, Step(p) PROVE CacheInv'
  <2>1. CASE Iput(p) \/ Ifree(p) \/ Deref(p) \/ Iunlock(p) BY <2>1, PutSteps
  <2>2. CASE Walk(p) \/ Unlink1(p) \/ Create1(p) \/ CreateExists(p) \/ Open1(p) \/ Chdir1(p)
    <3>1. Looked(p) BY <2>2, LookSteps
    <3> QED BY <1>4, <3>1, LookedOk
  <2>3. CASE Link1(p) \/ Link2(p) \/ LinkBad(p) BY <1>4, <2>3, LinkWrites
  <2>4. CASE Unlink2(p) \/ Unlink3(p) BY <1>4, <2>4, UnlinkWrites
  <2>5. CASE ialloc(p) \/ CreateNew(p) BY <1>4, <2>5, CreateWrites
  <2>6. CASE Read(p) \/ Fstat(p) \/ Writei(p) BY <1>4, <2>6, FdWrites
  <2>7. CASE \/ BeginOp(p) \/ EndOp(p) \/ Namex(p)
             \/ \E l \in {"link1", "unlink1", "mkdir", "open1", "open2", "chdir1"} : NoInode(p, l)
             \/ LinkNoDir(p) \/ CreateNoDir(p) \/ Mkdir(p) \/ Open2(p) \/ Chdir2(p)
             \/ BadFd(p) \/ Fileclose(p) \/ Dup(p) \/ Write(p) \/ Dead(p)
    BY <2>7, OtherSteps
  <2> QED BY <1>4, <2>1, <2>2, <2>3, <2>4, <2>5, <2>6, <2>7 DEF Step
<1> QED BY <1>1, <1>2, <1>3, <1>4 DEF FNext

(* A valid cached inode is the one on disk and not a free one, at any      *)
(* moment: what ilock() has read stays good however often the number is    *)
(* freed, allocated and looked up again by others.                         *)
THEOREM CacheCoherent == FSpec => []CacheInv
<1>1. FInit => CacheInv BY CacheStart
<1>2. CacheInv /\ [FNext]_vars => CacheInv' BY CacheStep
<1> QED BY <1>1, <1>2, PTL DEF FSpec

(* So nobody who finds an inode valid and unlocked reads stale content.    *)
THEOREM WritesThrough == FSpec => []WriteThrough
<1>1. CacheInv => WriteThrough BY DEF CacheInv, Coherent, Fits, WriteThrough
<1> QED BY <1>1, CacheCoherent, PTL

-----------------------------------------------------------------------------
(* The clients of module UserTests are among those of FSpec.               *)

(* What a client has still to run is a list of system calls.               *)
ProgOk(s) == IsList(s) /\ \A k \in DOMAIN s : s[k].call.op \in ScriptCalls
ProgInv   == prog = [p \in Procs |-> prog[p]] /\ \A p \in Procs : ProgOk(prog[p])

(* The first item of a script is a system call, and so are the others.     *)
LEMMA ProgTail ==
  ASSUME NEW s, ProgOk(s), s # <<>> PROVE Head(s).call.op \in ScriptCalls /\ ProgOk(Tail(s))
<1>1. IsList(s) BY DEF ProgOk
<1>2. IsList(Tail(s)) BY <1>1, TailList
<1>3. PICK S : S = {s[k] : k \in DOMAIN s} OBVIOUS
<1>4. s \in Seq(S) BY <1>1, <1>3 DEF IsList
<1>5. Len(s) \in Nat /\ Len(s) >= 1 /\ DOMAIN s = 1 .. Len(s) /\ Head(s) = s[1] BY <1>4, EmptySeq
<1>6. /\ DOMAIN Tail(s) = 1 .. Len(s) - 1 /\ \A k \in 1 .. Len(s) - 1 : Tail(s)[k] = s[k + 1]
  BY <1>4, <1>5, HeadTailProperties
<1>7. \A k \in 1 .. Len(s) - 1 : k + 1 \in 1 .. Len(s) BY <1>5
<1> QED BY <1>2, <1>5, <1>6, <1>7 DEF ProgOk

(* The tests begin with the file system of mkfs, and lists of calls.       *)
LEMMA TestsStart == ASSUME TInit PROVE FInit /\ ProgInv
<1>1. InitWith(<<"README">>) BY DEF TInit
<1>2. FInit BY <1>1 DEF FInit
<1>3. PICK s \in Scripts(test) : prog = [p \in Procs |-> IF p \in DOMAIN s THEN s[p] ELSE <<>>]
  BY DEF TInit
<1>4. test \in Tests BY DEF TInit
<1>5. ASSUME NEW p \in Procs PROVE ProgOk(prog[p])
  <2>1. CASE p \in DOMAIN s
    <3>1. PICK x : x = s[p] OBVIOUS
    <3>2. x \in Seq(ToSet(x)) /\ \A y \in ToSet(x) : y.call.op \in ScriptCalls
      BY <1>3, <1>4, <2>1, <3>1, ScriptsAssumption
    <3>3. ToSet(x) = {x[k] : k \in DOMAIN x} BY DEF ToSet
    <3>4. ProgOk(x) BY <3>2, <3>3 DEF ProgOk, IsList
    <3> QED BY <1>3, <2>1, <3>1, <3>4
  <2>2. CASE p \notin DOMAIN s
    <3>1. prog[p] = <<>> BY <1>3, <2>2
    <3>2. ProgOk(<<>>) BY EmptyList DEF ProgOk
    <3> QED BY <3>1, <3>2
  <2> QED BY <2>1, <2>2
<1> QED BY <1>2, <1>3, <1>5 DEF ProgInv

(* A call of a test is one of the calls of any client.                     *)
LEMMA CallAllowed ==
  ASSUME NEW p \in Procs, NEW c, c.op \in ScriptCalls, Call(p, c) PROVE FNext
<1>1. CASE c.op \notin {"fork", "wait"} /\ Syscall(p, c)
  <2>1. c.op \in SystemCalls BY <1>1 DEF ScriptCalls
  <2> QED BY <1>1, <2>1 DEF FNext
<1>2. CASE c.op = "fork" /\ c.child \in Procs /\ Fork(p, c.child) BY <1>2 DEF FNext
<1>3. CASE /\ todo[p] = <<>>
           /\ ret' = [ret EXCEPT ![p] = [r |-> c.child, data |-> <<>>]]
           /\ UNCHANGED <<dinode, inode, file, ofile, cwd, op, todo, reg, panic>>
  <2>1. Waited(p) BY <1>3 DEF Waited
  <2> QED BY <2>1 DEF FNext
<1> QED BY <1>1, <1>2, <1>3 DEF Call

(* A step of the tests is a step of some client.                           *)
LEMMA TestsStep == ASSUME ProgInv, [TNext]_allvars PROVE [FNext]_vars /\ ProgInv'
<1>1. CASE UNCHANGED allvars BY <1>1 DEF allvars, tvars, ProgInv
<1>2. ASSUME NEW p \in Procs, RunItem(p) PROVE [FNext]_vars /\ ProgInv'
  <2>1. ProgOk(prog[p]) /\ prog[p] # <<>> BY <1>2 DEF ProgInv, RunItem
  <2>2. Head(prog[p]).call.op \in ScriptCalls /\ ProgOk(Tail(prog[p])) BY <2>1, ProgTail
  <2>3. FNext BY <1>2, <2>2, CallAllowed DEF RunItem
  <2>4. prog' = [prog EXCEPT ![p] = Tail(prog[p])] BY <1>2 DEF RunItem
  <2>5. prog' = [q \in Procs |-> prog'[q]] /\ \A q \in Procs : prog'[q] = IF q = p THEN Tail(prog[p]) ELSE prog[q]
    BY <2>4 DEF ProgInv
  <2>6. \A q \in Procs : ProgOk(prog'[q]) BY <2>2, <2>5 DEF ProgInv
  <2> QED BY <2>3, <2>5, <2>6 DEF ProgInv
<1>3. ASSUME NEW p \in Procs, RunAny(p) PROVE [FNext]_vars /\ ProgInv'
  <2>1. PICK c \in Calls : Call(p, c) BY <1>3 DEF RunAny
  <2>2. c.op \in ScriptCalls BY ScriptsAssumption
  <2>3. FNext BY <2>1, <2>2, CallAllowed
  <2>4. prog' = prog BY <1>3 DEF RunAny
  <2> QED BY <2>3, <2>4 DEF ProgInv
<1>4. ASSUME NEW p \in Procs, (Step(p) \/ Panic(p)) /\ UNCHANGED tvars PROVE [FNext]_vars /\ ProgInv'
  <2>1. FNext BY <1>4 DEF FNext
  <2>2. prog' = prog BY <1>4 DEF tvars
  <2> QED BY <2>1, <2>2 DEF ProgInv
<1> QED BY <1>1, <1>2, <1>3, <1>4 DEF TNext

(* The tests of usertests.c and the client that calls anything, as they    *)
(* are run, are clients of the kind the theorems above are about.          *)
THEOREM TestsAreClients == TSpec => FSpec
<1>1. TInit => FInit /\ ProgInv BY TestsStart
<1>2. ProgInv /\ [TNext]_allvars => [FNext]_vars /\ ProgInv' BY TestsStep
<1> QED BY <1>1, <1>2, PTL DEF TSpec, FSpec

(* So whatever the tests do, in whatever order, the disk changes only      *)
(* inside operations of the log and the cache of inodes is coherent.       *)
THEOREM TestsSafe == TSpec => InsideOperation /\ []WriteThrough
BY TestsAreClients, DiskInsideOperation, WritesThrough, PTL

-----------------------------------------------------------------------------
(* References and locks.                                                   *)

Bit(b) == IF b THEN 1 ELSE 0

(* The items of an agenda that drop a reference to inode i, or its lock.   *)
DueAt(s, i)  == {k \in 1 .. Len(s) : s[k][1] \in {"iput", "ifree", "deref"} /\ s[k][2] = i}
LockAt(s, i) == {k \in 1 .. Len(s) : s[k][1] \in {"iunlock", "ifree"} /\ s[k][2] = i}
Due(s, i)    == Cardinality(DueAt(s, i))
Unlocks(s, i) == Cardinality(LockAt(s, i))

(* Which of the local variables of a call are in use, by its main item,    *)
(* the first that does not only give something back, or by its last.       *)
UsesIp == {"walk", "link1", "link2", "unlink1", "unlink2", "unlink3", "create", "exists", "newinode",
           "open1", "open2", "mkdir", "chdir1", "chdir2"}
UsesDp == {"ialloc", "newinode", "unlink2"}
LocksIp == {"open2", "mkdir", "unlink3"}

(* The references and the locks that a process in a call with main item m  *)
(* and last item e has in its local variables r and as its directory c,    *)
(* and those that its agenda has.                                          *)
VarRefs(m, e, r, c, i) ==
    Bit(c = i /\ e \notin {"dead", "chdir2"}) + Bit(r.ip = i /\ m \in UsesIp)
    + Bit(r.dp = i /\ m \in UsesDp) + Bit(r.old = i /\ e \in {"link2", "linkbad"})
VarLocks(m, r, i) == Bit(r.ip = i /\ m \in LocksIp) + Bit(r.dp = i /\ m \in UsesDp)
Refs(s, r, c, i)  == VarRefs(Main(s), End(s), r, c, i) + Due(s, i)
Locks(s, r, i)    == VarLocks(Main(s), r, i) + Unlocks(s, i)

(* Those of all processes, and those of open files.                        *)
CwdAt(i) == {q \in Procs : cwd[q] = i /\ End(todo[q]) \notin {"dead", "chdir2"}}
IpAt(i)  == {q \in Procs : reg[q].ip = i /\ Main(todo[q]) \in UsesIp}
DpAt(i)  == {q \in Procs : reg[q].dp = i /\ Main(todo[q]) \in UsesDp}
OldAt(i) == {q \in Procs : reg[q].old = i /\ End(todo[q]) \in {"link2", "linkbad"}}
Pairs(D) == UNION {{q} \X D[q] : q \in Procs}
Dues(i)  == [q \in Procs |-> DueAt(todo[q], i)]
Users(i) == Cardinality(CwdAt(i)) + Cardinality(IpAt(i)) + Cardinality(DpAt(i)) + Cardinality(OldAt(i))
            + Cardinality(Pairs(Dues(i)))
OpenAt(i) == {g \in 1 .. NFILE : file[g].ref > 0 /\ file[g].ip = i}

-----------------------------------------------------------------------------
(* Counting.                                                               *)

(* Two finite sets that differ at most in p.                               *)
LEMMA PointCount ==
  ASSUME NEW S, IsFiniteSet(S), NEW A, NEW E, A \subseteq S, E \subseteq S, NEW p,
         \A q \in S : q # p => (q \in A <=> q \in E)
  PROVE  /\ Cardinality(A) \in Nat /\ Cardinality(E) \in Nat
         /\ Cardinality(E) + Bit(p \in A) = Cardinality(A) + Bit(p \in E)
<1>1. IsFiniteSet(A) /\ IsFiniteSet(E) BY FS_Subset
<1>2. PICK C : C = A \ {p} OBVIOUS
<1>3. C = E \ {p} BY <1>2
<1>4. Cardinality(A) \in Nat /\ Cardinality(E) \in Nat BY <1>1, FS_CardinalityType
<1>5. Cardinality(C) = IF p \in A THEN Cardinality(A) - 1 ELSE Cardinality(A) BY <1>1, <1>2, FS_RemoveElement
<1>6. Cardinality(C) = IF p \in E THEN Cardinality(E) - 1 ELSE Cardinality(E) BY <1>1, <1>3, FS_RemoveElement
<1> QED BY <1>4, <1>5, <1>6 DEF Bit

(* A family of finite sets is finite.                                      *)
LEMMA PairsFinite ==
  ASSUME NEW D, \A q \in Procs : IsFiniteSet(D[q]) PROVE IsFiniteSet(Pairs(D))
<1>1. PICK F : F = [q \in Procs |-> {q} \X D[q]] OBVIOUS
<1>2. PICK R : R = {F[q] : q \in Procs} OBVIOUS
<1>3. IsFiniteSet(Procs) BY FilesAssumption, FS_Interval DEF Procs
<1>4. IsFiniteSet(R)
  <2>1. F \in Surjection(Procs, R) BY <1>1, <1>2, Fun_IsSurj
  <2> QED BY <1>3, <2>1, FS_Surjection
<1>5. \A X \in R : IsFiniteSet(X)
  <2> SUFFICES ASSUME NEW q \in Procs PROVE IsFiniteSet(F[q]) BY <1>2
  <2>1. IsFiniteSet({q}) /\ IsFiniteSet(D[q]) BY FS_Singleton
  <2>2. IsFiniteSet({q} \X D[q]) BY <2>1, FS_Product
  <2> QED BY <1>1, <2>2
<1>6. Pairs(D) = UNION R BY <1>1, <1>2 DEF Pairs
<1> QED BY <1>4, <1>5, <1>6, FS_UNION

(* A family of finite sets of which one changes.                           *)
LEMMA PairsCount ==
  ASSUME NEW D, NEW E, NEW p \in Procs, \A q \in Procs : IsFiniteSet(D[q]), IsFiniteSet(E[p]),
         \A q \in Procs : q # p => D[q] = E[q]
  PROVE  /\ IsFiniteSet(Pairs(E)) /\ Cardinality(Pairs(D)) \in Nat /\ Cardinality(Pairs(E)) \in Nat
         /\ Cardinality(D[p]) \in Nat /\ Cardinality(E[p]) \in Nat
         /\ Cardinality(Pairs(E)) + Cardinality(D[p]) = Cardinality(Pairs(D)) + Cardinality(E[p])
<1>1. PICK R : R = UNION {{q} \X D[q] : q \in Procs \ {p}} OBVIOUS
<1>2. Pairs(D) = R \cup ({p} \X D[p]) /\ R \cap ({p} \X D[p]) = {} BY <1>1 DEF Pairs
<1>3. Pairs(E) = R \cup ({p} \X E[p]) /\ R \cap ({p} \X E[p]) = {} BY <1>1 DEF Pairs
<1>0. IsFiniteSet(D[p]) /\ IsFiniteSet(Pairs(D)) BY PairsFinite
<1>4. IsFiniteSet(R) BY <1>0, <1>2, FS_Subset
<1>5. ASSUME NEW X, IsFiniteSet(X) PROVE IsFiniteSet({p} \X X) /\ Cardinality({p} \X X) = Cardinality(X)
  <2>1. IsFiniteSet({p}) /\ Cardinality({p}) = 1 BY FS_Singleton
  <2>2. IsFiniteSet({p} \X X) /\ Cardinality({p} \X X) = Cardinality({p}) * Cardinality(X) BY <1>5, <2>1, FS_Product
  <2>3. Cardinality(X) \in Nat BY <1>5, FS_CardinalityType
  <2> QED BY <2>1, <2>2, <2>3
<1>6. ASSUME NEW X, IsFiniteSet(X), R \cap ({p} \X X) = {}
      PROVE  IsFiniteSet(R \cup ({p} \X X)) /\ Cardinality(R \cup ({p} \X X)) = Cardinality(R) + Cardinality(X)
             /\ Cardinality(X) \in Nat
  <2>1. IsFiniteSet({p} \X X) /\ Cardinality({p} \X X) = Cardinality(X) BY <1>5, <1>6
  <2>2. /\ IsFiniteSet(R \cup ({p} \X X))
        /\ Cardinality(R \cup ({p} \X X)) = Cardinality(R) + Cardinality({p} \X X) - Cardinality(R \cap ({p} \X X))
    BY <1>4, <2>1, FS_Union
  <2>3. Cardinality(R) \in Nat /\ Cardinality(X) \in Nat BY <1>4, <1>6, FS_CardinalityType
  <2>4. Cardinality(R \cap ({p} \X X)) = 0 BY <1>6, FS_EmptySet
  <2> QED BY <2>1, <2>2, <2>3, <2>4
<1>7. Cardinality(R) \in Nat BY <1>4, FS_CardinalityType
<1>8. /\ IsFiniteSet(Pairs(D)) /\ Cardinality(Pairs(D)) = Cardinality(R) + Cardinality(D[p]) /\ Cardinality(D[p]) \in Nat
  BY <1>0, <1>2, <1>6
<1>9. /\ IsFiniteSet(Pairs(E)) /\ Cardinality(Pairs(E)) = Cardinality(R) + Cardinality(E[p]) /\ Cardinality(E[p]) \in Nat
  BY <1>3, <1>6
<1> QED BY <1>7, <1>8, <1>9

(* What PushList says, of sets of items.                                   *)
LEMMA ShiftCount ==
  ASSUME NEW n \in Nat, NEW A, NEW E, A \subseteq 1 .. n, E \subseteq 1 .. n + 1,
         \A k \in 1 .. n : k \in A <=> k + 1 \in E
  PROVE  Cardinality(E) = Cardinality(A) + Bit(1 \in E) /\ Cardinality(A) \in Nat /\ IsFiniteSet(A) /\ IsFiniteSet(E)
<1>1. IsFiniteSet(1 .. n) /\ IsFiniteSet(1 .. n + 1) BY FS_Interval
<1>2. IsFiniteSet(A) /\ IsFiniteSet(E) BY <1>1, FS_Subset
<1>3. PICK F : F = E \ {1} OBVIOUS
<1>4. IsFiniteSet(F) /\ Cardinality(F) = IF 1 \in E THEN Cardinality(E) - 1 ELSE Cardinality(E)
  BY <1>2, <1>3, FS_RemoveElement
<1>5. PICK g : g = [k \in A |-> k + 1] OBVIOUS
<1>6. g \in Bijection(A, F)
  <2>1. \A k \in A : k \in Nat /\ k >= 1 /\ k + 1 \in F /\ g[k] = k + 1 BY <1>3, <1>5
  <2>2. \A m \in F : m \in Nat /\ m - 1 \in A /\ g[m - 1] = m
    <3> SUFFICES ASSUME NEW m \in F PROVE m \in Nat /\ m - 1 \in A /\ g[m - 1] = m OBVIOUS
    <3>1. m \in 2 .. n + 1 BY <1>3
    <3>2. m - 1 \in 1 .. n /\ (m - 1) + 1 = m BY <3>1
    <3>3. (m - 1) + 1 \in E BY <1>3, <3>2
    <3>4. m - 1 \in A BY <3>2, <3>3
    <3> QED BY <1>5, <3>1, <3>2, <3>4
  <2>3. g \in [A -> F] BY <1>5, <2>1
  <2>4. \A j, k \in A : g[j] = g[k] => j = k BY <2>1
  <2>5. \A m \in F : \E k \in A : g[k] = m BY <2>2
  <2> QED BY <2>3, <2>4, <2>5, Fun_IsBij
<1>7. Cardinality(F) = Cardinality(A) BY <1>2, <1>6, FS_Bijection DEF ExistsBijection
<1>8. Cardinality(A) \in Nat /\ Cardinality(E) \in Nat BY <1>2, FS_CardinalityType
<1> QED BY <1>2, <1>4, <1>7, <1>8 DEF Bit

(* Dues of a list with one more item.                                      *)
LEMMA DuePush ==
  ASSUME NEW x, NEW s, IsList(s), NEW i
  PROVE  /\ Due(Push(x, s), i) = Due(s, i) + Bit(x[1] \in {"iput", "ifree", "deref"} /\ x[2] = i) /\ Due(s, i) \in Nat
         /\ Unlocks(Push(x, s), i) = Unlocks(s, i) + Bit(x[1] \in {"iunlock", "ifree"} /\ x[2] = i) /\ Unlocks(s, i) \in Nat
<1>1. PICK c : c = Push(x, s) OBVIOUS
<1>2. /\ Len(c) = Len(s) + 1 /\ Len(s) \in Nat /\ c[1] = x /\ \A k \in 1 .. Len(s) : c[k + 1] = s[k]
  BY <1>1, PushList
<1>3. PICK n : n = Len(s) OBVIOUS
<1>4. \A k \in 1 .. n : k + 1 \in 1 .. n + 1 BY <1>2, <1>3
<1>5. DueAt(s, i) \subseteq 1 .. n /\ DueAt(c, i) \subseteq 1 .. n + 1 /\ LockAt(s, i) \subseteq 1 .. n /\ LockAt(c, i) \subseteq 1 .. n + 1
  BY <1>2, <1>3 DEF DueAt, LockAt
<1>6. \A k \in 1 .. n : (k \in DueAt(s, i) <=> k + 1 \in DueAt(c, i)) /\ (k \in LockAt(s, i) <=> k + 1 \in LockAt(c, i))
  BY <1>2, <1>3, <1>4 DEF DueAt, LockAt
<1>7. Cardinality(DueAt(c, i)) = Cardinality(DueAt(s, i)) + Bit(1 \in DueAt(c, i)) /\ Cardinality(DueAt(s, i)) \in Nat
  BY <1>2, <1>3, <1>5, <1>6, ShiftCount
<1>8. Cardinality(LockAt(c, i)) = Cardinality(LockAt(s, i)) + Bit(1 \in LockAt(c, i)) /\ Cardinality(LockAt(s, i)) \in Nat
  BY <1>2, <1>3, <1>5, <1>6, ShiftCount
<1>9. 1 \in 1 .. Len(c) BY <1>2
<1>10. (1 \in DueAt(c, i) <=> x[1] \in {"iput", "ifree", "deref"} /\ x[2] = i)
       /\ (1 \in LockAt(c, i) <=> x[1] \in {"iunlock", "ifree"} /\ x[2] = i)
  BY <1>2, <1>9 DEF DueAt, LockAt
<1> QED BY <1>1, <1>7, <1>8, <1>10 DEF Due, Unlocks

(* The empty list has nothing to give back.                                *)
LEMMA DueNone == ASSUME NEW i PROVE Due(<<>>, i) = 0 /\ Unlocks(<<>>, i) = 0
<1>1. DueAt(<<>>, i) = {} /\ LockAt(<<>>, i) = {} BY EmptyList DEF DueAt, LockAt
<1> QED BY <1>1, FS_EmptySet DEF Due, Unlocks

(* All that counts of list s, as far as it is about inode i.               *)
Weighs(s, m, e, i, d, u) ==
    IsList(s) /\ Main(s) = m /\ End(s) = e /\ Due(s, i) = d /\ Unlocks(s, i) = u /\ d \in Nat /\ u \in Nat

(* What an item gives back.                                                *)
Drops(x, i) == Bit(x[1] \in {"iput", "ifree", "deref"} /\ x[2] = i)
Frees(x, i) == Bit(x[1] \in {"iunlock", "ifree"} /\ x[2] = i)

(* A list with one more item.                                              *)
LEMMA WeighPush ==
  ASSUME NEW x, NEW s, IsList(s), NEW i, NEW w, IsPush(w, x, s)
  PROVE  Weighs(w, IF x[1] \in Pops THEN Main(s) ELSE x[1], IF s = <<>> THEN x[1] ELSE End(s), i,
                Due(s, i) + Drops(x, i), Unlocks(s, i) + Frees(x, i))
<1>1. w = Push(x, s) BY DEF IsPush
<1>2. IsList(w) BY <1>1, PushList
<1>3. Main(w) = IF x[1] \in Pops THEN Main(s) ELSE x[1] BY <1>1, MainPush
<1>4. End(w) = IF s = <<>> THEN x[1] ELSE End(s) BY <1>1, EndPush
<1>5. /\ Due(w, i) = Due(s, i) + Drops(x, i) /\ Due(s, i) \in Nat
      /\ Unlocks(w, i) = Unlocks(s, i) + Frees(x, i) /\ Unlocks(s, i) \in Nat
  BY <1>1, DuePush DEF Drops, Frees
<1>6. Drops(x, i) \in Nat /\ Frees(x, i) \in Nat BY DEF Drops, Frees, Bit
<1> QED BY <1>2, <1>3, <1>4, <1>5, <1>6 DEF Weighs

(* Lists of one item to four, of which the last is not one of Pops.        *)
LEMMA WeighOne ==
  ASSUME NEW a, NEW s, s = <<a>>, a[1] \notin Pops, NEW i
  PROVE  Weighs(s, a[1], a[1], i, 0, 0)
<1>1. PICK e : e = <<>> OBVIOUS
<1>2. IsPush(s, a, e) /\ IsList(e) BY <1>1, Literals, EmptyList DEF IsPush
<1>3. Weighs(s, a[1], a[1], i, Due(e, i) + Drops(a, i), Unlocks(e, i) + Frees(a, i)) BY <1>1, <1>2, WeighPush
<1>4. Due(e, i) = 0 /\ Unlocks(e, i) = 0 BY <1>1, DueNone
<1>5. Drops(a, i) = 0 /\ Frees(a, i) = 0 BY DEF Drops, Frees, Bit, Pops
<1> QED BY <1>3, <1>4, <1>5

(* Two items.                                                              *)
LEMMA WeighTwo ==
  ASSUME NEW a, NEW b, NEW s, IsTwo(s, a, b), b[1] \notin Pops, NEW i
  PROVE  Weighs(s, IF a[1] \in Pops THEN b[1] ELSE a[1], b[1], i, Drops(a, i), Frees(a, i))
<1>1. PICK t : t = <<b>> OBVIOUS
<1>2. Weighs(t, b[1], b[1], i, 0, 0) BY <1>1, WeighOne
<1>3. t # <<>> BY <1>1
<1>4. IsPush(s, a, t)
  <2>1. s = <<a, b>> BY DEF IsTwo
  <2>2. s = Push(a, Push(b, <<>>)) BY <2>1, Literals
  <2>3. t = Push(b, <<>>) BY <1>1, Literals
  <2> QED BY <2>2, <2>3 DEF IsPush
<1>5. IsList(t) /\ Main(t) = b[1] /\ End(t) = b[1] /\ Due(t, i) = 0 /\ Unlocks(t, i) = 0 BY <1>2 DEF Weighs
<1>6. Weighs(s, IF a[1] \in Pops THEN Main(t) ELSE a[1], IF t = <<>> THEN a[1] ELSE End(t), i,
             Due(t, i) + Drops(a, i), Unlocks(t, i) + Frees(a, i)) BY <1>4, <1>5, WeighPush
<1>7. Drops(a, i) \in Nat /\ Frees(a, i) \in Nat BY DEF Drops, Frees, Bit
<1> QED BY <1>3, <1>5, <1>6, <1>7

(* Three items.                                                            *)
LEMMA WeighThree ==
  ASSUME NEW a, NEW b, NEW c, NEW s, IsThree(s, a, b, c), {a[1], b[1]} \subseteq Pops, c[1] \notin Pops, NEW i
  PROVE  Weighs(s, c[1], c[1], i, Drops(a, i) + Drops(b, i), Frees(a, i) + Frees(b, i))
<1>1. PICK t : t = <<b, c>> OBVIOUS
<1>0. IsTwo(t, b, c) BY <1>1 DEF IsTwo
<1>2. Weighs(t, c[1], c[1], i, Drops(b, i), Frees(b, i)) BY <1>0, WeighTwo
<1>3. t # <<>> BY <1>1
<1>4. IsPush(s, a, t)
  <2>1. s = <<a, b, c>> BY DEF IsThree
  <2>2. s = Push(a, Push(b, Push(c, <<>>))) BY <2>1, Literal3
  <2>3. t = Push(b, Push(c, <<>>)) BY <1>1, Literals
  <2> QED BY <2>2, <2>3 DEF IsPush
<1>5. IsList(t) /\ Main(t) = c[1] /\ End(t) = c[1] /\ Due(t, i) = Drops(b, i) /\ Unlocks(t, i) = Frees(b, i)
  BY <1>2 DEF Weighs
<1>6. Weighs(s, IF a[1] \in Pops THEN Main(t) ELSE a[1], IF t = <<>> THEN a[1] ELSE End(t), i,
             Due(t, i) + Drops(a, i), Unlocks(t, i) + Frees(a, i)) BY <1>4, <1>5, WeighPush
<1>7. Drops(a, i) \in Nat /\ Frees(a, i) \in Nat /\ Drops(b, i) \in Nat /\ Frees(b, i) \in Nat BY DEF Drops, Frees, Bit
<1>8. Due(t, i) + Drops(a, i) = Drops(a, i) + Drops(b, i) /\ Unlocks(t, i) + Frees(a, i) = Frees(a, i) + Frees(b, i)
  BY <1>5, <1>7
<1> QED BY <1>3, <1>5, <1>6, <1>8

IsFour(w, a, b, c, d) == w = <<a, b, c, d>>

(* Four items.                                                             *)
LEMMA WeighFour ==
  ASSUME NEW a, NEW b, NEW c, NEW d, NEW s, IsFour(s, a, b, c, d), {a[1], b[1], c[1]} \subseteq Pops, d[1] \notin Pops,
         NEW i
  PROVE  Weighs(s, d[1], d[1], i, Drops(a, i) + Drops(b, i) + Drops(c, i), Frees(a, i) + Frees(b, i) + Frees(c, i))
<1>1. PICK t : t = <<b, c, d>> OBVIOUS
<1>0. IsThree(t, b, c, d) BY <1>1 DEF IsThree
<1>2. Weighs(t, d[1], d[1], i, Drops(b, i) + Drops(c, i), Frees(b, i) + Frees(c, i)) BY <1>0, WeighThree
<1>3. t # <<>> BY <1>1
<1>4. IsPush(s, a, t)
  <2>1. s = <<a, b, c, d>> BY DEF IsFour
  <2>2. s = Push(a, Push(b, Push(c, Push(d, <<>>)))) BY <2>1, Literal4
  <2>3. t = Push(b, Push(c, Push(d, <<>>))) BY <1>1, Literal3
  <2> QED BY <2>2, <2>3 DEF IsPush
<1>5. /\ IsList(t) /\ Main(t) = d[1] /\ End(t) = d[1] /\ Due(t, i) = Drops(b, i) + Drops(c, i)
      /\ Unlocks(t, i) = Frees(b, i) + Frees(c, i)
  BY <1>2 DEF Weighs
<1>6. Weighs(s, IF a[1] \in Pops THEN Main(t) ELSE a[1], IF t = <<>> THEN a[1] ELSE End(t), i,
             Due(t, i) + Drops(a, i), Unlocks(t, i) + Frees(a, i)) BY <1>4, <1>5, WeighPush
<1>7. /\ Drops(a, i) \in Nat /\ Frees(a, i) \in Nat /\ Drops(b, i) \in Nat /\ Frees(b, i) \in Nat
      /\ Drops(c, i) \in Nat /\ Frees(c, i) \in Nat BY DEF Drops, Frees, Bit
<1>8. /\ Due(t, i) + Drops(a, i) = Drops(a, i) + Drops(b, i) + Drops(c, i)
      /\ Unlocks(t, i) + Frees(a, i) = Frees(a, i) + Frees(b, i) + Frees(c, i)
  BY <1>5, <1>7
<1> QED BY <1>3, <1>5, <1>6, <1>8

-----------------------------------------------------------------------------
(* The invariant.                                                          *)

RegOk(r)  == r = [call |-> r.call, ip |-> r.ip, dp |-> r.dp, old |-> r.old, elems |-> r.elems, name |-> r.name]
FileOk(x) == x = [ref |-> x.ref, ip |-> x.ip, off |-> x.off, readable |-> x.readable, writable |-> x.writable]
Shapes ==
    /\ reg = [p \in Procs |-> reg[p]] /\ \A p \in Procs : RegOk(reg[p])
    /\ cwd = [p \in Procs |-> cwd[p]]
    /\ file = [g \in 1 .. NFILE |-> file[g]] /\ \A g \in 1 .. NFILE : FileOk(file[g]) /\ file[g].ref \in Nat
    /\ ofile = [p \in Procs |-> ofile[p]]
    /\ \A p \in Procs : ofile[p] = [fd \in Fds |-> ofile[p][fd]] /\ \A fd \in Fds : ofile[p][fd] \in 0 .. NFILE

(* An inode has as many references as there are current directories, open  *)
(* files, variables and items of agendas that will give one back, and its  *)
(* lock is held by the process that will unlock it, once.                  *)
RefInv  == \A i \in Inums : inode[i].ref = Users(i) + Cardinality(OpenAt(i))
LockInv == \A i \in Inums :
    /\ inode[i].lock \in Procs \cup {None}
    /\ \A p \in Procs : Locks(todo[p], reg[p], i) = Bit(inode[i].lock = p)

(* A file has as many references as there are descriptors for it.          *)
Slots(p, g) == {fd \in Fds : ofile[p][fd] = g}
Rows(g)     == [q \in Procs |-> Slots(q, g)]
FileInv     == \A g \in 1 .. NFILE : file[g].ref = Cardinality(Pairs(Rows(g)))

(* The variables of a call before its path is looked up, and of exit();    *)
(* exit() closes what is open; who has no directory is not a process.      *)
CallOk(p) ==
    /\ Main(todo[p]) \in Outside \/ End(todo[p]) \in {"dead", "writei"} => reg[p].ip = None /\ reg[p].dp = None
    /\ End(todo[p]) = "dead" => CloseArgs(todo[p]) = OpenSet(p) /\ Once(todo[p])
    /\ End(todo[p]) = "chdir2" => reg[p].ip # None
    /\ cwd[p] = None => todo[p] = <<>> /\ OpenSet(p) = {}
CountInv == OpInv /\ CacheInv /\ Shapes /\ RefInv /\ LockInv /\ FileInv /\ \A p \in Procs : CallOk(p)

-----------------------------------------------------------------------------
(* From one process to all.                                                *)

(* The items that give back inode i are finitely many.                     *)
LEMMA DueFinite ==
  ASSUME NEW s, IsList(s), NEW i
  PROVE  IsFiniteSet(DueAt(s, i)) /\ Due(s, i) \in Nat /\ Unlocks(s, i) \in Nat
<1>1. IsFiniteSet(1 .. Len(s)) BY FS_Interval, LenProperties DEF IsList
<1>2. DueAt(s, i) \subseteq 1 .. Len(s) /\ LockAt(s, i) \subseteq 1 .. Len(s) BY DEF DueAt, LockAt
<1> QED BY <1>1, <1>2, FS_Subset, FS_CardinalityType DEF Due, Unlocks

(* When one process changes, the users change by its references.           *)
LEMMA UsersStep ==
  ASSUME OpInv, OpInv', NEW p \in Procs, NEW i,
         \A q \in Procs \ {p} : todo'[q] = todo[q] /\ reg'[q] = reg[q] /\ cwd'[q] = cwd[q]
  PROVE  /\ Users(i) \in Nat /\ Users(i)' \in Nat
         /\ Refs(todo[p], reg[p], cwd[p], i) \in Nat /\ Refs(todo'[p], reg'[p], cwd'[p], i) \in Nat
         /\ Users(i)' + Refs(todo[p], reg[p], cwd[p], i) = Users(i) + Refs(todo'[p], reg'[p], cwd'[p], i)
<1>1. \A q \in Procs : IsList(todo[q]) /\ IsList(todo'[q]) BY DEF OpInv, AgendaOk, Good
<1>2. IsFiniteSet(Procs) BY FilesAssumption, FS_Interval DEF Procs
<1>3. PICK A, E : A = CwdAt(i) /\ E = CwdAt(i)' OBVIOUS
<1>4. PICK B, F : B = IpAt(i) /\ F = IpAt(i)' OBVIOUS
<1>5. PICK C, G : C = DpAt(i) /\ G = DpAt(i)' OBVIOUS
<1>6. PICK D, H : D = OldAt(i) /\ H = OldAt(i)' OBVIOUS
<1>7. PICK X, Y : X = Dues(i) /\ Y = Dues(i)' OBVIOUS
<1>11. /\ Cardinality(A) \in Nat /\ Cardinality(E) \in Nat
       /\ Cardinality(E) + Bit(p \in A) = Cardinality(A) + Bit(p \in E)
  <2>1. A \subseteq Procs /\ E \subseteq Procs /\ \A q \in Procs : q # p => (q \in A <=> q \in E) BY <1>3 DEF CwdAt
  <2> QED BY <1>2, <2>1, PointCount
<1>12. /\ Cardinality(B) \in Nat /\ Cardinality(F) \in Nat
       /\ Cardinality(F) + Bit(p \in B) = Cardinality(B) + Bit(p \in F)
  <2>1. B \subseteq Procs /\ F \subseteq Procs /\ \A q \in Procs : q # p => (q \in B <=> q \in F) BY <1>4 DEF IpAt
  <2> QED BY <1>2, <2>1, PointCount
<1>13. /\ Cardinality(C) \in Nat /\ Cardinality(G) \in Nat
       /\ Cardinality(G) + Bit(p \in C) = Cardinality(C) + Bit(p \in G)
  <2>1. C \subseteq Procs /\ G \subseteq Procs /\ \A q \in Procs : q # p => (q \in C <=> q \in G) BY <1>5 DEF DpAt
  <2> QED BY <1>2, <2>1, PointCount
<1>14. /\ Cardinality(D) \in Nat /\ Cardinality(H) \in Nat
       /\ Cardinality(H) + Bit(p \in D) = Cardinality(D) + Bit(p \in H)
  <2>1. D \subseteq Procs /\ H \subseteq Procs /\ \A q \in Procs : q # p => (q \in D <=> q \in H) BY <1>6 DEF OldAt
  <2> QED BY <1>2, <2>1, PointCount
<1>15. /\ Cardinality(Pairs(X)) \in Nat /\ Cardinality(Pairs(Y)) \in Nat
       /\ Cardinality(Pairs(Y)) + Cardinality(X[p]) = Cardinality(Pairs(X)) + Cardinality(Y[p])
  <2>1. \A q \in Procs : X[q] = DueAt(todo[q], i) /\ Y[q] = DueAt(todo'[q], i) BY <1>7 DEF Dues
  <2>2. \A q \in Procs : IsFiniteSet(X[q]) /\ IsFiniteSet(Y[q]) BY <1>1, <2>1, DueFinite
  <2>3. \A q \in Procs : q # p => X[q] = Y[q] BY <2>1
  <2> QED BY <2>2, <2>3, PairsCount
<1>16. /\ Cardinality(X[p]) = Due(todo[p], i) /\ Cardinality(Y[p]) = Due(todo'[p], i)
       /\ Due(todo[p], i) \in Nat /\ Due(todo'[p], i) \in Nat
  BY <1>1, <1>7, DueFinite DEF Dues, Due
<1>17. Users(i) = Cardinality(A) + Cardinality(B) + Cardinality(C) + Cardinality(D) + Cardinality(Pairs(X))
  BY <1>3, <1>4, <1>5, <1>6, <1>7 DEF Users
<1>18. Users(i)' = Cardinality(E) + Cardinality(F) + Cardinality(G) + Cardinality(H) + Cardinality(Pairs(Y))
  BY <1>3, <1>4, <1>5, <1>6, <1>7 DEF Users
<1>19. Refs(todo[p], reg[p], cwd[p], i) = Bit(p \in A) + Bit(p \in B) + Bit(p \in C) + Bit(p \in D) + Due(todo[p], i)
  BY <1>3, <1>4, <1>5, <1>6 DEF Refs, VarRefs, CwdAt, IpAt, DpAt, OldAt
<1>20. Refs(todo'[p], reg'[p], cwd'[p], i) = Bit(p \in E) + Bit(p \in F) + Bit(p \in G) + Bit(p \in H) + Due(todo'[p], i)
  BY <1>3, <1>4, <1>5, <1>6 DEF Refs, VarRefs, CwdAt, IpAt, DpAt, OldAt
<1>21. /\ Bit(p \in A) \in Nat /\ Bit(p \in B) \in Nat /\ Bit(p \in C) \in Nat /\ Bit(p \in D) \in Nat
       /\ Bit(p \in E) \in Nat /\ Bit(p \in F) \in Nat /\ Bit(p \in G) \in Nat /\ Bit(p \in H) \in Nat
  BY DEF Bit
<1>22. Refs(todo[p], reg[p], cwd[p], i) \in Nat /\ Refs(todo'[p], reg'[p], cwd'[p], i) \in Nat
  BY <1>16, <1>19, <1>20, <1>21
<1>23. Users(i) \in Nat /\ Users(i)' \in Nat BY <1>11, <1>12, <1>13, <1>14, <1>15, <1>17, <1>18
<1>24. Users(i)' + Refs(todo[p], reg[p], cwd[p], i) = Users(i) + Refs(todo'[p], reg'[p], cwd'[p], i)
  <2>1. PICK a1 \in Nat, a2 \in Nat, a3 \in Nat, a4 \in Nat, a5 \in Nat :
          /\ a1 = Cardinality(A) /\ a2 = Cardinality(B) /\ a3 = Cardinality(C) /\ a4 = Cardinality(D)
          /\ a5 = Cardinality(Pairs(X))
    BY <1>11, <1>12, <1>13, <1>14, <1>15
  <2>2. PICK e1 \in Nat, e2 \in Nat, e3 \in Nat, e4 \in Nat, e5 \in Nat :
          /\ e1 = Cardinality(E) /\ e2 = Cardinality(F) /\ e3 = Cardinality(G) /\ e4 = Cardinality(H)
          /\ e5 = Cardinality(Pairs(Y))
    BY <1>11, <1>12, <1>13, <1>14, <1>15
  <2>3. PICK b1 \in Nat, b2 \in Nat, b3 \in Nat, b4 \in Nat, b5 \in Nat :
          /\ b1 = Bit(p \in A) /\ b2 = Bit(p \in B) /\ b3 = Bit(p \in C) /\ b4 = Bit(p \in D)
          /\ b5 = Due(todo[p], i)
    BY <1>16, <1>21
  <2>4. PICK c1 \in Nat, c2 \in Nat, c3 \in Nat, c4 \in Nat, c5 \in Nat :
          /\ c1 = Bit(p \in E) /\ c2 = Bit(p \in F) /\ c3 = Bit(p \in G) /\ c4 = Bit(p \in H)
          /\ c5 = Due(todo'[p], i)
    BY <1>16, <1>21
  <2>5. e1 + b1 = a1 + c1 /\ e2 + b2 = a2 + c2 /\ e3 + b3 = a3 + c3 /\ e4 + b4 = a4 + c4
    BY <1>11, <1>12, <1>13, <1>14, <2>1, <2>2, <2>3, <2>4
  <2>6. e5 + b5 = a5 + c5 BY <1>15, <1>16, <2>1, <2>2, <2>3, <2>4
  <2>7. Users(i) = a1 + a2 + a3 + a4 + a5 /\ Users(i)' = e1 + e2 + e3 + e4 + e5 BY <1>17, <1>18, <2>1, <2>2
  <2>8. /\ Refs(todo[p], reg[p], cwd[p], i) = b1 + b2 + b3 + b4 + b5
        /\ Refs(todo'[p], reg'[p], cwd'[p], i) = c1 + c2 + c3 + c4 + c5
    BY <1>19, <1>20, <2>3, <2>4
  <2>9. (e1 + e2 + e3 + e4 + e5) + (b1 + b2 + b3 + b4 + b5) = (a1 + a2 + a3 + a4 + a5) + (c1 + c2 + c3 + c4 + c5)
    BY <2>5, <2>6
  <2> QED BY <2>7, <2>8, <2>9
<1> QED BY <1>22, <1>23, <1>24

(* What a step of p must do: the references of every inode change as its   *)
(* own do, and those of open files; it takes or gives back only its locks. *)
Balanced(p, i) ==
    inode'[i].ref = inode[i].ref + (Refs(todo'[p], reg'[p], cwd'[p], i) - Refs(todo[p], reg[p], cwd[p], i))
                      + (Cardinality(OpenAt(i)') - Cardinality(OpenAt(i)))
OwnLock(p, i) ==
    /\ Locks(todo'[p], reg'[p], i) = Bit(inode'[i].lock = p)
    /\ inode'[i].lock # inode[i].lock => {inode'[i].lock, inode[i].lock} \subseteq {None, p}
Frame(p) == \A q \in Procs \ {p} : todo'[q] = todo[q] /\ reg'[q] = reg[q] /\ cwd'[q] = cwd[q]

(* The open files of an inode are finitely many.                           *)
LEMMA OpenFinite ==
  ASSUME NEW i PROVE Cardinality(OpenAt(i)) \in Nat /\ Cardinality(OpenAt(i)') \in Nat
<1>1. IsFiniteSet(1 .. NFILE) BY FilesAssumption, FS_Interval
<1>2. PICK A, E : A = OpenAt(i) /\ E = OpenAt(i)' OBVIOUS
<1>3. A \subseteq 1 .. NFILE /\ E \subseteq 1 .. NFILE BY <1>2 DEF OpenAt
<1> QED BY <1>1, <1>2, <1>3, FS_Subset, FS_CardinalityType

(* Such a step keeps the counts.                                           *)
LEMMA Settle ==
  ASSUME OpInv, OpInv', RefInv, LockInv, NEW p \in Procs, Frame(p), \A i \in Inums : Balanced(p, i) /\ OwnLock(p, i)
  PROVE  RefInv' /\ LockInv'
<1>1. ASSUME NEW i \in Inums PROVE inode'[i].ref = Users(i)' + Cardinality(OpenAt(i)')
  <2>1. /\ Users(i) \in Nat /\ Users(i)' \in Nat
        /\ Refs(todo[p], reg[p], cwd[p], i) \in Nat /\ Refs(todo'[p], reg'[p], cwd'[p], i) \in Nat
        /\ Users(i)' + Refs(todo[p], reg[p], cwd[p], i) = Users(i) + Refs(todo'[p], reg'[p], cwd'[p], i)
    BY UsersStep DEF Frame
  <2>2. Cardinality(OpenAt(i)) \in Nat /\ Cardinality(OpenAt(i)') \in Nat BY OpenFinite
  <2>3. inode[i].ref = Users(i) + Cardinality(OpenAt(i)) BY DEF RefInv
  <2> QED BY <2>1, <2>2, <2>3 DEF Balanced
<1>2. ASSUME NEW i \in Inums
      PROVE  inode'[i].lock \in Procs \cup {None} /\ \A q \in Procs : Locks(todo'[q], reg'[q], i) = Bit(inode'[i].lock = q)
  <2>1. /\ inode[i].lock \in Procs \cup {None}
        /\ \A q \in Procs : Locks(todo[q], reg[q], i) = Bit(inode[i].lock = q)
    BY DEF LockInv
  <2>2. inode'[i].lock \in Procs \cup {None} BY <2>1 DEF OwnLock
  <2>3. ASSUME NEW q \in Procs PROVE Locks(todo'[q], reg'[q], i) = Bit(inode'[i].lock = q)
    <3>1. CASE q = p BY <3>1 DEF OwnLock
    <3>2. CASE q # p
      <4>1. Locks(todo'[q], reg'[q], i) = Bit(inode[i].lock = q) BY <2>1, <3>2 DEF Frame
      <4>2. q # None BY DEF Procs, None
      <4>3. inode'[i].lock = q <=> inode[i].lock = q BY <3>2, <4>2 DEF OwnLock
      <4> QED BY <4>1, <4>3 DEF Bit
    <3> QED BY <3>1, <3>2
  <2> QED BY <2>2, <2>3
<1> QED BY <1>1, <1>2 DEF RefInv, LockInv

-----------------------------------------------------------------------------
(* What a step does to counts and locks of the cached inodes.              *)

(* It takes a reference to g, and the lock of k becomes x.                 *)
Effect(g, k, x) == \A j \in Inums :
    inode'[j].ref = inode[j].ref + Bit(g = j) /\ inode'[j].lock = IF j = k THEN x ELSE inode[j].lock

(* Counts are numbers.                                                     *)
LEMMA RefsNat ==
  ASSUME OpInv, RefInv PROVE \A i \in Inums : inode[i].ref \in Nat
<1> SUFFICES ASSUME NEW i \in Inums PROVE inode[i].ref \in Nat OBVIOUS
<1>1. Cardinality(OpenAt(i)) \in Nat BY OpenFinite
<1>2. Users(i) \in Nat
  <2>1. IsFiniteSet(Procs) BY FilesAssumption, FS_Interval DEF Procs
  <2>2. CwdAt(i) \subseteq Procs /\ IpAt(i) \subseteq Procs /\ DpAt(i) \subseteq Procs /\ OldAt(i) \subseteq Procs
    BY DEF CwdAt, IpAt, DpAt, OldAt
  <2>3. /\ Cardinality(CwdAt(i)) \in Nat /\ Cardinality(IpAt(i)) \in Nat /\ Cardinality(DpAt(i)) \in Nat
        /\ Cardinality(OldAt(i)) \in Nat
    BY <2>1, <2>2, FS_Subset, FS_CardinalityType
  <2>4. \A q \in Procs : IsFiniteSet(Dues(i)[q])
    BY DueFinite DEF Dues, OpInv, AgendaOk, Good
  <2>5. Cardinality(Pairs(Dues(i))) \in Nat BY <2>4, PairsFinite, FS_CardinalityType
  <2> QED BY <2>3, <2>5 DEF Users
<1> QED BY <1>1, <1>2 DEF RefInv

(* ilock() changes neither count nor lock of the inode; it may stay locked. *)
LEMMA LockedIs ==
  ASSUME CacheInv, NEW i \in Inums, NEW p
  PROVE  /\ Whole(Ilocked(i)) /\ Ilocked(i).ref = inode[i].ref /\ Ilocked(i).lock = inode[i].lock
         /\ Whole(Hold(Ilocked(i), p)) /\ Hold(Ilocked(i), p).ref = inode[i].ref /\ Hold(Ilocked(i), p).lock = p
<1>1. Whole(inode[i]) BY DEF CacheInv, Coherent, Fits
<1>2. Whole(Ilocked(i)) /\ Ilocked(i).ref = inode[i].ref /\ Ilocked(i).lock = inode[i].lock
  BY <1>1 DEF Ilocked, Whole
<1> QED BY <1>2 DEF Hold, Whole

(* Nor does a change of the link count or of the content.                  *)
LEMMA SameCounts ==
  ASSUME NEW n, Whole(n), NEW x
  PROVE  /\ Whole([n EXCEPT !.nlink = x]) /\ [n EXCEPT !.nlink = x].ref = n.ref /\ [n EXCEPT !.nlink = x].lock = n.lock
         /\ Whole([n EXCEPT !.data = x]) /\ [n EXCEPT !.data = x].ref = n.ref /\ [n EXCEPT !.data = x].lock = n.lock
         /\ Whole([n EXCEPT !.lock = x]) /\ [n EXCEPT !.lock = x].ref = n.ref /\ [n EXCEPT !.lock = x].lock = x
BY DEF Whole

(* An inode is replaced by one with the same count.                        *)
LEMMA PutEffect ==
  ASSUME OpInv, CacheInv, RefInv, NEW k, NEW m, NEW x, k \in Inums => m.ref = inode[k].ref /\ m.lock = x,
         inode' = [inode EXCEPT ![k] = m]
  PROVE  Effect(None, k, x)
<1>1. inode = [j \in Inums |-> inode[j]] BY DEF CacheInv, Coherent
<1>2. \A j \in Inums : inode'[j] = IF j = k THEN m ELSE inode[j] BY <1>1
<1>3. \A j \in Inums : inode[j].ref \in Nat /\ Bit(None = j) = 0 BY RefsNat, NoInode0 DEF Bit
<1> QED BY <1>2, <1>3 DEF Effect

(* And a reference to another is taken.                                    *)
LEMMA GetEffect ==
  ASSUME OpInv, CacheInv, RefInv, NEW k, NEW m, NEW x, k \in Inums => Whole(m) /\ m.ref = inode[k].ref /\ m.lock = x,
         NEW g, inode' = IgetIn([inode EXCEPT ![k] = m], g)
  PROVE  Effect(g, k, x)
<1>1. inode = [j \in Inums |-> inode[j]] /\ \A j \in Inums : Whole(inode[j]) BY DEF CacheInv, Coherent, Fits
<1>2. PICK c : c = [inode EXCEPT ![k] = m] OBVIOUS
<1>3. c = [j \in Inums |-> c[j]] /\ \A j \in Inums : Whole(c[j]) /\ c[j] = IF j = k THEN m ELSE inode[j] BY <1>1, <1>2
<1>4. inode' = IgetIn(c, g) BY <1>2
<1>5. \A j \in Inums : inode[j].ref \in Nat /\ c[j].ref = inode[j].ref BY <1>3, RefsNat
<1>6. CASE g = None
  <2>1. \A j \in Inums : Bit(g = j) = 0 BY <1>6, NoInode0 DEF Bit
  <2>2. inode' = c BY <1>4, <1>6 DEF IgetIn
  <2>3. ASSUME NEW j \in Inums
        PROVE  inode'[j].ref = inode[j].ref + Bit(g = j) /\ inode'[j].lock = IF j = k THEN x ELSE inode[j].lock
    <3>1. inode'[j].ref = inode[j].ref /\ inode[j].ref \in Nat BY <1>5, <2>2
    <3>2. Bit(g = j) = 0 BY <2>1
    <3>3. inode'[j].lock = IF j = k THEN x ELSE inode[j].lock BY <1>3, <2>2
    <3>4. inode[j].ref + 0 = inode[j].ref BY <3>1
    <3> QED BY <3>1, <3>2, <3>3, <3>4
  <2> QED BY <2>3 DEF Effect
<1>7. CASE g # None
  <2>1. inode' = [c EXCEPT ![g].ref = @ + 1, ![g].valid = @ /\ c[g].ref > 0] BY <1>4, <1>7 DEF IgetIn
  <2>2. \A j \in Inums : j # g => inode'[j] = c[j] BY <1>3, <2>1
  <2>3. g \in Inums => inode'[g].ref = c[g].ref + 1 /\ inode'[g].lock = c[g].lock BY <1>3, <2>1 DEF Whole
  <2>4. \A j \in Inums : inode'[j].ref = c[j].ref + Bit(g = j) /\ inode'[j].lock = c[j].lock
    <3> SUFFICES ASSUME NEW j \in Inums PROVE inode'[j].ref = c[j].ref + Bit(g = j) /\ inode'[j].lock = c[j].lock
      OBVIOUS
    <3>1. c[j].ref \in Nat BY <1>5
    <3>2. CASE j = g
      <4>1. Bit(g = j) = 1 BY <3>2 DEF Bit
      <4> QED BY <2>3, <3>2, <4>1
    <3>3. CASE j # g
      <4>1. Bit(g = j) = 0 BY <3>3 DEF Bit
      <4>2. c[j].ref + 0 = c[j].ref BY <3>1
      <4> QED BY <2>2, <3>3, <4>1, <4>2
    <3> QED BY <3>2, <3>3
  <2> QED BY <1>3, <1>5, <2>4 DEF Effect
<1> QED BY <1>6, <1>7

(* An inode is read, and a reference to an entry of it taken, perhaps.     *)
LEMMA LookEffect ==
  ASSUME OpInv, CacheInv, RefInv, NEW k, NEW g, inode' = IgetIn([inode EXCEPT ![k] = Ilocked(k)], g)
  PROVE  Effect(g, None, None)
<1>1. PICK m : m = Ilocked(k) OBVIOUS
<1>2. k \in Inums => Whole(m) /\ m.ref = inode[k].ref /\ m.lock = inode[k].lock BY <1>1, LockedIs
<1>3. Effect(g, k, inode[k].lock) BY <1>1, <1>2, GetEffect
<1> QED BY <1>3, NoInode0 DEF Effect

(* An inode is read, and stays locked.                                     *)
LEMMA HoldEffect ==
  ASSUME OpInv, CacheInv, RefInv, NEW k, NEW p, NEW g, inode' = IgetIn([inode EXCEPT ![k] = Hold(Ilocked(k), p)], g)
  PROVE  Effect(g, k, p)
<1>1. PICK m : m = Hold(Ilocked(k), p) OBVIOUS
<1>2. k \in Inums => Whole(m) /\ m.ref = inode[k].ref /\ m.lock = p BY <1>1, LockedIs
<1> QED BY <1>1, <1>2, GetEffect

(* No reference is taken.                                                  *)
LEMMA IgetNone == ASSUME NEW c PROVE IgetIn(c, None) = c
BY DEF IgetIn

(* An inode is read, or changed.                                           *)
LEMMA SameEffect ==
  ASSUME OpInv, CacheInv, RefInv, NEW k, NEW m, k \in Inums => m.ref = inode[k].ref /\ m.lock = inode[k].lock,
         inode' = [inode EXCEPT ![k] = m]
  PROVE  Effect(None, None, None)
<1>1. Effect(None, k, inode[k].lock) BY PutEffect
<1> QED BY <1>1, NoInode0 DEF Effect

(* Nothing happens to an inode. *)
LEMMA NoEffect ==
  ASSUME OpInv, RefInv, UNCHANGED inode PROVE Effect(None, None, None)
BY RefsNat, NoInode0 DEF Effect, Bit

(* iget() of an inode, idup().                                             *)
LEMMA IgetEffect ==
  ASSUME OpInv, CacheInv, RefInv, NEW g, inode' = IgetIn(inode, g)
  PROVE  Effect(g, None, None)
<1>1. inode = [inode EXCEPT ![None] = inode[None]] BY NoInode0 DEF CacheInv, Coherent
<1>2. PICK m : m = inode[None] OBVIOUS
<1>3. inode' = IgetIn([inode EXCEPT ![None] = m], g) BY <1>1, <1>2
<1>4. None \in Inums => Whole(m) /\ m.ref = inode[None].ref /\ m.lock = inode[None].lock BY NoInode0
<1>5. Effect(g, None, inode[None].lock) BY <1>3, <1>4, GetEffect
<1> QED BY <1>5, NoInode0 DEF Effect

-----------------------------------------------------------------------------
(* What the agendas of the code have to give back.                         *)

(* What an item gives back, by its label.                                  *)
LEMMA ItemWeighs ==
  ASSUME NEW j, NEW i
  PROVE  /\ Drops(iput(j), i) = Bit(j = i) /\ Frees(iput(j), i) = 0 /\ iput(j)[1] = "iput"
         /\ Drops(iunlock(j), i) = 0 /\ Frees(iunlock(j), i) = Bit(j = i) /\ iunlock(j)[1] = "iunlock"
BY DEF Drops, Frees, Bit, iput, iunlock

(* An item of another kind gives back nothing.                             *)
LEMMA NoWeight ==
  ASSUME NEW x, x[1] \notin Pops, NEW i PROVE Drops(x, i) = 0 /\ Frees(x, i) = 0
BY DEF Drops, Frees, Bit, Pops

(* The labels of the other items.                                          *)
LEMMA Kinds ==
  /\ \A j : iput(j)[1] \in Pops /\ iunlock(j)[1] \in Pops
  /\ \A r : end_op(r)[1] = "end_op"
  /\ \A l : Item(l)[1] = l
  /\ \A l \in Pops : l \in {"iput", "ifree", "deref", "iunlock"}
BY DEF iput, iunlock, end_op, Item, Pops

(* The operation ends.                                                     *)
LEMMA WeighEnd ==
  ASSUME NEW r, NEW s, s = <<end_op(r)>>, NEW i PROVE Weighs(s, "end_op", "end_op", i, 0, 0)
<1>1. PICK a : a = end_op(r) OBVIOUS
<1>2. s = <<a>> /\ a[1] = "end_op" /\ a[1] \notin Pops BY <1>1, Kinds
<1> QED BY <1>2, WeighOne

(* One item of the call is left.                                           *)
LEMMA WeighItem ==
  ASSUME NEW l, l \notin Pops, NEW s, s = <<Item(l)>>, NEW i PROVE Weighs(s, l, l, i, 0, 0)
<1>1. PICK a : a = Item(l) OBVIOUS
<1>2. s = <<a>> /\ a[1] = l BY <1>1, Kinds
<1> QED BY <1>2, WeighOne

(* A reference is dropped before.                                          *)
LEMMA WeighPut ==
  ASSUME NEW j, NEW b, b[1] \notin Pops, NEW s, s = <<iput(j), b>>, NEW i
  PROVE  Weighs(s, b[1], b[1], i, Bit(j = i), 0)
<1>1. PICK a : a = iput(j) OBVIOUS
<1>2. IsTwo(s, a, b) BY <1>1 DEF IsTwo
<1>3. a[1] \in Pops /\ Drops(a, i) = Bit(j = i) /\ Frees(a, i) = 0 BY <1>1, Kinds, ItemWeighs
<1>4. Weighs(s, IF a[1] \in Pops THEN b[1] ELSE a[1], b[1], i, Drops(a, i), Frees(a, i)) BY <1>2, WeighTwo
<1> QED BY <1>3, <1>4

(* Two references.                                                         *)
LEMMA WeighPutPut ==
  ASSUME NEW j, NEW k, NEW r, NEW s, s = <<iput(j), iput(k), end_op(r)>>, NEW i
  PROVE  Weighs(s, "end_op", "end_op", i, Bit(j = i) + Bit(k = i), 0)
<1>1. PICK a, b, c : a = iput(j) /\ b = iput(k) /\ c = end_op(r) OBVIOUS
<1>2. IsThree(s, a, b, c) BY <1>1 DEF IsThree
<1>3. {a[1], b[1]} \subseteq Pops /\ c[1] = "end_op" /\ c[1] \notin Pops BY <1>1, Kinds
<1>4. /\ Drops(a, i) = Bit(j = i) /\ Frees(a, i) = 0 /\ Drops(b, i) = Bit(k = i) /\ Frees(b, i) = 0
  BY <1>1, ItemWeighs
<1>5. Weighs(s, c[1], c[1], i, Drops(a, i) + Drops(b, i), Frees(a, i) + Frees(b, i)) BY <1>2, <1>3, WeighThree
<1> QED BY <1>3, <1>4, <1>5

(* iunlockput() at the end of the call.                                    *)
LEMMA WeighUnlock ==
  ASSUME NEW j, NEW r, NEW s, s = iunlockput(j) \o <<end_op(r)>>, NEW i
  PROVE  Weighs(s, "end_op", "end_op", i, Bit(j = i), Bit(j = i))
<1>1. PICK a, b, c : a = iunlock(j) /\ b = iput(j) /\ c = end_op(r) OBVIOUS
<1>2. IsThree(s, a, b, c)
  <2>1. s = <<a, b>> \o <<c>> BY <1>1 DEF iunlockput
  <2> QED BY <2>1, ThreeConcat DEF IsThree
<1>3. {a[1], b[1]} \subseteq Pops /\ c[1] = "end_op" /\ c[1] \notin Pops BY <1>1, Kinds
<1>4. /\ Drops(a, i) = 0 /\ Frees(a, i) = Bit(j = i) /\ Drops(b, i) = Bit(j = i) /\ Frees(b, i) = 0
  BY <1>1, ItemWeighs
<1>5. Weighs(s, c[1], c[1], i, Drops(a, i) + Drops(b, i), Frees(a, i) + Frees(b, i)) BY <1>2, <1>3, WeighThree
<1>6. Bit(j = i) \in Nat BY DEF Bit
<1> QED BY <1>3, <1>4, <1>5, <1>6

PutUnlock(s, j, k, d) == s = <<iput(j)>> \o iunlockput(k) \o <<d>>

(* A reference, and iunlockput().                                          *)
LEMMA WeighPutUnlock ==
  ASSUME NEW j, NEW k, NEW d, d[1] \notin Pops, NEW s, PutUnlock(s, j, k, d), NEW i
  PROVE  Weighs(s, d[1], d[1], i, Bit(j = i) + Bit(k = i), Bit(k = i))
<1>1. PICK a, b, c : a = iput(j) /\ b = iunlock(k) /\ c = iput(k) OBVIOUS
<1>2. IsFour(s, a, b, c, d)
  <2>1. s = <<a>> \o <<b, c>> \o <<d>> BY <1>1 DEF iunlockput, PutUnlock
  <2> QED BY <2>1, FourConcat DEF IsFour
<1>3. {a[1], b[1], c[1]} \subseteq Pops BY <1>1, Kinds
<1>4. /\ Drops(a, i) = Bit(j = i) /\ Frees(a, i) = 0 /\ Drops(b, i) = 0 /\ Frees(b, i) = Bit(k = i)
      /\ Drops(c, i) = Bit(k = i) /\ Frees(c, i) = 0
  BY <1>1, ItemWeighs
<1>5. Weighs(s, d[1], d[1], i, Drops(a, i) + Drops(b, i) + Drops(c, i), Frees(a, i) + Frees(b, i) + Frees(c, i))
  BY <1>2, <1>3, WeighFour
<1>6. Bit(j = i) \in Nat /\ Bit(k = i) \in Nat BY DEF Bit
<1>7. Bit(j = i) + 0 + Bit(k = i) = Bit(j = i) + Bit(k = i) /\ 0 + Bit(k = i) + 0 = Bit(k = i) BY <1>6
<1> QED BY <1>4, <1>5, <1>7

(* Two items that give nothing back.                                       *)
LEMMA WeighTwoItems ==
  ASSUME NEW a, NEW b, {a[1], b[1]} \cap Pops = {}, NEW s, s = <<a, b>>, NEW i
  PROVE  Weighs(s, a[1], b[1], i, 0, 0)
<1>1. IsTwo(s, a, b) BY DEF IsTwo
<1>2. Weighs(s, IF a[1] \in Pops THEN b[1] ELSE a[1], b[1], i, Drops(a, i), Frees(a, i)) BY <1>1, WeighTwo
<1>3. Drops(a, i) = 0 /\ Frees(a, i) = 0 BY NoWeight
<1> QED BY <1>2, <1>3

-----------------------------------------------------------------------------
(* What the agenda of a process has to give back.                          *)

Lasts   == {"dup", "read", "write", "fstat", "writei", "link1", "link2", "linkbad", "unlink1", "unlink2",
            "unlink3", "open1", "open2", "mkdir", "chdir1", "chdir2", "dead"}
Lookups == {"namei", "nameiparent", "walk", "create", "exists", "ialloc", "newinode"}

(* The first item, and the others.                                         *)
LEMMA FirstItem ==
  ASSUME OpInv, NEW p \in Procs, todo[p] # <<>>, NEW t, t = Tail(todo[p]), NEW i
  PROVE  /\ Weighs(todo[p], IF Label(p) \in Pops THEN Main(t) ELSE Label(p), IF t = <<>> THEN Label(p) ELSE End(t), i,
                   Due(t, i) + Drops(todo[p][1], i), Unlocks(t, i) + Frees(todo[p][1], i))
         /\ Weighs(t, Main(t), End(t), i, Due(t, i), Unlocks(t, i))
         /\ todo[p][1][1] = Label(p) /\ todo[p][1][2] = Arg(p)
<1>1. PICK s, x : s = todo[p] /\ x = s[1] OBVIOUS
<1>2. s = Push(x, t) /\ Good(t) /\ Label(p) = x[1] /\ Arg(p) = x[2] BY <1>1, Popped
<1>3. IsPush(s, x, t) /\ IsList(t) BY <1>2 DEF IsPush, Good
<1>4. Weighs(s, IF x[1] \in Pops THEN Main(t) ELSE x[1], IF t = <<>> THEN x[1] ELSE End(t), i,
             Due(t, i) + Drops(x, i), Unlocks(t, i) + Frees(x, i)) BY <1>3, WeighPush
<1>5. Due(t, i) \in Nat /\ Unlocks(t, i) \in Nat BY <1>3, DueFinite
<1> QED BY <1>1, <1>2, <1>3, <1>4, <1>5 DEF Weighs

(* The last item of a call.                                                *)
LEMMA LastItem ==
  ASSUME OpInv, NEW p \in Procs, todo[p] # <<>>, Label(p) \in Lasts
  PROVE  Tail(todo[p]) = <<>> /\ \A i : Weighs(todo[p], Label(p), Label(p), i, 0, 0)
<1>1. Tail(todo[p]) = <<>>
  <2>1. Follows(Label(p), Tail(todo[p])) BY Popped
  <2>2. After(Label(p)) = {} BY AfterEnds DEF Lasts
  <2> QED BY <2>1, <2>2 DEF Follows
<1>2. SUFFICES ASSUME NEW i PROVE Weighs(todo[p], Label(p), Label(p), i, 0, 0) BY <1>1
<1>3. PICK t, x : t = Tail(todo[p]) /\ x = todo[p][1] OBVIOUS
<1>4. Weighs(todo[p], IF Label(p) \in Pops THEN Main(t) ELSE Label(p), IF t = <<>> THEN Label(p) ELSE End(t), i,
             Due(t, i) + Drops(x, i), Unlocks(t, i) + Frees(x, i)) /\ x[1] = Label(p)
  BY <1>3, FirstItem
<1>5. Label(p) \notin Pops BY DEF Lasts, Pops
<1>6. Drops(x, i) = 0 /\ Frees(x, i) = 0 BY <1>4, <1>5, NoWeight
<1>7. Due(t, i) = 0 /\ Unlocks(t, i) = 0 BY <1>1, <1>3, DueNone
<1> QED BY <1>1, <1>3, <1>4, <1>5, <1>6, <1>7

(* An item of a list before one that ends it.                              *)
LEMMA FirstMain ==
  ASSUME NEW t, Good(t), t # <<>>, t[1][1] \notin Pops
  PROVE  Main(t) = t[1][1] /\ (t[1][1] \in Lasts => End(t) = t[1][1])
<1>1. PICK x, u : x = t[1] /\ u = Tail(t) OBVIOUS
<1>2. t = Push(x, u) /\ Good(u) /\ Follows(x[1], u) /\ End(t) = IF u = <<>> THEN x[1] ELSE End(u) BY <1>1, GoodTail
<1>3. Main(t) = x[1] BY <1>1, <1>2, MainPush DEF Good
<1>4. x[1] \in Lasts => u = <<>>
  <2>1. x[1] \in Lasts => After(x[1]) = {} BY AfterEnds DEF Lasts
  <2> QED BY <1>2, <2>1 DEF Follows
<1> QED BY <1>1, <1>2, <1>3, <1>4

(* The lookup of a path, and what follows it.                              *)
LEMMA LookItem ==
  ASSUME OpInv, NEW p \in Procs, todo[p] # <<>>, Label(p) \in Lookups, NEW t, t = Tail(todo[p])
  PROVE  /\ t # <<>> /\ Main(t) \in After(Label(p)) /\ Main(t) = t[1][1]
         /\ End(t) \in {"link1", "open1", "chdir1", "unlink1", "link2", "open2", "mkdir"}
         /\ \A i : /\ Weighs(todo[p], Label(p), End(t), i, Due(t, i), Unlocks(t, i))
                   /\ Weighs(t, Main(t), End(t), i, Due(t, i), Unlocks(t, i))
<1>1. Good(t) /\ Follows(Label(p), t) BY Popped
<1>2. Label(p) \notin MayEnd /\ Label(p) \notin Pops BY DEF Lookups, MayEnd, Pops
<1>3. t # <<>> /\ t[1][1] \in After(Label(p)) BY <1>1, <1>2 DEF Follows
<1>4. After(Label(p)) \subseteq {"link1", "open1", "chdir1", "unlink1", "create", "link2", "open2", "mkdir"}
  BY AfterIs DEF Lookups
<1>5. PICK l : l = t[1][1] OBVIOUS
<1>6. l \in {"link1", "open1", "chdir1", "unlink1", "create", "link2", "open2", "mkdir"} BY <1>3, <1>4, <1>5
<1>7. l \notin Pops BY <1>6 DEF Pops
<1>8. Main(t) = l /\ (l \in Lasts => End(t) = l) BY <1>1, <1>3, <1>5, <1>7, FirstMain
<1>9. End(t) \in {"link1", "open1", "chdir1", "unlink1", "link2", "open2", "mkdir"}
  <2>1. CASE l # "create" BY <1>6, <1>8, <2>1 DEF Lasts
  <2>2. CASE l = "create"
    <3>1. PICK u : u = Tail(t) OBVIOUS
    <3>2. Good(u) /\ Follows(l, u) /\ End(t) = IF u = <<>> THEN l ELSE End(u) BY <1>1, <1>3, <1>5, <3>1, GoodTail
    <3>3. u # <<>> /\ u[1][1] \in {"open2", "mkdir"}
      <4>1. After("create") = {"open2", "mkdir"} BY AfterIs
      <4>2. "create" \notin MayEnd BY DEF MayEnd
      <4> QED BY <2>2, <3>2, <4>1, <4>2 DEF Follows
    <3>4. End(u) = u[1][1]
      <4>1. u[1][1] \notin Pops /\ u[1][1] \in Lasts BY <3>3 DEF Pops, Lasts
      <4> QED BY <3>2, <3>3, <4>1, FirstMain
    <3> QED BY <3>2, <3>3, <3>4
  <2> QED BY <2>1, <2>2
<1>10. ASSUME NEW i
       PROVE  /\ Weighs(todo[p], Label(p), End(t), i, Due(t, i), Unlocks(t, i))
              /\ Weighs(t, Main(t), End(t), i, Due(t, i), Unlocks(t, i))
  <2>1. PICK x : x = todo[p][1] OBVIOUS
  <2>2. /\ Weighs(todo[p], IF Label(p) \in Pops THEN Main(t) ELSE Label(p), IF t = <<>> THEN Label(p) ELSE End(t), i,
                  Due(t, i) + Drops(x, i), Unlocks(t, i) + Frees(x, i))
        /\ x[1] = Label(p) /\ Weighs(t, Main(t), End(t), i, Due(t, i), Unlocks(t, i))
    BY <2>1, FirstItem
  <2>3. Drops(x, i) = 0 /\ Frees(x, i) = 0 BY <1>2, <2>2, NoWeight
  <2>4. Due(t, i) \in Nat /\ Unlocks(t, i) \in Nat BY <2>2 DEF Weighs
  <2>5. Due(t, i) + 0 = Due(t, i) /\ Unlocks(t, i) + 0 = Unlocks(t, i) BY <2>4
  <2> QED BY <1>2, <1>3, <2>2, <2>3, <2>5
<1> QED BY <1>3, <1>5, <1>8, <1>9, <1>10

-----------------------------------------------------------------------------
(* Each step keeps the balance.                                            *)

(* The locks of p of which it holds the lock.                              *)
LEMMA Holds ==
  ASSUME LockInv, NEW p \in Procs, NEW i \in Inums, NEW m, NEW e, NEW d, NEW u, Weighs(todo[p], m, e, i, d, u)
  PROVE  VarLocks(m, reg[p], i) + u = Bit(inode[i].lock = p) /\ VarLocks(m, reg[p], i) \in Nat /\ u \in Nat
<1>1. Locks(todo[p], reg[p], i) = Bit(inode[i].lock = p) BY DEF LockInv
<1>2. VarLocks(m, reg[p], i) \in Nat BY DEF VarLocks, Bit
<1> QED BY <1>1, <1>2 DEF Locks, Weighs

(* Whoever holds a lock in one way is its holder, and does so in no other. *)
LEMMA Holder ==
  ASSUME LockInv, NEW p \in Procs, NEW i \in Inums, NEW m, NEW e, NEW d, NEW u, Weighs(todo[p], m, e, i, d, u)
  PROVE  /\ reg[p].ip = i /\ m \in LocksIp => inode[i].lock = p /\ ~(reg[p].dp = i /\ m \in UsesDp) /\ u = 0
         /\ reg[p].dp = i /\ m \in UsesDp => inode[i].lock = p /\ ~(reg[p].ip = i /\ m \in LocksIp) /\ u = 0
         /\ inode[i].lock = None => u = 0 /\ ~(reg[p].dp = i /\ m \in UsesDp) /\ ~(reg[p].ip = i /\ m \in LocksIp)
<1>1. VarLocks(m, reg[p], i) + u = Bit(inode[i].lock = p) /\ u \in Nat BY Holds
<1>2. p # None BY DEF Procs, None
<1>3. PICK a, b : a = Bit(reg[p].ip = i /\ m \in LocksIp) /\ b = Bit(reg[p].dp = i /\ m \in UsesDp) OBVIOUS
<1>4. a + b + u = Bit(inode[i].lock = p) /\ a \in {0, 1} /\ b \in {0, 1} BY <1>1, <1>3 DEF VarLocks, Bit
<1>5. (reg[p].ip = i /\ m \in LocksIp <=> a = 1) /\ (reg[p].dp = i /\ m \in UsesDp <=> b = 1) BY <1>3 DEF Bit
<1>6. Bit(inode[i].lock = p) \in {0, 1} /\ (Bit(inode[i].lock = p) = 1 <=> inode[i].lock = p) BY DEF Bit
<1> QED BY <1>1, <1>2, <1>4, <1>5, <1>6

(* The references and locks of a process are numbers.                      *)
LEMMA RefsType ==
  ASSUME OpInv, NEW p \in Procs, NEW i
  PROVE  Refs(todo[p], reg[p], cwd[p], i) \in Nat /\ Locks(todo[p], reg[p], i) \in Nat
<1>1. IsList(todo[p]) BY DEF OpInv, AgendaOk, Good
<1>2. Due(todo[p], i) \in Nat /\ Unlocks(todo[p], i) \in Nat BY <1>1, DueFinite
<1> QED BY <1>2 DEF Refs, Locks, VarRefs, VarLocks, Bit

MyRefs(p, i)  == Refs(todo[p], reg[p], cwd[p], i)
MyLocks(p, i) == Locks(todo[p], reg[p], i)

(* A step that leaves all locks.                                           *)
LEMMA Keeps ==
  ASSUME OpInv, CacheInv, RefInv, LockInv, NEW p \in Procs, NEW i \in Inums, OpenAt(i)' = OpenAt(i),
         NEW g, Effect(g, None, None), MyRefs(p, i)' = MyRefs(p, i) + Bit(g = i), MyLocks(p, i)' = MyLocks(p, i)
  PROVE  Balanced(p, i) /\ OwnLock(p, i)
<1>1. inode'[i].ref = inode[i].ref + Bit(g = i) /\ inode'[i].lock = inode[i].lock BY NoInode0 DEF Effect
<1>2. inode[i].ref \in Nat /\ Cardinality(OpenAt(i)) \in Nat BY RefsNat, OpenFinite
<1>3. MyRefs(p, i) \in Nat BY RefsType DEF MyRefs
<1>4. PICK b \in Nat : b = Bit(g = i) BY DEF Bit
<1>5. inode'[i].ref = inode[i].ref + (MyRefs(p, i)' - MyRefs(p, i)) + (Cardinality(OpenAt(i)') - Cardinality(OpenAt(i)))
  <2>1. PICK v \in Nat, o \in Nat, w \in Nat : v = MyRefs(p, i) /\ o = Cardinality(OpenAt(i)) /\ w = inode[i].ref
    BY <1>2, <1>3
  <2>2. w + b = w + ((v + b) - v) + (o - o) OBVIOUS
  <2> QED BY <1>1, <1>4, <2>1, <2>2
<1>6. Balanced(p, i) BY <1>5 DEF Balanced, MyRefs
<1>7. MyLocks(p, i)' = Bit(inode'[i].lock = p) BY <1>1 DEF MyLocks, LockInv
<1> QED BY <1>1, <1>6, <1>7 DEF OwnLock, MyLocks

(* A step that takes the lock of inode k.                                  *)
LEMMA Takes ==
  ASSUME OpInv, CacheInv, RefInv, LockInv, NEW p \in Procs, NEW i \in Inums, OpenAt(i)' = OpenAt(i),
         NEW g, NEW k, Effect(g, k, p), k \in Inums => inode[k].lock = None,
         MyRefs(p, i)' = MyRefs(p, i) + Bit(g = i), MyLocks(p, i)' = MyLocks(p, i) + Bit(k = i)
  PROVE  Balanced(p, i) /\ OwnLock(p, i)
<1>1. /\ inode'[i].ref = inode[i].ref + Bit(g = i)
      /\ inode'[i].lock = IF i = k THEN p ELSE inode[i].lock
  BY DEF Effect
<1>2. inode[i].ref \in Nat /\ Cardinality(OpenAt(i)) \in Nat BY RefsNat, OpenFinite
<1>3. MyRefs(p, i) \in Nat BY RefsType DEF MyRefs
<1>4. PICK b \in Nat : b = Bit(g = i) BY DEF Bit
<1>5. inode'[i].ref = inode[i].ref + (MyRefs(p, i)' - MyRefs(p, i)) + (Cardinality(OpenAt(i)') - Cardinality(OpenAt(i)))
  <2>1. PICK v \in Nat, o \in Nat, w \in Nat : v = MyRefs(p, i) /\ o = Cardinality(OpenAt(i)) /\ w = inode[i].ref
    BY <1>2, <1>3
  <2>2. w + b = w + ((v + b) - v) + (o - o) OBVIOUS
  <2> QED BY <1>1, <1>4, <2>1, <2>2
<1>6. Balanced(p, i) BY <1>5 DEF Balanced, MyRefs
<1>7. MyLocks(p, i) = Bit(inode[i].lock = p) BY DEF MyLocks, LockInv
<1>8. p # None BY DEF Procs, None
<1>9. MyLocks(p, i)' = Bit(inode'[i].lock = p) BY <1>1, <1>7, <1>8 DEF Bit
<1> QED BY <1>1, <1>6, <1>9 DEF OwnLock, MyLocks

(* A step that gives the lock of inode k back.                             *)
LEMMA GivesBack ==
  ASSUME OpInv, CacheInv, RefInv, LockInv, NEW p \in Procs, NEW i \in Inums, OpenAt(i)' = OpenAt(i),
         NEW k, Effect(None, k, None), MyRefs(p, i)' = MyRefs(p, i),
         MyLocks(p, i)' \in Nat, MyLocks(p, i) = MyLocks(p, i)' + Bit(k = i)
  PROVE  Balanced(p, i) /\ OwnLock(p, i)
<1>1. /\ inode'[i].ref = inode[i].ref + Bit(None = i)
      /\ inode'[i].lock = IF i = k THEN None ELSE inode[i].lock
  BY DEF Effect
<1>2. inode[i].ref \in Nat /\ Cardinality(OpenAt(i)) \in Nat BY RefsNat, OpenFinite
<1>3. MyRefs(p, i) \in Nat BY RefsType DEF MyRefs
<1>4. Bit(None = i) = 0 BY NoInode0 DEF Bit
<1>5. inode'[i].ref = inode[i].ref + (MyRefs(p, i)' - MyRefs(p, i)) + (Cardinality(OpenAt(i)') - Cardinality(OpenAt(i)))
  <2>1. PICK v \in Nat, o \in Nat, w \in Nat : v = MyRefs(p, i) /\ o = Cardinality(OpenAt(i)) /\ w = inode[i].ref
    BY <1>2, <1>3
  <2>2. w + 0 = w + (v - v) + (o - o) OBVIOUS
  <2> QED BY <1>1, <1>4, <2>1, <2>2
<1>6. Balanced(p, i) BY <1>5 DEF Balanced, MyRefs
<1>7. MyLocks(p, i) = Bit(inode[i].lock = p) BY DEF MyLocks, LockInv
<1>8. p # None BY DEF Procs, None
<1>9. MyLocks(p, i)' = Bit(inode'[i].lock = p) /\ (k = i => inode[i].lock = p) BY <1>1, <1>7, <1>8 DEF Bit
<1> QED BY <1>1, <1>6, <1>9 DEF OwnLock, MyLocks

(* The inode that the next item locks is not locked.                       *)
LEMMA Unlocked ==
  ASSUME NEW p, Step(p), Label(p) # "begin_op", Wants(p) # None PROVE inode[Wants(p)].lock = None
BY DEF Step, WaitsFor

(* Open files change only with ftable.                                     *)
LEMMA SameOpen == ASSUME UNCHANGED file, NEW i PROVE OpenAt(i)' = OpenAt(i)
BY DEF OpenAt

(* The registers and the directory of a process that the step leaves.      *)
LEMMA SetIs ==
  ASSUME Shapes, NEW p \in Procs, NEW r, Set(p, r) PROVE reg'[p] = r
BY DEF Shapes, Set

(* sys_link() raises the link count.                                       *)
LEMMA Link1Balance ==
  ASSUME CountInv, NEW p \in Procs, Step(p), Link1(p), NEW i \in Inums PROVE Balanced(p, i) /\ OwnLock(p, i)
<1>0. OpInv /\ CacheInv /\ RefInv /\ LockInv /\ Shapes BY DEF CountInv
<1>1. Label(p) = "link1" /\ todo[p] # <<>> /\ UNCHANGED pvars BY Labelled DEF Link1
<1>2. Weighs(todo[p], "link1", "link1", i, 0, 0) BY <1>0, <1>1, LastItem DEF Lasts
<1>3. OpenAt(i)' = OpenAt(i) /\ cwd'[p] = cwd[p] BY <1>1, SameOpen DEF pvars
<1>4. PICK ip : ip = reg[p].ip OBVIOUS
<1>5. RegOk(reg[p]) BY <1>0 DEF Shapes
<1>7. CASE IsDir(Ilocked(ip))
  <2>1. /\ inode' = [inode EXCEPT ![ip] = Ilocked(ip)] /\ Only(p, <<iput(ip), end_op(-1)>>) /\ reg' = reg
    BY <1>4, <1>7 DEF Link1
  <2>2. Effect(None, None, None) BY <1>0, <2>1, LookEffect, IgetNone
  <2>3. Weighs(todo'[p], "end_op", "end_op", i, Bit(ip = i), 0)
    <3>1. PICK b : b = end_op(-1) OBVIOUS
    <3>2. b[1] = "end_op" /\ b[1] \notin Pops BY <3>1, Kinds
    <3>3. todo'[p] = <<iput(ip), b>> BY <1>0, <2>1, <3>1, OnlyIs
    <3> QED BY <3>2, <3>3, WeighPut
  <2>4. MyRefs(p, i)' = MyRefs(p, i) + Bit(None = i) /\ MyLocks(p, i)' = MyLocks(p, i)
    BY <1>2, <1>3, <1>4, <2>1, <2>3, NoInode0
    DEF MyRefs, MyLocks, Refs, Locks, Weighs, VarRefs, VarLocks, Bit, UsesIp, UsesDp, LocksIp
  <2> QED BY <1>0, <1>3, <2>2, <2>4, Keeps
<1>8. CASE ~IsDir(Ilocked(ip))
  <2>1. PICK n, s : n = Ilocked(ip) /\ s = << <<"nameiparent", reg[p].call.new>>, Item("link2") >> OBVIOUS
  <2>2. PICK m : m = [n EXCEPT !.nlink = n.nlink + 1] OBVIOUS
  <2>3. /\ inode' = [inode EXCEPT ![ip] = m] /\ Only(p, s) /\ Set(p, [reg[p] EXCEPT !.old = ip])
    BY <1>4, <1>8, <2>1, <2>2 DEF Link1
  <2>4. Effect(None, None, None)
    <3>1. ip \in Inums => m.ref = inode[ip].ref /\ m.lock = inode[ip].lock BY <1>0, <2>1, <2>2, LockedIs, SameCounts
    <3> QED BY <1>0, <2>3, <3>1, SameEffect
  <2>5. Weighs(todo'[p], "nameiparent", "link2", i, 0, 0)
    <3>1. PICK a, b : a = <<"nameiparent", reg[p].call.new>> /\ b = Item("link2") OBVIOUS
    <3>2. a[1] = "nameiparent" /\ b[1] = "link2" BY <3>1, Kinds
    <3>3. {a[1], b[1]} \cap Pops = {} BY <3>2 DEF Pops
    <3>4. todo'[p] = <<a, b>> BY <1>0, <2>1, <2>3, <3>1, OnlyIs
    <3> QED BY <3>2, <3>3, <3>4, WeighTwoItems
  <2>6. reg'[p] = [reg[p] EXCEPT !.old = ip] BY <1>0, <2>3, SetIs
  <2>7. reg'[p].ip = ip /\ reg'[p].dp = reg[p].dp /\ reg'[p].old = ip BY <1>4, <1>5, <2>6 DEF RegOk
  <2>8. MyRefs(p, i)' = MyRefs(p, i) + Bit(None = i) /\ MyLocks(p, i)' = MyLocks(p, i)
    BY <1>2, <1>3, <1>4, <2>5, <2>7, NoInode0
    DEF MyRefs, MyLocks, Refs, Locks, Weighs, VarRefs, VarLocks, Bit, UsesIp, UsesDp, LocksIp
  <2> QED BY <1>0, <1>3, <2>4, <2>8, Keeps
<1> QED BY <1>7, <1>8

-----------------------------------------------------------------------------
(* What a step leaves, when the call returns. *)
LEMMA ReturnIs ==
  ASSUME OpInv, Shapes, NEW p \in Procs, NEW r, NEW x, Return(p, r, x)
  PROVE  todo'[p] = <<>> /\ reg'[p].ip = None /\ reg'[p].dp = None /\ reg'[p].old = None
         /\ \A i : Weighs(todo'[p], "user", "user", i, 0, 0)
<1>1. PICK s : s = <<>> OBVIOUS
<1>2. todo'[p] = <<>> BY <1>1, OnlyIs DEF Return
<1>3. reg'[p] = NoReg BY SetIs DEF Return
<1>4. \A i : Weighs(<<>>, "user", "user", i, 0, 0) BY EmptyList, DueNone DEF Weighs
<1>5. \A i : Weighs(todo'[p], "user", "user", i, 0, 0) BY <1>2, <1>4
<1>6. NoReg.ip = None /\ NoReg.dp = None /\ NoReg.old = None BY Zenon DEF NoReg
<1> QED BY <1>2, <1>3, <1>5, <1>6

(* The lock of an inode changes in the cache.                              *)
LEMMA LockEffect ==
  ASSUME OpInv, CacheInv, RefInv, NEW k, NEW x, inode' = [inode EXCEPT ![k].lock = x]
  PROVE  Effect(None, k, x)
<1>1. PICK m : m = [inode[k] EXCEPT !.lock = x] OBVIOUS
<1>2. inode' = [inode EXCEPT ![k] = m] BY <1>1
<1>3. k \in Inums => m.ref = inode[k].ref /\ m.lock = x BY <1>1, SameCounts DEF CacheInv, Coherent, Fits
<1> QED BY <1>2, <1>3, PutEffect

(* The rest of the agenda after an item that only gives something back.    *)
LEMMA PopItem ==
  ASSUME OpInv, NEW p \in Procs, todo[p] # <<>>, Label(p) \in Pops, NEW t, t = Tail(todo[p]), NEW i
  PROVE  /\ t # <<>> /\ IsList(t)
         /\ Weighs(todo[p], Main(t), End(t), i, Due(t, i) + Drops(todo[p][1], i), Unlocks(t, i) + Frees(todo[p][1], i))
         /\ Weighs(t, Main(t), End(t), i, Due(t, i), Unlocks(t, i))
         /\ todo[p][1][1] = Label(p) /\ todo[p][1][2] = Arg(p)
         /\ \A x, w : w = Push(x, t) /\ x[1] \in Pops
              => Weighs(w, Main(t), End(t), i, Due(t, i) + Drops(x, i), Unlocks(t, i) + Frees(x, i))
<1>1. t # <<>>
  <2>1. Follows(Label(p), t) BY Popped
  <2>2. Label(p) \notin MayEnd BY DEF Pops, MayEnd
  <2> QED BY <2>1, <2>2 DEF Follows
<1>2. /\ Weighs(todo[p], Main(t), End(t), i, Due(t, i) + Drops(todo[p][1], i), Unlocks(t, i) + Frees(todo[p][1], i))
      /\ Weighs(t, Main(t), End(t), i, Due(t, i), Unlocks(t, i))
      /\ todo[p][1][1] = Label(p) /\ todo[p][1][2] = Arg(p)
  BY <1>1, FirstItem
<1>3. IsList(t) BY <1>2 DEF Weighs
<1>4. ASSUME NEW x, NEW w, w = Push(x, t), x[1] \in Pops
      PROVE  Weighs(w, Main(t), End(t), i, Due(t, i) + Drops(x, i), Unlocks(t, i) + Frees(x, i))
  <2>1. IsPush(w, x, t) BY <1>4 DEF IsPush
  <2>2. Weighs(w, IF x[1] \in Pops THEN Main(t) ELSE x[1], IF t = <<>> THEN x[1] ELSE End(t), i,
               Due(t, i) + Drops(x, i), Unlocks(t, i) + Frees(x, i))
    BY <1>3, <2>1, WeighPush
  <2> QED BY <1>1, <1>4, <2>2
<1> QED BY <1>1, <1>2, <1>3, <1>4

(* iput() takes the lock to free the inode, or drops the reference.        *)
LEMMA IputBalance ==
  ASSUME CountInv, NEW p \in Procs, Step(p), Iput(p), NEW i \in Inums PROVE Balanced(p, i) /\ OwnLock(p, i)
<1>0. OpInv /\ CacheInv /\ RefInv /\ LockInv /\ Shapes BY DEF CountInv
<1>1. Label(p) = "iput" /\ todo[p] # <<>> /\ UNCHANGED <<file, cwd, reg>> BY Labelled DEF Iput, pvars
<1>2. PICK t, k, y : t = Tail(todo[p]) /\ k = Arg(p) /\ y = todo[p][1] OBVIOUS
<1>3. Label(p) \in Pops BY <1>1 DEF Pops
<1>4. /\ Weighs(todo[p], Main(t), End(t), i, Due(t, i) + Drops(y, i), Unlocks(t, i) + Frees(y, i))
      /\ Weighs(t, Main(t), End(t), i, Due(t, i), Unlocks(t, i))
      /\ y[1] = "iput" /\ y[2] = k
      /\ \A x, w : w = Push(x, t) /\ x[1] \in Pops
           => Weighs(w, Main(t), End(t), i, Due(t, i) + Drops(x, i), Unlocks(t, i) + Frees(x, i))
  BY <1>0, <1>1, <1>2, <1>3, PopItem
<1>5. Drops(y, i) = Bit(k = i) /\ Frees(y, i) = 0 BY <1>4 DEF Drops, Frees, Bit
<1>6. OpenAt(i)' = OpenAt(i) BY <1>1, SameOpen
<1>7. CASE MustFree(inode[k])
  <2>1. inode' = [inode EXCEPT ![k].lock = p] /\ Then(p, << <<"ifree", k>> >>) BY <1>2, <1>7 DEF Iput
  <2>2. PICK x : x = <<"ifree", k>> OBVIOUS
  <2>3. todo'[p] = Push(x, t) BY <1>0, <1>1, <1>2, <2>1, <2>2, ThenOne
  <2>4. x[1] \in Pops /\ Drops(x, i) = Bit(k = i) /\ Frees(x, i) = Bit(k = i) BY <2>2 DEF Pops, Drops, Frees, Bit
  <2>5. Weighs(todo'[p], Main(t), End(t), i, Due(t, i) + Drops(x, i), Unlocks(t, i) + Frees(x, i)) BY <1>4, <2>3, <2>4
  <2>6. Effect(None, k, p) BY <1>0, <2>1, LockEffect
  <2>7. k \in Inums => inode[k].lock = None
    <3>1. Wants(p) = k BY <1>1, <1>2 DEF Wants
    <3> QED BY <1>1, <3>1, Unlocked, NoInode0
  <2>8. MyRefs(p, i)' = MyRefs(p, i) + Bit(None = i) /\ MyLocks(p, i)' = MyLocks(p, i) + Bit(k = i)
    BY <1>1, <1>4, <1>5, <2>4, <2>5, NoInode0 DEF MyRefs, MyLocks, Refs, Locks, Weighs, VarRefs, VarLocks, Bit
  <2> QED BY <1>0, <1>6, <2>6, <2>7, <2>8, Takes
<1>8. CASE ~MustFree(inode[k])
  <2>1. UNCHANGED inode /\ Then(p, << <<"deref", k>> >>) BY <1>2, <1>8 DEF Iput
  <2>2. PICK x : x = <<"deref", k>> OBVIOUS
  <2>3. todo'[p] = Push(x, t) BY <1>0, <1>1, <1>2, <2>1, <2>2, ThenOne
  <2>4. x[1] \in Pops /\ Drops(x, i) = Bit(k = i) /\ Frees(x, i) = 0 BY <2>2 DEF Pops, Drops, Frees, Bit
  <2>5. Weighs(todo'[p], Main(t), End(t), i, Due(t, i) + Drops(x, i), Unlocks(t, i) + Frees(x, i)) BY <1>4, <2>3, <2>4
  <2>6. Effect(None, None, None) BY <1>0, <2>1, NoEffect
  <2>8. MyRefs(p, i)' = MyRefs(p, i) + Bit(None = i) /\ MyLocks(p, i)' = MyLocks(p, i)
    BY <1>1, <1>4, <1>5, <2>4, <2>5, NoInode0 DEF MyRefs, MyLocks, Refs, Locks, Weighs, VarRefs, VarLocks, Bit
  <2> QED BY <1>0, <1>6, <2>6, <2>8, Keeps
<1> QED BY <1>7, <1>8

(* The inode is free, and the lock given back.                             *)
LEMMA IfreeBalance ==
  ASSUME CountInv, NEW p \in Procs, Step(p), Ifree(p), NEW i \in Inums PROVE Balanced(p, i) /\ OwnLock(p, i)
<1>0. OpInv /\ CacheInv /\ RefInv /\ LockInv /\ Shapes BY DEF CountInv
<1>1. Label(p) = "ifree" /\ todo[p] # <<>> /\ UNCHANGED <<file, cwd, reg>> BY Labelled DEF Ifree, pvars
<1>2. PICK t, k, y : t = Tail(todo[p]) /\ k = Arg(p) /\ y = todo[p][1] OBVIOUS
<1>3. Label(p) \in Pops BY <1>1 DEF Pops
<1>4. /\ Weighs(todo[p], Main(t), End(t), i, Due(t, i) + Drops(y, i), Unlocks(t, i) + Frees(y, i))
      /\ Weighs(t, Main(t), End(t), i, Due(t, i), Unlocks(t, i))
      /\ y[1] = "ifree" /\ y[2] = k
      /\ \A x, w : w = Push(x, t) /\ x[1] \in Pops
           => Weighs(w, Main(t), End(t), i, Due(t, i) + Drops(x, i), Unlocks(t, i) + Frees(x, i))
  BY <1>0, <1>1, <1>2, <1>3, PopItem
<1>5. Drops(y, i) = Bit(k = i) /\ Frees(y, i) = Bit(k = i) BY <1>4 DEF Drops, Frees, Bit
<1>6. OpenAt(i)' = OpenAt(i) BY <1>1, SameOpen
<1>7. PICK m : m = [inode[k] EXCEPT !.lock = None, !.valid = FALSE, !.type = T_FREE, !.data = <<>>] OBVIOUS
<1>8. inode' = [inode EXCEPT ![k] = m] /\ Then(p, << <<"deref", k>> >>) BY <1>2, <1>7 DEF Ifree
<1>9. Effect(None, k, None)
  <2>1. k \in Inums => m.ref = inode[k].ref /\ m.lock = None BY <1>0, <1>7 DEF CacheInv, Coherent, Fits, Whole
  <2> QED BY <1>0, <1>8, <2>1, PutEffect
<1>10. PICK x : x = <<"deref", k>> OBVIOUS
<1>11. todo'[p] = Push(x, t) BY <1>0, <1>1, <1>2, <1>8, <1>10, ThenOne
<1>12. x[1] \in Pops /\ Drops(x, i) = Bit(k = i) /\ Frees(x, i) = 0 BY <1>10 DEF Pops, Drops, Frees, Bit
<1>13. Weighs(todo'[p], Main(t), End(t), i, Due(t, i) + Drops(x, i), Unlocks(t, i) + Frees(x, i)) BY <1>4, <1>11, <1>12
<1>14. MyRefs(p, i)' = MyRefs(p, i) /\ MyLocks(p, i)' \in Nat /\ MyLocks(p, i) = MyLocks(p, i)' + Bit(k = i)
  BY <1>1, <1>4, <1>5, <1>12, <1>13 DEF MyRefs, MyLocks, Refs, Locks, Weighs, VarRefs, VarLocks, Bit
<1> QED BY <1>0, <1>6, <1>9, <1>14, GivesBack

(* The lock is given back.                                                 *)
LEMMA IunlockBalance ==
  ASSUME CountInv, NEW p \in Procs, Step(p), Iunlock(p), NEW i \in Inums PROVE Balanced(p, i) /\ OwnLock(p, i)
<1>0. OpInv /\ CacheInv /\ RefInv /\ LockInv /\ Shapes BY DEF CountInv
<1>1. Label(p) = "iunlock" /\ todo[p] # <<>> /\ UNCHANGED <<file, cwd, reg>> BY Labelled DEF Iunlock, pvars
<1>2. PICK t, k, y : t = Tail(todo[p]) /\ k = Arg(p) /\ y = todo[p][1] OBVIOUS
<1>3. Label(p) \in Pops BY <1>1 DEF Pops
<1>4. /\ Weighs(todo[p], Main(t), End(t), i, Due(t, i) + Drops(y, i), Unlocks(t, i) + Frees(y, i))
      /\ Weighs(t, Main(t), End(t), i, Due(t, i), Unlocks(t, i))
      /\ y[1] = "iunlock" /\ y[2] = k
  BY <1>0, <1>1, <1>2, <1>3, PopItem
<1>5. Drops(y, i) = 0 /\ Frees(y, i) = Bit(k = i) BY <1>4 DEF Drops, Frees, Bit
<1>6. OpenAt(i)' = OpenAt(i) BY <1>1, SameOpen
<1>8. inode' = [inode EXCEPT ![k].lock = None] /\ Then(p, <<>>) BY <1>2 DEF Iunlock
<1>9. Effect(None, k, None) BY <1>0, <1>8, LockEffect
<1>11. todo'[p] = t BY <1>0, <1>1, <1>2, <1>8, ThenNone
<1>14. MyRefs(p, i)' = MyRefs(p, i) /\ MyLocks(p, i)' \in Nat /\ MyLocks(p, i) = MyLocks(p, i)' + Bit(k = i)
  BY <1>1, <1>4, <1>5, <1>11 DEF MyRefs, MyLocks, Refs, Locks, Weighs, VarRefs, VarLocks, Bit
<1> QED BY <1>0, <1>6, <1>9, <1>14, GivesBack

(* The reference is dropped.                                               *)
LEMMA DerefBalance ==
  ASSUME CountInv, NEW p \in Procs, Step(p), Deref(p), NEW i \in Inums PROVE Balanced(p, i) /\ OwnLock(p, i)
<1>0. OpInv /\ CacheInv /\ RefInv /\ LockInv /\ Shapes BY DEF CountInv
<1>1. Label(p) = "deref" /\ todo[p] # <<>> /\ UNCHANGED <<file, cwd, reg>> BY Labelled DEF Deref, pvars
<1>2. PICK t, k, y : t = Tail(todo[p]) /\ k = Arg(p) /\ y = todo[p][1] OBVIOUS
<1>3. Label(p) \in Pops BY <1>1 DEF Pops
<1>4. /\ Weighs(todo[p], Main(t), End(t), i, Due(t, i) + Drops(y, i), Unlocks(t, i) + Frees(y, i))
      /\ Weighs(t, Main(t), End(t), i, Due(t, i), Unlocks(t, i))
      /\ y[1] = "deref" /\ y[2] = k
  BY <1>0, <1>1, <1>2, <1>3, PopItem
<1>5. Drops(y, i) = Bit(k = i) /\ Frees(y, i) = 0 BY <1>4 DEF Drops, Frees, Bit
<1>6. OpenAt(i)' = OpenAt(i) BY <1>1, SameOpen
<1>7. inode' = [inode EXCEPT ![k].ref = @ - 1] /\ Then(p, <<>>) BY <1>2 DEF Deref
<1>8. todo'[p] = t BY <1>0, <1>1, <1>2, <1>7, ThenNone
<1>9. inode'[i].ref = inode[i].ref - Bit(k = i) /\ inode'[i].lock = inode[i].lock
  <2>1. inode = [j \in Inums |-> inode[j]] /\ Whole(inode[i]) BY <1>0 DEF CacheInv, Coherent, Fits
  <2>2. inode[i].ref \in Nat BY <1>0, RefsNat
  <2> QED BY <1>7, <2>1, <2>2 DEF Whole, Bit
<1>10. MyRefs(p, i) = MyRefs(p, i)' + Bit(k = i) /\ MyRefs(p, i)' \in Nat /\ MyLocks(p, i)' = MyLocks(p, i)
  BY <1>1, <1>4, <1>5, <1>8 DEF MyRefs, MyLocks, Refs, Locks, Weighs, VarRefs, VarLocks, Bit
<1>11. Balanced(p, i)
  <2>1. inode[i].ref \in Nat /\ Cardinality(OpenAt(i)) \in Nat BY <1>0, RefsNat, OpenFinite
  <2>2. PICK v \in Nat, o \in Nat, w \in Nat, b \in Nat :
          v = MyRefs(p, i)' /\ o = Cardinality(OpenAt(i)) /\ w = inode[i].ref /\ b = Bit(k = i)
    BY <1>10, <2>1 DEF Bit
  <2>3. w - b = w + (v - (v + b)) + (o - o) OBVIOUS
  <2>4. inode'[i].ref = inode[i].ref + (MyRefs(p, i)' - MyRefs(p, i)) + (Cardinality(OpenAt(i)') - Cardinality(OpenAt(i)))
    BY <1>6, <1>9, <1>10, <2>2, <2>3
  <2> QED BY <2>4 DEF Balanced, MyRefs
<1>12. MyLocks(p, i)' = Bit(inode'[i].lock = p) BY <1>0, <1>9, <1>10 DEF MyLocks, LockInv
<1> QED BY <1>9, <1>11, <1>12 DEF OwnLock, MyLocks

(* begin_op(): the variables of the call are not set yet.                  *)
LEMMA BeginOpBalance ==
  ASSUME CountInv, NEW p \in Procs, Step(p), BeginOp(p), NEW i \in Inums PROVE Balanced(p, i) /\ OwnLock(p, i)
<1>0. OpInv /\ CacheInv /\ RefInv /\ LockInv /\ Shapes BY DEF CountInv
<1>1. /\ Label(p) = "begin_op" /\ todo[p] # <<>> /\ UNCHANGED <<inode, file, cwd, reg>> /\ Then(p, <<>>)
  BY Labelled DEF BeginOp, pvars, fsvars
<1>2. PICK t, y : t = Tail(todo[p]) /\ y = todo[p][1] OBVIOUS
<1>3. t # <<>>
  <2>1. Follows("begin_op", t) BY <1>0, <1>1, <1>2, Popped
  <2>2. "begin_op" \notin MayEnd BY DEF MayEnd
  <2> QED BY <2>1, <2>2 DEF Follows
<1>4. "begin_op" \notin Pops /\ "begin_op" \in Outside BY DEF Pops, Outside
<1>5. /\ Weighs(todo[p], "begin_op", End(t), i, Due(t, i) + Drops(y, i), Unlocks(t, i) + Frees(y, i))
      /\ Weighs(t, Main(t), End(t), i, Due(t, i), Unlocks(t, i)) /\ y[1] = "begin_op"
  BY <1>0, <1>1, <1>2, <1>3, <1>4, FirstItem
<1>6. Drops(y, i) = 0 /\ Frees(y, i) = 0 BY <1>4, <1>5, NoWeight
<1>7. OpenAt(i)' = OpenAt(i) /\ Effect(None, None, None) BY <1>0, <1>1, SameOpen, NoEffect
<1>8. todo'[p] = t BY <1>0, <1>1, <1>2, ThenNone
<1>9. reg[p].ip = None /\ reg[p].dp = None
  <2>1. Main(todo[p]) = "begin_op" BY <1>5 DEF Weighs
  <2> QED BY <1>4, <2>1 DEF CountInv, CallOk
<1>10. MyRefs(p, i)' = MyRefs(p, i) + Bit(None = i) /\ MyLocks(p, i)' = MyLocks(p, i)
  BY <1>1, <1>5, <1>6, <1>8, <1>9, NoInode0 DEF MyRefs, MyLocks, Refs, Locks, Weighs, VarRefs, VarLocks, Bit
<1> QED BY <1>0, <1>7, <1>10, Keeps

(* end_op(), at the end of a call or in exit().                            *)
LEMMA EndOpBalance ==
  ASSUME CountInv, NEW p \in Procs, Step(p), EndOp(p), NEW i \in Inums PROVE Balanced(p, i) /\ OwnLock(p, i)
<1>0. OpInv /\ CacheInv /\ RefInv /\ LockInv /\ Shapes BY DEF CountInv
<1>1. Label(p) = "end_op" /\ todo[p] # <<>> /\ UNCHANGED <<inode, file, cwd>> BY Labelled DEF EndOp, pvars, fsvars
<1>2. PICK t, y : t = Tail(todo[p]) /\ y = todo[p][1] OBVIOUS
<1>4. "end_op" \notin Pops BY DEF Pops
<1>5. /\ Weighs(todo[p], "end_op", IF t = <<>> THEN "end_op" ELSE End(t), i, Due(t, i) + Drops(y, i), Unlocks(t, i) + Frees(y, i))
      /\ Weighs(t, Main(t), End(t), i, Due(t, i), Unlocks(t, i)) /\ y[1] = "end_op"
  BY <1>0, <1>1, <1>2, <1>4, FirstItem
<1>6. Drops(y, i) = 0 /\ Frees(y, i) = 0 BY <1>4, <1>5, NoWeight
<1>7. OpenAt(i)' = OpenAt(i) /\ Effect(None, None, None) BY <1>0, <1>1, SameOpen, NoEffect
<1>8. CASE t = <<>>
  <2>1. Return(p, Arg(p), <<>>) BY <1>0, <1>1, <1>2, <1>8, Popped DEF EndOp
  <2>2. Weighs(todo'[p], "user", "user", i, 0, 0) BY <1>0, <2>1, ReturnIs
  <2>3. Due(t, i) = 0 /\ Unlocks(t, i) = 0 BY <1>8, DueNone
  <2>5. Weighs(todo[p], "end_op", "end_op", i, 0, 0) BY <1>5, <1>6, <1>8, <2>3
  <2>4. MyRefs(p, i)' = MyRefs(p, i) + Bit(None = i) /\ MyLocks(p, i)' = MyLocks(p, i)
    BY <1>1, <2>2, <2>5, NoInode0
    DEF MyRefs, MyLocks, Refs, Locks, Weighs, VarRefs, VarLocks, Bit, UsesIp, UsesDp, LocksIp
  <2> QED BY <1>0, <1>7, <2>4, Keeps
<1>9. CASE t # <<>>
  <2>1. Then(p, <<>>) /\ UNCHANGED reg BY <1>0, <1>1, <1>2, <1>9, Popped DEF EndOp
  <2>2. todo'[p] = t BY <1>0, <1>1, <1>2, <2>1, ThenNone
  <2>3. End(t) = "dead" /\ End(todo[p]) = "dead"
    <3>1. Follows("end_op", t) BY <1>0, <1>1, <1>2, Popped
    <3> QED BY <1>5, <1>9, <3>1 DEF Follows, Weighs
  <2>4. reg[p].ip = None /\ reg[p].dp = None BY <2>3 DEF CountInv, CallOk
  <2>5. MyRefs(p, i)' = MyRefs(p, i) + Bit(None = i) /\ MyLocks(p, i)' = MyLocks(p, i)
    BY <1>1, <1>5, <1>6, <1>9, <2>1, <2>2, <2>3, <2>4, NoInode0
    DEF MyRefs, MyLocks, Refs, Locks, Weighs, VarRefs, VarLocks, Bit
  <2> QED BY <1>0, <1>7, <2>5, Keeps
<1> QED BY <1>8, <1>9

(* What may follow a lookup uses the inode that was found, and no other.   *)
LEMMA AfterLook ==
  ASSUME NEW l
  PROVE  /\ l \in After("namei") \cup After("nameiparent") \cup After("walk") \cup {"walk", "exists"}
              => l \in UsesIp /\ l \notin UsesDp /\ l \notin LocksIp
         /\ l \in After("create") => l \in UsesIp /\ l \in LocksIp /\ l \notin UsesDp
         /\ l \in Lookups => l \notin LocksIp /\ l \notin Pops
         /\ l \in {"namei", "nameiparent"} => l \notin UsesIp /\ l \notin UsesDp
         /\ l \in {"link1", "open1", "chdir1", "unlink1", "link2", "open2", "mkdir"}
              => l \notin {"dead", "chdir2", "writei"}
BY AfterIs DEF UsesIp, UsesDp, LocksIp, Lookups, Pops

(* namex() up to its loop.                                                 *)
LEMMA NamexBalance ==
  ASSUME CountInv, NEW p \in Procs, Step(p), Namex(p), NEW i \in Inums PROVE Balanced(p, i) /\ OwnLock(p, i)
<1>0. OpInv /\ CacheInv /\ RefInv /\ LockInv /\ Shapes BY DEF CountInv
<1>1. Label(p) \in {"namei", "nameiparent"} /\ todo[p] # <<>> /\ UNCHANGED <<file, cwd>>
  BY Labelled DEF Namex, pvars
<1>2. PICK t, ip, es : t = Tail(todo[p]) /\ ip = StartOf(p, Arg(p)) /\ es = Arg(p).elems OBVIOUS
<1>3. Label(p) \in Lookups BY <1>1 DEF Lookups
<1>4. /\ t # <<>> /\ Main(t) \in After(Label(p))
      /\ Weighs(todo[p], Label(p), End(t), i, Due(t, i), Unlocks(t, i))
      /\ Weighs(t, Main(t), End(t), i, Due(t, i), Unlocks(t, i))
  BY <1>0, <1>1, <1>2, <1>3, LookItem
<1>5. IsList(t) BY <1>4 DEF Weighs
<1>6. OpenAt(i)' = OpenAt(i) BY <1>1, SameOpen
<1>7. Effect(ip, None, None) BY <1>0, <1>2, IgetEffect DEF Namex
<1>8. Main(t) \in UsesIp /\ Main(t) \notin UsesDp /\ Main(t) \notin LocksIp BY <1>1, <1>4, AfterLook
<1>9. Label(p) \notin UsesIp /\ Label(p) \notin UsesDp /\ Label(p) \notin LocksIp BY <1>1, <1>3, AfterLook
<1>10. RegOk(reg[p]) BY <1>0 DEF Shapes
<1>11. CASE es # <<>>
  <2>1. PICK x : x = <<"walk", Label(p) = "nameiparent">> OBVIOUS
  <2>2. Set(p, [reg[p] EXCEPT !.ip = ip, !.elems = es]) /\ Then(p, <<x>>) BY <1>2, <1>11, <2>1 DEF Namex
  <2>3. reg'[p] = [reg[p] EXCEPT !.ip = ip, !.elems = es] BY <1>0, <2>2, SetIs
  <2>4. reg'[p].ip = ip /\ reg'[p].dp = reg[p].dp /\ reg'[p].old = reg[p].old BY <1>10, <2>3 DEF RegOk
  <2>5. IsPush(todo'[p], x, t) BY <1>0, <1>1, <1>2, <2>2, ThenOne DEF IsPush
  <2>6. x[1] = "walk" /\ x[1] \notin Pops BY <2>1 DEF Pops
  <2>7. Weighs(todo'[p], "walk", End(t), i, Due(t, i) + Drops(x, i), Unlocks(t, i) + Frees(x, i))
    BY <1>4, <1>5, <2>5, <2>6, WeighPush
  <2>8. Drops(x, i) = 0 /\ Frees(x, i) = 0 BY <2>6, NoWeight
  <2>9. "walk" \in UsesIp /\ "walk" \notin UsesDp /\ "walk" \notin LocksIp BY AfterLook
  <2>10. MyRefs(p, i)' = MyRefs(p, i) + Bit(ip = i) /\ MyLocks(p, i)' = MyLocks(p, i)
    BY <1>1, <1>4, <1>9, <2>4, <2>7, <2>8, <2>9
    DEF MyRefs, MyLocks, Refs, Locks, Weighs, VarRefs, VarLocks, Bit
  <2> QED BY <1>0, <1>6, <1>7, <2>10, Keeps
<1>12. CASE es = <<>> /\ Label(p) = "namei"
  <2>1. Set(p, [reg[p] EXCEPT !.ip = ip]) /\ Then(p, <<>>) BY <1>2, <1>12 DEF Namex
  <2>3. reg'[p] = [reg[p] EXCEPT !.ip = ip] BY <1>0, <2>1, SetIs
  <2>4. reg'[p].ip = ip /\ reg'[p].dp = reg[p].dp /\ reg'[p].old = reg[p].old BY <1>10, <2>3 DEF RegOk
  <2>5. todo'[p] = t BY <1>0, <1>1, <1>2, <2>1, ThenNone
  <2>10. MyRefs(p, i)' = MyRefs(p, i) + Bit(ip = i) /\ MyLocks(p, i)' = MyLocks(p, i)
    BY <1>1, <1>4, <1>8, <1>9, <2>4, <2>5
    DEF MyRefs, MyLocks, Refs, Locks, Weighs, VarRefs, VarLocks, Bit
  <2> QED BY <1>0, <1>6, <1>7, <2>10, Keeps
<1>13. CASE es = <<>> /\ Label(p) # "namei"
  <2>1. PICK x : x = iput(ip) OBVIOUS
  <2>2. Set(p, [reg[p] EXCEPT !.ip = None]) /\ Then(p, <<x>>) BY <1>2, <1>13, <2>1 DEF Namex
  <2>3. reg'[p] = [reg[p] EXCEPT !.ip = None] BY <1>0, <2>2, SetIs
  <2>4. reg'[p].ip = None /\ reg'[p].dp = reg[p].dp /\ reg'[p].old = reg[p].old BY <1>10, <2>3 DEF RegOk
  <2>5. IsPush(todo'[p], x, t) BY <1>0, <1>1, <1>2, <2>2, ThenOne DEF IsPush
  <2>6. x[1] \in Pops /\ Drops(x, i) = Bit(ip = i) /\ Frees(x, i) = 0 BY <2>1, Kinds, ItemWeighs
  <2>7. Weighs(todo'[p], Main(t), End(t), i, Due(t, i) + Drops(x, i), Unlocks(t, i) + Frees(x, i))
    BY <1>4, <1>5, <2>5, <2>6, WeighPush
  <2>10. MyRefs(p, i)' = MyRefs(p, i) + Bit(ip = i) /\ MyLocks(p, i)' = MyLocks(p, i)
    BY <1>1, <1>4, <1>8, <1>9, <2>4, <2>6, <2>7, NoInode0
    DEF MyRefs, MyLocks, Refs, Locks, Weighs, VarRefs, VarLocks, Bit
  <2> QED BY <1>0, <1>6, <1>7, <2>10, Keeps
<1> QED BY <1>11, <1>12, <1>13

(* One turn of the loop of namex().                                        *)
LEMMA WalkBalance ==
  ASSUME CountInv, NEW p \in Procs, Step(p), Walk(p), NEW i \in Inums PROVE Balanced(p, i) /\ OwnLock(p, i)
<1>0. OpInv /\ CacheInv /\ RefInv /\ LockInv /\ Shapes BY DEF CountInv
<1>1. Label(p) = "walk" /\ todo[p] # <<>> /\ UNCHANGED <<file, cwd>> BY Labelled DEF Walk, pvars
<1>2. PICK t, ip, es : t = Tail(todo[p]) /\ ip = reg[p].ip /\ es = reg[p].elems OBVIOUS
<1>3. Label(p) \in Lookups BY <1>1 DEF Lookups
<1>4. /\ t # <<>> /\ Main(t) \in After("walk")
      /\ Weighs(todo[p], "walk", End(t), i, Due(t, i), Unlocks(t, i))
      /\ Weighs(t, Main(t), End(t), i, Due(t, i), Unlocks(t, i))
  BY <1>0, <1>1, <1>2, <1>3, LookItem
<1>5. IsList(t) /\ Due(t, i) \in Nat /\ Unlocks(t, i) \in Nat BY <1>4 DEF Weighs
<1>6. OpenAt(i)' = OpenAt(i) BY <1>1, SameOpen
<1>8. /\ Main(t) \in UsesIp /\ Main(t) \notin UsesDp /\ Main(t) \notin LocksIp
      /\ "walk" \in UsesIp /\ "walk" \notin UsesDp /\ "walk" \notin LocksIp
  BY <1>4, AfterLook
<1>10. RegOk(reg[p]) BY <1>0 DEF Shapes
<1>11. PICK a, b : a = iput(ip) /\ b = todo[p][1] OBVIOUS
<1>12. a[1] \in Pops /\ Drops(a, i) = Bit(ip = i) /\ Frees(a, i) = 0 BY <1>11, Kinds, ItemWeighs
<1>13. PICK next : inode' = IgetIn([inode EXCEPT ![ip] = Ilocked(ip)], next)
         /\ \/ next = None /\ Then(p, <<>>) /\ \E s : reg'[p] = [reg[p] EXCEPT !.name = s, !.elems = <<>>]
            \/ next = None /\ Then(p, <<a>>) /\ reg'[p] = [reg[p] EXCEPT !.ip = None, !.elems = <<>>]
            \/ (Then(p, <<a>>) \/ Then(p, <<a, b>>)) /\ reg'[p] = [reg[p] EXCEPT !.ip = next, !.elems = Tail(es)]
  <2> DEFINE n == Ilocked(ip)
             stop == Arg(p) /\ Len(es) = 1
             next == IF IsDir(n) /\ ~stop THEN dirlookup(n, skipelem(es)) ELSE None
  <2>1. /\ inode' = IgetIn([inode EXCEPT ![ip] = n], next)
        /\ \/ IsDir(n) /\ stop /\ Set(p, [reg[p] EXCEPT !.name = skipelem(es), !.elems = <<>>]) /\ Then(p, <<>>)
           \/ (~IsDir(n) \/ (~stop /\ next = None)) /\ Set(p, [reg[p] EXCEPT !.ip = None, !.elems = <<>>]) /\ Then(p, <<a>>)
           \/ Set(p, [reg[p] EXCEPT !.ip = next, !.elems = Tail(es)])
              /\ Then(p, <<a>> \o IF Len(es) = 1 THEN <<>> ELSE <<b>>)
    BY <1>2, <1>11 DEF Walk
  <2>2. IsDir(n) /\ stop => next = None BY DEF next
  <2>3. ~IsDir(n) \/ (~stop /\ next = None) => next = None BY DEF next
  <2>4. \A r : Set(p, r) => reg'[p] = r BY <1>0, SetIs
  <2>5. Then(p, <<a>> \o IF Len(es) = 1 THEN <<>> ELSE <<b>>) => Then(p, <<a>>) \/ Then(p, <<a, b>>)
    <3>1. <<a>> \o <<b>> = <<a, b>> BY PairConcat
    <3>2. <<a>> \o <<>> = <<a>> OBVIOUS
    <3> QED BY <3>1, <3>2
  <2> HIDE DEF n, stop, next
  <2>6. inode' = IgetIn([inode EXCEPT ![ip] = Ilocked(ip)], next) BY <2>1 DEF n
  <2>7. \/ next = None /\ Then(p, <<>>) /\ \E s : reg'[p] = [reg[p] EXCEPT !.name = s, !.elems = <<>>]
        \/ next = None /\ Then(p, <<a>>) /\ reg'[p] = [reg[p] EXCEPT !.ip = None, !.elems = <<>>]
        \/ (Then(p, <<a>>) \/ Then(p, <<a, b>>)) /\ reg'[p] = [reg[p] EXCEPT !.ip = next, !.elems = Tail(es)]
    <3>1. CASE IsDir(n) /\ stop /\ Set(p, [reg[p] EXCEPT !.name = skipelem(es), !.elems = <<>>]) /\ Then(p, <<>>)
      BY <2>2, <2>4, <3>1
    <3>2. CASE (~IsDir(n) \/ (~stop /\ next = None)) /\ Set(p, [reg[p] EXCEPT !.ip = None, !.elems = <<>>]) /\ Then(p, <<a>>)
      BY <2>3, <2>4, <3>2
    <3>3. CASE Set(p, [reg[p] EXCEPT !.ip = next, !.elems = Tail(es)])
               /\ Then(p, <<a>> \o IF Len(es) = 1 THEN <<>> ELSE <<b>>)
      BY <2>4, <2>5, <3>3
    <3> QED BY <2>1, <3>1, <3>2, <3>3
  <2> QED BY <2>6, <2>7
<1>14. Effect(next, None, None) BY <1>0, <1>13, LookEffect
<1>15. CASE next = None /\ Then(p, <<>>) /\ \E s : reg'[p] = [reg[p] EXCEPT !.name = s, !.elems = <<>>]
  <2>1. todo'[p] = t BY <1>0, <1>1, <1>2, <1>15, ThenNone
  <2>2. reg'[p].ip = ip /\ reg'[p].dp = reg[p].dp /\ reg'[p].old = reg[p].old BY <1>2, <1>10, <1>15 DEF RegOk
  <2>3. MyRefs(p, i)' = MyRefs(p, i) + Bit(None = i) /\ MyLocks(p, i)' = MyLocks(p, i)
    BY <1>1, <1>2, <1>4, <1>8, <2>1, <2>2, NoInode0
    DEF MyRefs, MyLocks, Refs, Locks, Weighs, VarRefs, VarLocks, Bit
  <2> QED BY <1>0, <1>6, <1>14, <1>15, <2>3, Keeps
<1>16. CASE next = None /\ Then(p, <<a>>) /\ reg'[p] = [reg[p] EXCEPT !.ip = None, !.elems = <<>>]
  <2>1. IsPush(todo'[p], a, t) BY <1>0, <1>1, <1>2, <1>16, ThenOne DEF IsPush
  <2>2. reg'[p].ip = None /\ reg'[p].dp = reg[p].dp /\ reg'[p].old = reg[p].old BY <1>10, <1>16 DEF RegOk
  <2>3. Weighs(todo'[p], Main(t), End(t), i, Due(t, i) + Drops(a, i), Unlocks(t, i) + Frees(a, i))
    BY <1>4, <1>5, <1>12, <2>1, WeighPush
  <2>4. MyRefs(p, i)' = MyRefs(p, i) + Bit(None = i) /\ MyLocks(p, i)' = MyLocks(p, i)
    BY <1>1, <1>2, <1>4, <1>8, <1>12, <2>2, <2>3, NoInode0
    DEF MyRefs, MyLocks, Refs, Locks, Weighs, VarRefs, VarLocks, Bit
  <2> QED BY <1>0, <1>6, <1>14, <1>16, <2>4, Keeps
<1>17. CASE (Then(p, <<a>>) \/ Then(p, <<a, b>>)) /\ reg'[p] = [reg[p] EXCEPT !.ip = next, !.elems = Tail(es)]
  <2>1. PICK m : m \in {Main(t), "walk"} /\ Weighs(todo'[p], m, End(t), i, Due(t, i) + Bit(ip = i), Unlocks(t, i))
    <3>1. CASE Then(p, <<a>>)
      <4>1. IsPush(todo'[p], a, t) BY <1>0, <1>1, <1>2, <3>1, ThenOne DEF IsPush
      <4>2. Weighs(todo'[p], Main(t), End(t), i, Due(t, i) + Drops(a, i), Unlocks(t, i) + Frees(a, i))
        BY <1>4, <1>5, <1>12, <4>1, WeighPush
      <4> QED BY <1>5, <1>12, <4>2
    <3>2. CASE Then(p, <<a, b>>)
      <4>1. PICK w : w = Push(b, t) OBVIOUS
      <4>2. IsPush(w, b, t) /\ IsPush(todo'[p], a, w) BY <1>0, <1>1, <1>2, <3>2, <4>1, ThenTwo DEF IsPush
      <4>3. b[1] = "walk" /\ b[1] \notin Pops BY <1>0, <1>1, <1>11, Popped DEF Pops
      <4>4. Weighs(w, "walk", End(t), i, Due(t, i) + Drops(b, i), Unlocks(t, i) + Frees(b, i))
        BY <1>4, <1>5, <4>2, <4>3, WeighPush
      <4>5. Drops(b, i) = 0 /\ Frees(b, i) = 0 BY <4>3, NoWeight
      <4>6. IsList(w) /\ Main(w) = "walk" /\ End(w) = End(t) /\ Due(w, i) = Due(t, i) /\ Unlocks(w, i) = Unlocks(t, i)
        BY <1>5, <4>4, <4>5 DEF Weighs
      <4>7. w # <<>> BY <1>5, <4>1, PushList
      <4>8. Weighs(todo'[p], Main(w), End(w), i, Due(w, i) + Drops(a, i), Unlocks(w, i) + Frees(a, i))
        BY <1>12, <4>2, <4>6, <4>7, WeighPush
      <4>9. Unlocks(t, i) + 0 = Unlocks(t, i) BY <1>5
      <4> QED BY <1>12, <4>6, <4>8, <4>9
    <3> QED BY <1>17, <3>1, <3>2
  <2>2. reg'[p].ip = next /\ reg'[p].dp = reg[p].dp /\ reg'[p].old = reg[p].old BY <1>10, <1>17 DEF RegOk
  <2>3. m \in UsesIp /\ m \notin UsesDp /\ m \notin LocksIp BY <1>8, <2>1
  <2>4. MyRefs(p, i)' = MyRefs(p, i) + Bit(next = i) /\ MyLocks(p, i)' = MyLocks(p, i)
    BY <1>1, <1>2, <1>4, <1>8, <2>1, <2>2, <2>3
    DEF MyRefs, MyLocks, Refs, Locks, Weighs, VarRefs, VarLocks, Bit
  <2> QED BY <1>0, <1>6, <1>14, <2>4, Keeps
<1> QED BY <1>13, <1>15, <1>16, <1>17

(* The lookup found nothing.                                               *)
LEMMA NoInodeBalance ==
  ASSUME CountInv, NEW p \in Procs, Step(p), NEW l \in {"link1", "unlink1", "mkdir", "open1", "open2", "chdir1"},
         NoInode(p, l), NEW i \in Inums
  PROVE  Balanced(p, i) /\ OwnLock(p, i)
<1>0. OpInv /\ CacheInv /\ RefInv /\ LockInv /\ Shapes BY DEF CountInv
<1>1. /\ Label(p) = l /\ todo[p] # <<>> /\ UNCHANGED <<inode, file, cwd, reg>> /\ reg[p].ip = None
      /\ Only(p, <<end_op(-1)>>)
  BY Labelled DEF NoInode, pvars, fsvars
<1>2. Weighs(todo[p], l, l, i, 0, 0) BY <1>0, <1>1, LastItem DEF Lasts
<1>3. PICK s : s = <<end_op(-1)>> OBVIOUS
<1>4. Weighs(todo'[p], "end_op", "end_op", i, 0, 0)
  <2>1. todo'[p] = s BY <1>0, <1>1, <1>3, OnlyIs
  <2> QED BY <1>3, <2>1, WeighEnd
<1>5. OpenAt(i)' = OpenAt(i) /\ Effect(None, None, None) BY <1>0, <1>1, SameOpen, NoEffect
<1>6. MyRefs(p, i)' = MyRefs(p, i) + Bit(None = i) /\ MyLocks(p, i)' = MyLocks(p, i)
  BY <1>1, <1>2, <1>4, NoInode0
  DEF MyRefs, MyLocks, Refs, Locks, Weighs, VarRefs, VarLocks, Bit, UsesIp, UsesDp, LocksIp
<1> QED BY <1>0, <1>5, <1>6, Keeps

(* A call that fails, or ends, with the inode unlocked.                    *)
LEMMA EndsBalance ==
  ASSUME CountInv, NEW p \in Procs, NEW l \in {"link1", "unlink1", "open1", "chdir1"}, Label(p) = l, NEW i \in Inums,
         UNCHANGED <<file, cwd, reg>>, Effect(None, None, None), NEW r, Only(p, <<iput(reg[p].ip), end_op(r)>>)
  PROVE  Balanced(p, i) /\ OwnLock(p, i)
<1>0. OpInv /\ CacheInv /\ RefInv /\ LockInv /\ Shapes /\ todo[p] # <<>> BY Labelled DEF CountInv
<1>2. Weighs(todo[p], l, l, i, 0, 0) BY <1>0, LastItem DEF Lasts
<1>3. PICK b, ip : b = end_op(r) /\ ip = reg[p].ip OBVIOUS
<1>4. Weighs(todo'[p], "end_op", "end_op", i, Bit(ip = i), 0)
  <2>1. b[1] = "end_op" /\ b[1] \notin Pops BY <1>3, Kinds
  <2>2. todo'[p] = <<iput(ip), b>> BY <1>0, <1>3, OnlyIs
  <2> QED BY <2>1, <2>2, WeighPut
<1>5. OpenAt(i)' = OpenAt(i) BY SameOpen
<1>6. MyRefs(p, i)' = MyRefs(p, i) + Bit(None = i) /\ MyLocks(p, i)' = MyLocks(p, i)
  BY <1>2, <1>3, <1>4, NoInode0
  DEF MyRefs, MyLocks, Refs, Locks, Weighs, VarRefs, VarLocks, Bit, UsesIp, UsesDp, LocksIp
<1> QED BY <1>0, <1>5, <1>6, Keeps

(* sys_link() writes the entry, or finds that there is one.                *)
LEMMA Link2Balance ==
  ASSUME CountInv, NEW p \in Procs, Step(p), Link2(p), NEW i \in Inums PROVE Balanced(p, i) /\ OwnLock(p, i)
<1>0. OpInv /\ CacheInv /\ RefInv /\ LockInv /\ Shapes BY DEF CountInv
<1>1. Label(p) = "link2" /\ todo[p] # <<>> /\ UNCHANGED <<file, cwd, reg>> BY Labelled DEF Link2, pvars
<1>2. Weighs(todo[p], "link2", "link2", i, 0, 0) BY <1>0, <1>1, LastItem DEF Lasts
<1>3. OpenAt(i)' = OpenAt(i) BY <1>1, SameOpen
<1>4. PICK dp, old, e : dp = reg[p].ip /\ old = reg[p].old /\ e = dirlookup(Ilocked(dp), reg[p].name) OBVIOUS
<1>5. dp \in Inums => inode[dp].lock = None
  <2>1. Wants(p) = dp BY <1>1, <1>4 DEF Wants
  <2> QED BY <1>1, <2>1, Unlocked, NoInode0
<1>6. CASE e # None
  <2>0. PICK d : d = Item("linkbad") OBVIOUS
  <2>1. PICK s : s = <<iput(e)>> \o iunlockput(dp) \o <<d>> OBVIOUS
  <2>2. inode' = IgetIn([inode EXCEPT ![dp] = Hold(Ilocked(dp), p)], e) /\ Only(p, s) BY <1>4, <1>6, <2>0, <2>1 DEF Link2
  <2>3. Effect(e, dp, p) BY <1>0, <2>2, HoldEffect
  <2>4. Weighs(todo'[p], "linkbad", "linkbad", i, Bit(e = i) + Bit(dp = i), Bit(dp = i))
    <3>1. d[1] = "linkbad" /\ d[1] \notin Pops BY <2>0, Kinds DEF Pops
    <3>2. todo'[p] = s BY <1>0, <2>2, OnlyIs
    <3>3. PutUnlock(s, e, dp, d) BY <2>1 DEF PutUnlock
    <3>4. Weighs(s, d[1], d[1], i, Bit(e = i) + Bit(dp = i), Bit(dp = i)) BY <3>1, <3>3, WeighPutUnlock
    <3> QED BY <3>1, <3>2, <3>4
  <2>5. MyRefs(p, i)' = MyRefs(p, i) + Bit(e = i) /\ MyLocks(p, i)' = MyLocks(p, i) + Bit(dp = i)
    BY <1>1, <1>2, <1>4, <2>4
    DEF MyRefs, MyLocks, Refs, Locks, Weighs, VarRefs, VarLocks, Bit, UsesIp, UsesDp, LocksIp
  <2> QED BY <1>0, <1>3, <1>5, <2>3, <2>5, Takes
<1>7. CASE e = None
  <2>0. PICK n, x : n = Ilocked(dp) /\ x = reg[p].name OBVIOUS
  <2>1. PICK s, m : s = <<iput(dp), iput(old), end_op(0)>> /\ m = WithEntry(n, x, old) OBVIOUS
  <2>2. inode' = [inode EXCEPT ![dp] = m] /\ Only(p, s) BY <1>4, <1>7, <2>0, <2>1 DEF Link2
  <2>3. Effect(None, None, None)
    <3>1. PICK y : m = [n EXCEPT !.data = y] BY <2>1, EntryIs
    <3>2. dp \in Inums => m.ref = inode[dp].ref /\ m.lock = inode[dp].lock BY <1>0, <2>0, <3>1, LockedIs, SameCounts
    <3> QED BY <1>0, <2>2, <3>2, SameEffect
  <2>4. Weighs(todo'[p], "end_op", "end_op", i, Bit(dp = i) + Bit(old = i), 0)
    <3>1. todo'[p] = s BY <1>0, <2>2, OnlyIs
    <3> QED BY <2>1, <3>1, WeighPutPut
  <2>5. MyRefs(p, i)' = MyRefs(p, i) + Bit(None = i) /\ MyLocks(p, i)' = MyLocks(p, i)
    BY <1>1, <1>2, <1>4, <2>4, NoInode0
    DEF MyRefs, MyLocks, Refs, Locks, Weighs, VarRefs, VarLocks, Bit, UsesIp, UsesDp, LocksIp
  <2> QED BY <1>0, <1>3, <2>3, <2>5, Keeps
<1> QED BY <1>6, <1>7

(* There is no directory for the new link, and its undoing.                *)
LEMMA LinkBadBalance ==
  ASSUME CountInv, NEW p \in Procs, Step(p), LinkNoDir(p) \/ LinkBad(p), NEW i \in Inums
  PROVE  Balanced(p, i) /\ OwnLock(p, i)
<1>0. OpInv /\ CacheInv /\ RefInv /\ LockInv /\ Shapes BY DEF CountInv
<1>1. UNCHANGED <<file, cwd, reg>> /\ OpenAt(i)' = OpenAt(i) BY SameOpen DEF LinkNoDir, LinkBad, pvars
<1>2. CASE LinkNoDir(p)
  <2>1. Label(p) = "link2" /\ todo[p] # <<>> /\ reg[p].ip = None /\ UNCHANGED inode BY <1>2, Labelled DEF LinkNoDir, fsvars
  <2>2. Weighs(todo[p], "link2", "link2", i, 0, 0) BY <1>0, <2>1, LastItem DEF Lasts
  <2>3. PICK s : s = <<Item("linkbad")>> /\ Only(p, s) BY <1>2 DEF LinkNoDir
  <2>4. Weighs(todo'[p], "linkbad", "linkbad", i, 0, 0)
    <3>1. todo'[p] = s BY <1>0, <2>3, OnlyIs
    <3>2. "linkbad" \notin Pops BY DEF Pops
    <3> QED BY <2>3, <3>1, <3>2, WeighItem
  <2>5. Effect(None, None, None) BY <1>0, <2>1, NoEffect
  <2>6. MyRefs(p, i)' = MyRefs(p, i) + Bit(None = i) /\ MyLocks(p, i)' = MyLocks(p, i)
    BY <1>1, <2>1, <2>2, <2>4, NoInode0
    DEF MyRefs, MyLocks, Refs, Locks, Weighs, VarRefs, VarLocks, Bit, UsesIp, UsesDp, LocksIp
  <2> QED BY <1>0, <1>1, <2>5, <2>6, Keeps
<1>3. CASE LinkBad(p)
  <2>1. Label(p) = "linkbad" /\ todo[p] # <<>> BY <1>3, Labelled DEF LinkBad
  <2>2. Weighs(todo[p], "linkbad", "linkbad", i, 0, 0) BY <1>0, <2>1, LastItem DEF Lasts
  <2>3. PICK ip, b, n : ip = reg[p].old /\ b = end_op(-1) /\ n = Ilocked(ip) OBVIOUS
  <2>4. PICK m : m = [n EXCEPT !.nlink = n.nlink - 1] OBVIOUS
  <2>5. inode' = [inode EXCEPT ![ip] = m] /\ Only(p, <<iput(ip), b>>) BY <1>3, <2>3, <2>4 DEF LinkBad
  <2>6. Effect(None, None, None)
    <3>1. ip \in Inums => m.ref = inode[ip].ref /\ m.lock = inode[ip].lock BY <1>0, <2>3, <2>4, LockedIs, SameCounts
    <3> QED BY <1>0, <2>5, <3>1, SameEffect
  <2>7. Weighs(todo'[p], "end_op", "end_op", i, Bit(ip = i), 0)
    <3>1. b[1] = "end_op" /\ b[1] \notin Pops BY <2>3, Kinds
    <3>2. todo'[p] = <<iput(ip), b>> BY <1>0, <2>5, OnlyIs
    <3> QED BY <3>1, <3>2, WeighPut
  <2>8. MyRefs(p, i)' = MyRefs(p, i) + Bit(None = i) /\ MyLocks(p, i)' = MyLocks(p, i)
    BY <1>1, <2>2, <2>3, <2>7, NoInode0
    DEF MyRefs, MyLocks, Refs, Locks, Weighs, VarRefs, VarLocks, Bit, UsesIp, UsesDp, LocksIp
  <2> QED BY <1>0, <1>1, <2>6, <2>8, Keeps
<1> QED BY <1>2, <1>3

(* sys_unlink() finds the entry, and keeps the directory locked.           *)
LEMMA Unlink1Balance ==
  ASSUME CountInv, NEW p \in Procs, Step(p), Unlink1(p), NEW i \in Inums PROVE Balanced(p, i) /\ OwnLock(p, i)
<1>0. OpInv /\ CacheInv /\ RefInv /\ LockInv /\ Shapes BY DEF CountInv
<1>1. Label(p) = "unlink1" /\ todo[p] # <<>> /\ UNCHANGED <<file, cwd>> BY Labelled DEF Unlink1, pvars
<1>2. Weighs(todo[p], "unlink1", "unlink1", i, 0, 0) BY <1>0, <1>1, LastItem DEF Lasts
<1>3. OpenAt(i)' = OpenAt(i) BY <1>1, SameOpen
<1>4. PICK dp, e : /\ dp = reg[p].ip
                   /\ e = IF Unlinkable(reg[p].name) THEN dirlookup(Ilocked(dp), reg[p].name) ELSE None OBVIOUS
<1>5. dp \in Inums => inode[dp].lock = None
  <2>1. Wants(p) = dp BY <1>1, <1>4 DEF Wants
  <2> QED BY <1>1, <2>1, Unlocked, NoInode0
<1>6. CASE e = None
  <2>1. inode' = [inode EXCEPT ![dp] = Ilocked(dp)] /\ Only(p, <<iput(reg[p].ip), end_op(-1)>>) /\ UNCHANGED reg
    BY <1>4, <1>6 DEF Unlink1
  <2>2. Effect(None, None, None) BY <1>0, <2>1, LookEffect, IgetNone
  <2> QED BY <1>1, <2>1, <2>2, EndsBalance
<1>7. CASE e # None
  <2>1. PICK s : s = <<Item("unlink2")>> OBVIOUS
  <2>2. /\ inode' = IgetIn([inode EXCEPT ![dp] = Hold(Ilocked(dp), p)], e) /\ Only(p, s)
        /\ Set(p, [reg[p] EXCEPT !.dp = dp, !.ip = e])
    BY <1>4, <1>7, <2>1 DEF Unlink1
  <2>3. Effect(e, dp, p) BY <1>0, <2>2, HoldEffect
  <2>4. Weighs(todo'[p], "unlink2", "unlink2", i, 0, 0)
    <3>1. todo'[p] = s BY <1>0, <2>2, OnlyIs
    <3>2. "unlink2" \notin Pops BY DEF Pops
    <3> QED BY <2>1, <3>1, <3>2, WeighItem
  <2>5. reg'[p] = [reg[p] EXCEPT !.dp = dp, !.ip = e] BY <1>0, <2>2, SetIs
  <2>6. reg'[p].ip = e /\ reg'[p].dp = dp /\ reg'[p].old = reg[p].old BY <1>0, <2>5 DEF RegOk, Shapes
  <2>7. MyRefs(p, i)' = MyRefs(p, i) + Bit(e = i) /\ MyLocks(p, i)' = MyLocks(p, i) + Bit(dp = i)
    BY <1>1, <1>2, <1>4, <2>4, <2>6
    DEF MyRefs, MyLocks, Refs, Locks, Weighs, VarRefs, VarLocks, Bit, UsesIp, UsesDp, LocksIp
  <2> QED BY <1>0, <1>3, <1>5, <2>3, <2>7, Takes
<1> QED BY <1>6, <1>7

(* The lock of inode k is given back when that of j is held.               *)
LEMMA Passes ==
  ASSUME OpInv, CacheInv, RefInv, LockInv, NEW p \in Procs, NEW i \in Inums, OpenAt(i)' = OpenAt(i), NEW j, NEW k,
         inode'[i].ref = inode[i].ref,
         inode'[i].lock = IF i = k THEN None ELSE IF i = j THEN p ELSE inode[i].lock,
         j \in Inums => inode[j].lock = None, k \in Inums => inode[k].lock = p,
         MyRefs(p, i)' = MyRefs(p, i), MyLocks(p, i) = Bit(k = i), MyLocks(p, i)' = Bit(j = i)
  PROVE  Balanced(p, i) /\ OwnLock(p, i)
<1>2. inode[i].ref \in Nat /\ Cardinality(OpenAt(i)) \in Nat BY RefsNat, OpenFinite
<1>3. MyRefs(p, i) \in Nat BY RefsType DEF MyRefs
<1>5. inode'[i].ref = inode[i].ref + (MyRefs(p, i)' - MyRefs(p, i)) + (Cardinality(OpenAt(i)') - Cardinality(OpenAt(i)))
  <2>1. PICK v \in Nat, o \in Nat, w \in Nat : v = MyRefs(p, i) /\ o = Cardinality(OpenAt(i)) /\ w = inode[i].ref
    BY <1>2, <1>3
  <2>2. w = w + (v - v) + (o - o) OBVIOUS
  <2> QED BY <2>1, <2>2
<1>6. Balanced(p, i) BY <1>5 DEF Balanced, MyRefs
<1>7. Bit(k = i) = Bit(inode[i].lock = p) BY DEF MyLocks, LockInv
<1>8. p # None BY DEF Procs, None
<1>9. Bit(j = i) = Bit(inode'[i].lock = p) BY <1>7, <1>8 DEF Bit
<1>10. inode'[i].lock # inode[i].lock => {inode'[i].lock, inode[i].lock} \subseteq {None, p} OBVIOUS
<1> QED BY <1>6, <1>9, <1>10 DEF OwnLock, MyLocks

(* sys_unlink() writes the directory, and keeps the inode locked.          *)
LEMMA Unlink2Balance ==
  ASSUME CountInv, NEW p \in Procs, Step(p), Unlink2(p), NEW i \in Inums PROVE Balanced(p, i) /\ OwnLock(p, i)
<1>0. OpInv /\ CacheInv /\ RefInv /\ LockInv /\ Shapes BY DEF CountInv
<1>1. Label(p) = "unlink2" /\ todo[p] # <<>> /\ UNCHANGED <<file, cwd, reg>> BY Labelled DEF Unlink2, pvars
<1>2. Weighs(todo[p], "unlink2", "unlink2", i, 0, 0) BY <1>0, <1>1, LastItem DEF Lasts
<1>3. OpenAt(i)' = OpenAt(i) BY <1>1, SameOpen
<1>4. PICK ip, dp, x : ip = reg[p].ip /\ dp = reg[p].dp /\ x = reg[p].name OBVIOUS
<1>5. PICK n : n = Ilocked(ip) OBVIOUS
<1>6. CASE IsDir(n) /\ ~isdirempty(n)
  <2>0. PICK d : d = end_op(-1) OBVIOUS
  <2>1. PICK s : s = <<iput(ip)>> \o iunlockput(dp) \o <<d>> OBVIOUS
  <2>2. inode' = [inode EXCEPT ![ip] = n] /\ Only(p, s) BY <1>4, <1>5, <1>6, <2>0, <2>1 DEF Unlink2
  <2>3. Effect(None, None, None)
    <3>1. ip \in Inums => n.ref = inode[ip].ref /\ n.lock = inode[ip].lock BY <1>0, <1>5, LockedIs
    <3> QED BY <1>0, <2>2, <3>1, SameEffect
  <2>4. Weighs(todo'[p], "end_op", "end_op", i, Bit(ip = i) + Bit(dp = i), Bit(dp = i))
    <3>1. d[1] = "end_op" /\ d[1] \notin Pops BY <2>0, Kinds DEF Pops
    <3>2. todo'[p] = s BY <1>0, <2>2, OnlyIs
    <3>3. PutUnlock(s, ip, dp, d) BY <2>1 DEF PutUnlock
    <3>4. Weighs(s, d[1], d[1], i, Bit(ip = i) + Bit(dp = i), Bit(dp = i)) BY <3>1, <3>3, WeighPutUnlock
    <3> QED BY <3>1, <3>2, <3>4
  <2>5. MyRefs(p, i)' = MyRefs(p, i) + Bit(None = i) /\ MyLocks(p, i)' = MyLocks(p, i)
    BY <1>1, <1>2, <1>4, <2>4, NoInode0
    DEF MyRefs, MyLocks, Refs, Locks, Weighs, VarRefs, VarLocks, Bit, UsesIp, UsesDp, LocksIp
  <2> QED BY <1>0, <1>3, <2>3, <2>5, Keeps
<1>7. CASE ~(IsDir(n) /\ ~isdirempty(n))
  <2>0. PICK b, u : b = Item("unlink3") /\ u = inode[dp] OBVIOUS
  <2>1. PICK c : c = WithoutEntry(u, x) OBVIOUS
  <2>2. PICK d, h : d = [c EXCEPT !.lock = None, !.nlink = c.nlink - ParentLinks(n.type)] /\ h = Hold(n, p) OBVIOUS
  <2>3. inode' = [inode EXCEPT ![ip] = h, ![dp] = d] /\ Only(p, <<iput(dp), b>>)
    BY <1>4, <1>5, <1>7, <2>0, <2>1, <2>2 DEF Unlink2
  <2>4. dp \in Inums => d.ref = inode[dp].ref /\ d.lock = None
    <3>1. PICK y : c = [u EXCEPT !.data = y] BY <2>1, EntryIs
    <3>2. dp \in Inums => Whole(u) BY <1>0, <2>0 DEF CacheInv, Coherent, Fits
    <3>3. dp \in Inums => Whole(c) /\ c.ref = u.ref BY <3>1, <3>2, SameCounts
    <3> QED BY <2>0, <2>2, <3>3 DEF Whole
  <2>5. ip \in Inums => h.ref = inode[ip].ref /\ h.lock = p BY <1>0, <1>5, <2>2, LockedIs
  <2>6. /\ inode'[i].ref = inode[i].ref
        /\ inode'[i].lock = IF i = dp THEN None ELSE IF i = ip THEN p ELSE inode[i].lock
    <3>1. inode = [j \in Inums |-> inode[j]] BY <1>0 DEF CacheInv, Coherent
    <3>2. inode'[i] = IF i = dp THEN d ELSE IF i = ip THEN h ELSE inode[i] BY <2>3, <3>1
    <3> QED BY <2>4, <2>5, <3>2
  <2>7. Weighs(todo'[p], "unlink3", "unlink3", i, Bit(dp = i), 0)
    <3>1. b[1] = "unlink3" /\ b[1] \notin Pops BY <2>0, Kinds DEF Pops
    <3>2. todo'[p] = <<iput(dp), b>> BY <1>0, <2>3, OnlyIs
    <3> QED BY <3>1, <3>2, WeighPut
  <2>8. MyRefs(p, i)' = MyRefs(p, i) /\ MyLocks(p, i) = Bit(dp = i) /\ MyLocks(p, i)' = Bit(ip = i)
    BY <1>1, <1>2, <1>4, <2>7
    DEF MyRefs, MyLocks, Refs, Locks, Weighs, VarRefs, VarLocks, Bit, UsesIp, UsesDp, LocksIp
  <2>9. ip \in Inums => inode[ip].lock = None
    <3>1. Wants(p) = ip BY <1>1, <1>4 DEF Wants
    <3> QED BY <1>1, <3>1, Unlocked, NoInode0
  <2>10. dp \in Inums => inode[dp].lock = p
    <3> SUFFICES ASSUME dp \in Inums PROVE inode[dp].lock = p OBVIOUS
    <3>1. Weighs(todo[p], "unlink2", "unlink2", dp, 0, 0) BY <1>0, <1>1, LastItem DEF Lasts
    <3>2. reg[p].dp = dp /\ "unlink2" \in UsesDp BY <1>4 DEF UsesDp
    <3> QED BY <1>0, <3>1, <3>2, Holder
  <2> QED BY <1>0, <1>3, <2>6, <2>8, <2>9, <2>10, Passes
<1> QED BY <1>6, <1>7

(* sys_unlink() writes the inode.                                          *)
LEMMA Unlink3Balance ==
  ASSUME CountInv, NEW p \in Procs, Step(p), Unlink3(p), NEW i \in Inums PROVE Balanced(p, i) /\ OwnLock(p, i)
<1>0. OpInv /\ CacheInv /\ RefInv /\ LockInv /\ Shapes BY DEF CountInv
<1>1. Label(p) = "unlink3" /\ todo[p] # <<>> /\ UNCHANGED <<file, cwd, reg>> BY Labelled DEF Unlink3, pvars
<1>2. Weighs(todo[p], "unlink3", "unlink3", i, 0, 0) BY <1>0, <1>1, LastItem DEF Lasts
<1>3. OpenAt(i)' = OpenAt(i) BY <1>1, SameOpen
<1>4. PICK ip, b : ip = reg[p].ip /\ b = end_op(0) OBVIOUS
<1>5. PICK u : u = inode[ip] OBVIOUS
<1>6. PICK m : m = [u EXCEPT !.nlink = u.nlink - 1, !.lock = None] OBVIOUS
<1>7. inode' = [inode EXCEPT ![ip] = m] /\ Only(p, <<iput(ip), b>>) BY <1>4, <1>5, <1>6 DEF Unlink3
<1>8. Effect(None, ip, None)
  <2>1. ip \in Inums => Whole(u) BY <1>0, <1>5 DEF CacheInv, Coherent, Fits
  <2>2. ip \in Inums => m.ref = inode[ip].ref /\ m.lock = None BY <1>5, <1>6, <2>1 DEF Whole
  <2> QED BY <1>0, <1>7, <2>2, PutEffect
<1>9. Weighs(todo'[p], "end_op", "end_op", i, Bit(ip = i), 0)
  <2>1. b[1] = "end_op" /\ b[1] \notin Pops BY <1>4, Kinds DEF Pops
  <2>2. todo'[p] = <<iput(ip), b>> BY <1>0, <1>7, OnlyIs
  <2> QED BY <2>1, <2>2, WeighPut
<1>10. MyRefs(p, i)' = MyRefs(p, i) /\ MyLocks(p, i)' \in Nat /\ MyLocks(p, i) = MyLocks(p, i)' + Bit(ip = i)
  BY <1>1, <1>2, <1>4, <1>9
  DEF MyRefs, MyLocks, Refs, Locks, Weighs, VarRefs, VarLocks, Bit, UsesIp, UsesDp, LocksIp
<1> QED BY <1>0, <1>3, <1>8, <1>10, GivesBack

(* An item that ends the call.                                             *)
LEMMA LastOf ==
  ASSUME NEW t, Good(t), t # <<>>, t[1][1] \in Lasts
  PROVE  \A i : Weighs(t, t[1][1], t[1][1], i, 0, 0)
<1>1. PICK x, u : x = t[1] /\ u = Tail(t) OBVIOUS
<1>2. t = Push(x, u) /\ Follows(x[1], u) BY <1>1, GoodTail
<1>3. After(x[1]) = {} BY <1>1, AfterEnds DEF Lasts
<1>4. u = <<>> BY <1>2, <1>3 DEF Follows
<1>5. t = <<x>>
  <2>1. <<x>> = Push(x, <<>>) BY Literals
  <2> QED BY <1>2, <1>4, <2>1
<1>6. x[1] \notin Pops BY <1>1 DEF Lasts, Pops
<1>7. \A i : Weighs(t, x[1], x[1], i, 0, 0) BY <1>5, <1>6, WeighOne
<1> QED BY <1>1, <1>7

Creates == {"create", "exists", "ialloc", "newinode"}

(* create(), and what follows it.                                          *)
LEMMA CreateItem ==
  ASSUME OpInv, NEW p \in Procs, todo[p] # <<>>, Label(p) \in Creates
  PROVE  \E l \in {"open2", "mkdir"} :
           /\ IsList(Tail(todo[p])) /\ Tail(todo[p]) # <<>> /\ Main(Tail(todo[p])) = l /\ End(Tail(todo[p])) = l
           /\ \A i : Weighs(todo[p], Label(p), l, i, 0, 0) /\ Weighs(Tail(todo[p]), l, l, i, 0, 0)
           /\ \A i : Due(Tail(todo[p]), i) = 0 /\ Unlocks(Tail(todo[p]), i) = 0
<1>1. PICK t : t = Tail(todo[p]) OBVIOUS
<1>2. Label(p) \in Lookups BY DEF Creates, Lookups
<1>3. t # <<>> /\ Main(t) \in After(Label(p)) /\ Main(t) = t[1][1] BY <1>1, <1>2, LookItem
<1>4. Main(t) \in {"open2", "mkdir"} BY <1>3, AfterIs DEF Creates
<1>5. PICK l : l = Main(t) OBVIOUS
<1>6. Good(t) BY <1>1, Popped
<1>7. \A i : Weighs(t, l, l, i, 0, 0)
  <2>1. t[1][1] \in Lasts BY <1>3, <1>4 DEF Lasts
  <2> QED BY <1>3, <1>5, <1>6, <2>1, LastOf
<1>8. IsList(t) /\ Main(t) = l /\ End(t) = l /\ \A i : Due(t, i) = 0 /\ Unlocks(t, i) = 0 BY <1>7 DEF Weighs
<1>9. \A i : Weighs(todo[p], Label(p), End(t), i, Due(t, i), Unlocks(t, i)) BY <1>1, <1>2, LookItem
<1>10. \A i : Weighs(todo[p], Label(p), l, i, 0, 0) BY <1>8, <1>9
<1> QED BY <1>1, <1>3, <1>4, <1>5, <1>7, <1>8, <1>10

(* create() looks for the name.                                            *)
LEMMA Create1Balance ==
  ASSUME CountInv, NEW p \in Procs, Step(p), Create1(p), NEW i \in Inums PROVE Balanced(p, i) /\ OwnLock(p, i)
<1>0. OpInv /\ CacheInv /\ RefInv /\ LockInv /\ Shapes BY DEF CountInv
<1>1. Label(p) = "create" /\ todo[p] # <<>> /\ UNCHANGED <<file, cwd>> BY Labelled DEF Create1, pvars
<1>2. PICK t, a : t = Tail(todo[p]) /\ a = Arg(p) OBVIOUS
<1>3. PICK l \in {"open2", "mkdir"} :
        IsList(t) /\ t # <<>> /\ Main(t) = l /\ End(t) = l /\ Weighs(todo[p], "create", l, i, 0, 0) /\ Due(t, i) = 0
        /\ Unlocks(t, i) = 0
  BY <1>0, <1>1, <1>2, CreateItem DEF Creates
<1>4. OpenAt(i)' = OpenAt(i) BY <1>1, SameOpen
<1>5. PICK dp, n : dp = reg[p].ip /\ n = Ilocked(dp) OBVIOUS
<1>6. PICK e : e = dirlookup(n, reg[p].name) OBVIOUS
<1>7. RegOk(reg[p]) BY <1>0 DEF Shapes
<1>8. CASE e # None
  <2>1. PICK b, c : b = iput(dp) /\ c = <<"exists", a>> OBVIOUS
  <2>2. /\ inode' = IgetIn([inode EXCEPT ![dp] = Ilocked(dp)], e) /\ Set(p, [reg[p] EXCEPT !.ip = e]) /\ Then(p, <<b, c>>)
    BY <1>2, <1>5, <1>6, <1>8, <2>1 DEF Create1
  <2>3. Effect(e, None, None) BY <1>0, <2>2, LookEffect
  <2>4. Weighs(todo'[p], "exists", l, i, Bit(dp = i), 0)
    <3>1. PICK w : w = Push(c, t) OBVIOUS
    <3>2. IsPush(w, c, t) /\ IsPush(todo'[p], b, w) BY <1>0, <1>1, <1>2, <2>2, <3>1, ThenTwo DEF IsPush
    <3>3. c[1] = "exists" /\ c[1] \notin Pops BY <2>1 DEF Pops
    <3>4. Drops(c, i) = 0 /\ Frees(c, i) = 0 BY <3>3, NoWeight
    <3>5. Weighs(w, "exists", l, i, 0, 0)
      <4>1. Weighs(w, IF c[1] \in Pops THEN Main(t) ELSE c[1], IF t = <<>> THEN c[1] ELSE End(t), i,
                   Due(t, i) + Drops(c, i), Unlocks(t, i) + Frees(c, i)) BY <1>3, <3>2, WeighPush
      <4> QED BY <1>3, <3>3, <3>4, <4>1
    <3>6. IsList(w) /\ Main(w) = "exists" /\ End(w) = l /\ Due(w, i) = 0 /\ Unlocks(w, i) = 0 BY <3>5 DEF Weighs
    <3>7. w # <<>> BY <1>3, <3>1, PushList
    <3>8. b[1] \in Pops /\ Drops(b, i) = Bit(dp = i) /\ Frees(b, i) = 0 BY <2>1, Kinds, ItemWeighs
    <3>9. Weighs(todo'[p], IF b[1] \in Pops THEN Main(w) ELSE b[1], IF w = <<>> THEN b[1] ELSE End(w), i,
                 Due(w, i) + Drops(b, i), Unlocks(w, i) + Frees(b, i)) BY <3>2, <3>6, WeighPush
    <3>10. Bit(dp = i) \in Nat BY DEF Bit
    <3> QED BY <3>6, <3>7, <3>8, <3>9, <3>10
  <2>5. reg'[p] = [reg[p] EXCEPT !.ip = e] BY <1>0, <2>2, SetIs
  <2>6. reg'[p].ip = e /\ reg'[p].dp = reg[p].dp /\ reg'[p].old = reg[p].old BY <1>7, <2>5 DEF RegOk
  <2>7. MyRefs(p, i)' = MyRefs(p, i) + Bit(e = i) /\ MyLocks(p, i)' = MyLocks(p, i)
    BY <1>1, <1>3, <1>5, <2>4, <2>6
    DEF MyRefs, MyLocks, Refs, Locks, Weighs, VarRefs, VarLocks, Bit, UsesIp, UsesDp, LocksIp
  <2> QED BY <1>0, <1>4, <2>3, <2>7, Keeps
<1>9. CASE e = None
  <2>1. PICK c : c = <<"ialloc", a>> OBVIOUS
  <2>2. /\ inode' = [inode EXCEPT ![dp] = Hold(Ilocked(dp), p)] /\ Set(p, [reg[p] EXCEPT !.dp = dp]) /\ Then(p, <<c>>)
    BY <1>2, <1>5, <1>6, <1>9, <2>1 DEF Create1
  <2>3. Effect(None, dp, p) BY <1>0, <2>2, HoldEffect, IgetNone
  <2>4. Weighs(todo'[p], "ialloc", l, i, 0, 0)
    <3>2. IsPush(todo'[p], c, t) BY <1>0, <1>1, <1>2, <2>2, ThenOne DEF IsPush
    <3>3. c[1] = "ialloc" /\ c[1] \notin Pops BY <2>1 DEF Pops
    <3>4. Drops(c, i) = 0 /\ Frees(c, i) = 0 BY <3>3, NoWeight
    <3>5. Weighs(todo'[p], IF c[1] \in Pops THEN Main(t) ELSE c[1], IF t = <<>> THEN c[1] ELSE End(t), i,
                 Due(t, i) + Drops(c, i), Unlocks(t, i) + Frees(c, i)) BY <1>3, <3>2, WeighPush
    <3> QED BY <1>3, <3>3, <3>4, <3>5
  <2>5. reg'[p] = [reg[p] EXCEPT !.dp = dp] BY <1>0, <2>2, SetIs
  <2>6. reg'[p].ip = dp /\ reg'[p].dp = dp /\ reg'[p].old = reg[p].old BY <1>5, <1>7, <2>5 DEF RegOk
  <2>7. MyRefs(p, i)' = MyRefs(p, i) + Bit(None = i) /\ MyLocks(p, i)' = MyLocks(p, i) + Bit(dp = i)
    BY <1>1, <1>3, <1>5, <2>4, <2>6, NoInode0
    DEF MyRefs, MyLocks, Refs, Locks, Weighs, VarRefs, VarLocks, Bit, UsesIp, UsesDp, LocksIp
  <2>8. dp \in Inums => inode[dp].lock = None
    <3>1. Wants(p) = dp BY <1>1, <1>5 DEF Wants
    <3> QED BY <1>1, <3>1, Unlocked, NoInode0
  <2> QED BY <1>0, <1>4, <2>3, <2>7, <2>8, Takes
<1> QED BY <1>8, <1>9

(* The directory was not found.                                            *)
LEMMA CreateNoDirBalance ==
  ASSUME CountInv, NEW p \in Procs, Step(p), CreateNoDir(p), NEW i \in Inums PROVE Balanced(p, i) /\ OwnLock(p, i)
<1>0. OpInv /\ CacheInv /\ RefInv /\ LockInv /\ Shapes BY DEF CountInv
<1>1. /\ Label(p) = "create" /\ todo[p] # <<>> /\ UNCHANGED <<inode, file, cwd, reg>> /\ reg[p].ip = None
      /\ Then(p, <<>>)
  BY Labelled DEF CreateNoDir, pvars, fsvars
<1>2. PICK t : t = Tail(todo[p]) OBVIOUS
<1>3. PICK l \in {"open2", "mkdir"} : Weighs(todo[p], "create", l, i, 0, 0) /\ Weighs(t, l, l, i, 0, 0)
  BY <1>0, <1>1, <1>2, CreateItem DEF Creates
<1>4. OpenAt(i)' = OpenAt(i) /\ Effect(None, None, None) BY <1>0, <1>1, SameOpen, NoEffect
<1>5. todo'[p] = t BY <1>0, <1>1, <1>2, ThenNone
<1>6. MyRefs(p, i)' = MyRefs(p, i) + Bit(None = i) /\ MyLocks(p, i)' = MyLocks(p, i)
  BY <1>1, <1>3, <1>5, NoInode0
  DEF MyRefs, MyLocks, Refs, Locks, Weighs, VarRefs, VarLocks, Bit, UsesIp, UsesDp, LocksIp
<1> QED BY <1>0, <1>4, <1>6, Keeps

(* There is an inode of the name: create() may return it.                  *)
LEMMA CreateExistsBalance ==
  ASSUME CountInv, NEW p \in Procs, Step(p), CreateExists(p), NEW i \in Inums PROVE Balanced(p, i) /\ OwnLock(p, i)
<1>0. OpInv /\ CacheInv /\ RefInv /\ LockInv /\ Shapes BY DEF CountInv
<1>1. Label(p) = "exists" /\ todo[p] # <<>> /\ UNCHANGED <<file, cwd>> BY Labelled DEF CreateExists, pvars
<1>2. PICK t : t = Tail(todo[p]) OBVIOUS
<1>3. PICK l \in {"open2", "mkdir"} :
        IsList(t) /\ t # <<>> /\ Main(t) = l /\ End(t) = l /\ Weighs(todo[p], "exists", l, i, 0, 0)
        /\ Weighs(t, l, l, i, 0, 0) /\ Due(t, i) = 0 /\ Unlocks(t, i) = 0
  BY <1>0, <1>1, <1>2, CreateItem DEF Creates
<1>4. OpenAt(i)' = OpenAt(i) BY <1>1, SameOpen
<1>5. PICK ip, n : ip = reg[p].ip /\ n = Ilocked(ip) OBVIOUS
<1>7. RegOk(reg[p]) BY <1>0 DEF Shapes
<1>8. CASE Arg(p) = T_FILE /\ n.type = T_FILE
  <2>1. inode' = [inode EXCEPT ![ip] = Hold(Ilocked(ip), p)] /\ Then(p, <<>>) /\ UNCHANGED reg
    BY <1>5, <1>8 DEF CreateExists
  <2>3. Effect(None, ip, p) BY <1>0, <2>1, HoldEffect, IgetNone
  <2>4. todo'[p] = t BY <1>0, <1>1, <1>2, <2>1, ThenNone
  <2>7. MyRefs(p, i)' = MyRefs(p, i) + Bit(None = i) /\ MyLocks(p, i)' = MyLocks(p, i) + Bit(ip = i)
    BY <1>1, <1>3, <1>5, <2>1, <2>4, NoInode0
    DEF MyRefs, MyLocks, Refs, Locks, Weighs, VarRefs, VarLocks, Bit, UsesIp, UsesDp, LocksIp
  <2>8. ip \in Inums => inode[ip].lock = None
    <3>1. Wants(p) = ip BY <1>1, <1>5 DEF Wants
    <3> QED BY <1>1, <3>1, Unlocked, NoInode0
  <2> QED BY <1>0, <1>4, <2>3, <2>7, <2>8, Takes
<1>9. CASE ~(Arg(p) = T_FILE /\ n.type = T_FILE)
  <2>1. PICK b : b = iput(ip) OBVIOUS
  <2>2. inode' = [inode EXCEPT ![ip] = n] /\ Set(p, [reg[p] EXCEPT !.ip = None]) /\ Then(p, <<b>>)
    BY <1>5, <1>9, <2>1 DEF CreateExists
  <2>3. Effect(None, None, None)
    <3>1. ip \in Inums => n.ref = inode[ip].ref /\ n.lock = inode[ip].lock BY <1>0, <1>5, LockedIs
    <3> QED BY <1>0, <2>2, <3>1, SameEffect
  <2>4. Weighs(todo'[p], l, l, i, Bit(ip = i), 0)
    <3>2. IsPush(todo'[p], b, t) BY <1>0, <1>1, <1>2, <2>2, ThenOne DEF IsPush
    <3>3. b[1] \in Pops /\ Drops(b, i) = Bit(ip = i) /\ Frees(b, i) = 0 BY <2>1, Kinds, ItemWeighs
    <3>5. Weighs(todo'[p], IF b[1] \in Pops THEN Main(t) ELSE b[1], IF t = <<>> THEN b[1] ELSE End(t), i,
                 Due(t, i) + Drops(b, i), Unlocks(t, i) + Frees(b, i)) BY <1>3, <3>2, WeighPush
    <3>6. Bit(ip = i) \in Nat BY DEF Bit
    <3> QED BY <1>3, <3>3, <3>5, <3>6
  <2>5. reg'[p] = [reg[p] EXCEPT !.ip = None] BY <1>0, <2>2, SetIs
  <2>6. reg'[p].ip = None /\ reg'[p].dp = reg[p].dp /\ reg'[p].old = reg[p].old BY <1>7, <2>5 DEF RegOk
  <2>7. MyRefs(p, i)' = MyRefs(p, i) + Bit(None = i) /\ MyLocks(p, i)' = MyLocks(p, i)
    BY <1>1, <1>3, <1>5, <2>4, <2>6, NoInode0
    DEF MyRefs, MyLocks, Refs, Locks, Weighs, VarRefs, VarLocks, Bit, UsesIp, UsesDp, LocksIp
  <2> QED BY <1>0, <1>4, <2>3, <2>7, Keeps
<1> QED BY <1>8, <1>9

(* ialloc() takes an inode, with the directory locked.                     *)
LEMMA IallocBalance ==
  ASSUME CountInv, NEW p \in Procs, Step(p), ialloc(p), NEW i \in Inums PROVE Balanced(p, i) /\ OwnLock(p, i)
<1>0. OpInv /\ CacheInv /\ RefInv /\ LockInv /\ Shapes BY DEF CountInv
<1>1. Label(p) = "ialloc" /\ todo[p] # <<>> /\ UNCHANGED <<file, cwd>> BY Labelled DEF ialloc, pvars
<1>2. PICK t : t = Tail(todo[p]) OBVIOUS
<1>3. PICK l \in {"open2", "mkdir"} :
        IsList(t) /\ t # <<>> /\ Main(t) = l /\ End(t) = l /\ Weighs(todo[p], "ialloc", l, i, 0, 0) /\ Due(t, i) = 0
        /\ Unlocks(t, i) = 0
  BY <1>0, <1>1, <1>2, CreateItem DEF Creates
<1>4. OpenAt(i)' = OpenAt(i) BY <1>1, SameOpen
<1>5. PICK k, c : k = Min(FreeInums) /\ c = <<"newinode", Arg(p)>> OBVIOUS
<1>6. inode' = IgetIn(inode, k) /\ Set(p, [reg[p] EXCEPT !.ip = k]) /\ Then(p, <<c>>) BY <1>5 DEF ialloc
<1>7. RegOk(reg[p]) BY <1>0 DEF Shapes
<1>8. Effect(k, None, None) BY <1>0, <1>6, IgetEffect
<1>9. Weighs(todo'[p], "newinode", l, i, 0, 0)
  <2>2. IsPush(todo'[p], c, t) BY <1>0, <1>1, <1>2, <1>6, ThenOne DEF IsPush
  <2>3. c[1] = "newinode" /\ c[1] \notin Pops BY <1>5 DEF Pops
  <2>4. Drops(c, i) = 0 /\ Frees(c, i) = 0 BY <2>3, NoWeight
  <2>5. Weighs(todo'[p], IF c[1] \in Pops THEN Main(t) ELSE c[1], IF t = <<>> THEN c[1] ELSE End(t), i,
               Due(t, i) + Drops(c, i), Unlocks(t, i) + Frees(c, i)) BY <1>3, <2>2, WeighPush
  <2> QED BY <1>3, <2>3, <2>4, <2>5
<1>10. reg'[p] = [reg[p] EXCEPT !.ip = k] BY <1>0, <1>6, SetIs
<1>11. reg'[p].ip = k /\ reg'[p].dp = reg[p].dp /\ reg'[p].old = reg[p].old BY <1>7, <1>10 DEF RegOk
<1>12. MyRefs(p, i)' = MyRefs(p, i) + Bit(k = i) /\ MyLocks(p, i)' = MyLocks(p, i)
  BY <1>1, <1>3, <1>9, <1>11
  DEF MyRefs, MyLocks, Refs, Locks, Weighs, VarRefs, VarLocks, Bit, UsesIp, UsesDp, LocksIp
<1> QED BY <1>0, <1>4, <1>8, <1>12, Keeps

(* The new inode is written, and the entry for it.                         *)
LEMMA CreateNewBalance ==
  ASSUME CountInv, NEW p \in Procs, Step(p), CreateNew(p), NEW i \in Inums PROVE Balanced(p, i) /\ OwnLock(p, i)
<1>0. OpInv /\ CacheInv /\ RefInv /\ LockInv /\ Shapes BY DEF CountInv
<1>1. Label(p) = "newinode" /\ todo[p] # <<>> /\ UNCHANGED <<file, cwd, reg>> BY Labelled DEF CreateNew, pvars
<1>2. PICK t, a : t = Tail(todo[p]) /\ a = Arg(p) OBVIOUS
<1>3. PICK l \in {"open2", "mkdir"} :
        /\ IsList(t) /\ t # <<>> /\ Main(t) = l /\ End(t) = l /\ Due(t, i) = 0 /\ Unlocks(t, i) = 0
        /\ \A j : Weighs(todo[p], "newinode", l, j, 0, 0)
  BY <1>0, <1>1, <1>2, CreateItem DEF Creates
<1>4. OpenAt(i)' = OpenAt(i) BY <1>1, SameOpen
<1>5. PICK ip, dp, x : ip = reg[p].ip /\ dp = reg[p].dp /\ x = reg[p].name OBVIOUS
<1>6. PICK n, u : n = Ilocked(ip) /\ u = inode[dp] OBVIOUS
<1>7. PICK c : c = WithEntry(u, x, ip) OBVIOUS
<1>8. PICK h, d, b : /\ h = [n EXCEPT !.nlink = 1, !.lock = p, !.data = IF a = T_DIR THEN NewDir(ip, dp) ELSE n.data]
                     /\ d = [c EXCEPT !.lock = None, !.nlink = c.nlink + ParentLinks(a)]
                     /\ b = iput(dp)
  OBVIOUS
<1>9. inode' = [inode EXCEPT ![ip] = h, ![dp] = d] /\ Then(p, <<b>>)
  BY <1>2, <1>5, <1>6, <1>7, <1>8 DEF CreateNew
<1>10. dp \in Inums => d.ref = inode[dp].ref /\ d.lock = None
  <2>1. PICK y : c = [u EXCEPT !.data = y] BY <1>7, EntryIs
  <2>2. dp \in Inums => Whole(u) BY <1>0, <1>6 DEF CacheInv, Coherent, Fits
  <2>3. dp \in Inums => Whole(c) /\ c.ref = u.ref BY <2>1, <2>2, SameCounts
  <2> QED BY <1>6, <1>8, <2>3 DEF Whole
<1>11. ip \in Inums => h.ref = inode[ip].ref /\ h.lock = p
  <2>1. ip \in Inums => Whole(n) /\ n.ref = inode[ip].ref BY <1>0, <1>6, LockedIs
  <2> QED BY <1>8, <2>1 DEF Whole
<1>12. /\ inode'[i].ref = inode[i].ref
       /\ inode'[i].lock = IF i = dp THEN None ELSE IF i = ip THEN p ELSE inode[i].lock
  <2>1. inode = [j \in Inums |-> inode[j]] BY <1>0 DEF CacheInv, Coherent
  <2>2. inode'[i] = IF i = dp THEN d ELSE IF i = ip THEN h ELSE inode[i] BY <1>9, <2>1
  <2> QED BY <1>10, <1>11, <2>2
<1>13. Weighs(todo'[p], l, l, i, Bit(dp = i), 0)
  <2>2. IsPush(todo'[p], b, t) BY <1>0, <1>1, <1>2, <1>9, ThenOne DEF IsPush
  <2>3. b[1] \in Pops /\ Drops(b, i) = Bit(dp = i) /\ Frees(b, i) = 0 BY <1>8, Kinds, ItemWeighs
  <2>5. Weighs(todo'[p], IF b[1] \in Pops THEN Main(t) ELSE b[1], IF t = <<>> THEN b[1] ELSE End(t), i,
               Due(t, i) + Drops(b, i), Unlocks(t, i) + Frees(b, i)) BY <1>3, <2>2, WeighPush
  <2>6. Bit(dp = i) \in Nat BY DEF Bit
  <2> QED BY <1>3, <2>3, <2>5, <2>6
<1>14. MyRefs(p, i)' = MyRefs(p, i) /\ MyLocks(p, i) = Bit(dp = i) /\ MyLocks(p, i)' = Bit(ip = i)
  <2>1. Weighs(todo[p], "newinode", l, i, 0, 0) BY <1>3
  <2> QED BY <1>1, <1>5, <1>13, <2>1
          DEF MyRefs, MyLocks, Refs, Locks, Weighs, VarRefs, VarLocks, Bit, UsesIp, UsesDp, LocksIp
<1>15. ip \in Inums => inode[ip].lock = None
  <2>1. Wants(p) = ip BY <1>1, <1>5 DEF Wants
  <2> QED BY <1>1, <2>1, Unlocked, NoInode0
<1>16. dp \in Inums => inode[dp].lock = p
  <2> SUFFICES ASSUME dp \in Inums PROVE inode[dp].lock = p OBVIOUS
  <2>1. Weighs(todo[p], "newinode", l, dp, 0, 0) BY <1>3
  <2>2. reg[p].dp = dp /\ "newinode" \in UsesDp BY <1>5 DEF UsesDp
  <2> QED BY <1>0, <2>1, <2>2, Holder
<1> QED BY <1>0, <1>4, <1>12, <1>14, <1>15, <1>16, Passes

(* sys_mkdir() and sys_mknod() unlock what create() returned.              *)
LEMMA MkdirBalance ==
  ASSUME CountInv, NEW p \in Procs, Step(p), Mkdir(p), NEW i \in Inums PROVE Balanced(p, i) /\ OwnLock(p, i)
<1>0. OpInv /\ CacheInv /\ RefInv /\ LockInv /\ Shapes BY DEF CountInv
<1>1. Label(p) = "mkdir" /\ todo[p] # <<>> /\ UNCHANGED <<inode, file, cwd, reg>> BY Labelled DEF Mkdir, pvars, fsvars
<1>2. Weighs(todo[p], "mkdir", "mkdir", i, 0, 0) BY <1>0, <1>1, LastItem DEF Lasts
<1>3. OpenAt(i)' = OpenAt(i) /\ Effect(None, None, None) BY <1>0, <1>1, SameOpen, NoEffect
<1>4. PICK ip : ip = reg[p].ip OBVIOUS
<1>5. PICK s : s = iunlockput(ip) \o <<end_op(0)>> OBVIOUS
<1>6. todo'[p] = s BY <1>0, <1>4, <1>5, OnlyIs DEF Mkdir
<1>7. Weighs(s, "end_op", "end_op", i, Bit(ip = i), Bit(ip = i)) BY <1>5, WeighUnlock
<1>8. MyRefs(p, i)' = MyRefs(p, i) + Bit(None = i) /\ MyLocks(p, i)' = MyLocks(p, i)
  BY <1>1, <1>2, <1>4, <1>6, <1>7, NoInode0
  DEF MyRefs, MyLocks, Refs, Locks, Weighs, VarRefs, VarLocks, Bit, UsesIp, UsesDp, LocksIp
<1> QED BY <1>0, <1>3, <1>8, Keeps

-----------------------------------------------------------------------------
(* Open files.                                                             *)

(* A file of ftable changes.                                               *)
LEMMA OpenChange ==
  ASSUME Shapes, NEW g \in 1 .. NFILE, NEW x, file' = [file EXCEPT ![g] = x], NEW i
  PROVE  /\ Cardinality(OpenAt(i)) \in Nat /\ Cardinality(OpenAt(i)') \in Nat
         /\ Cardinality(OpenAt(i)') + Bit(file[g].ref > 0 /\ file[g].ip = i)
              = Cardinality(OpenAt(i)) + Bit(x.ref > 0 /\ x.ip = i)
         /\ (file[g].ref > 0 <=> x.ref > 0) /\ file[g].ip = x.ip => OpenAt(i)' = OpenAt(i)
<1>1. PICK A, E, S : A = OpenAt(i) /\ E = OpenAt(i)' /\ S = 1 .. NFILE OBVIOUS
<1>2. IsFiniteSet(S) BY <1>1, FilesAssumption, FS_Interval
<1>3. \A h \in S : file'[h] = IF h = g THEN x ELSE file[h] BY <1>1 DEF Shapes
<1>4. A = {h \in S : file[h].ref > 0 /\ file[h].ip = i} /\ E = {h \in S : file'[h].ref > 0 /\ file'[h].ip = i}
  BY <1>1 DEF OpenAt
<1>5. A \subseteq S /\ E \subseteq S /\ \A h \in S : h # g => (h \in A <=> h \in E) BY <1>3, <1>4
<1>6. (g \in A <=> file[g].ref > 0 /\ file[g].ip = i) /\ (g \in E <=> x.ref > 0 /\ x.ip = i) BY <1>1, <1>3, <1>4
<1>7. /\ Cardinality(A) \in Nat /\ Cardinality(E) \in Nat
      /\ Cardinality(E) + Bit(g \in A) = Cardinality(A) + Bit(g \in E)
  BY <1>2, <1>5, PointCount
<1>8. (file[g].ref > 0 <=> x.ref > 0) /\ file[g].ip = x.ip => E = A BY <1>5, <1>6
<1> QED BY <1>1, <1>6, <1>7, <1>8 DEF Bit

(* A step that gives a reference to an open file, or takes it from there.  *)
LEMMA Trades ==
  ASSUME OpInv, CacheInv, RefInv, LockInv, NEW p \in Procs, NEW i \in Inums, NEW k, Effect(None, k, None),
         MyRefs(p, i)' \in Nat,
         Cardinality(OpenAt(i)') + MyRefs(p, i)' = Cardinality(OpenAt(i)) + MyRefs(p, i),
         MyLocks(p, i)' \in Nat, MyLocks(p, i) = MyLocks(p, i)' + Bit(k = i)
  PROVE  Balanced(p, i) /\ OwnLock(p, i)
<1>1. /\ inode'[i].ref = inode[i].ref + Bit(None = i)
      /\ inode'[i].lock = IF i = k THEN None ELSE inode[i].lock
  BY DEF Effect
<1>2. inode[i].ref \in Nat /\ Cardinality(OpenAt(i)) \in Nat /\ Cardinality(OpenAt(i)') \in Nat BY RefsNat, OpenFinite
<1>3. MyRefs(p, i) \in Nat BY RefsType DEF MyRefs
<1>4. Bit(None = i) = 0 BY NoInode0 DEF Bit
<1>5. inode'[i].ref = inode[i].ref + (MyRefs(p, i)' - MyRefs(p, i)) + (Cardinality(OpenAt(i)') - Cardinality(OpenAt(i)))
  <2>1. PICK v \in Nat, o \in Nat, w \in Nat, v1 \in Nat, o1 \in Nat :
          /\ v = MyRefs(p, i) /\ o = Cardinality(OpenAt(i)) /\ w = inode[i].ref
          /\ v1 = MyRefs(p, i)' /\ o1 = Cardinality(OpenAt(i)')
    BY <1>2, <1>3
  <2>2. o1 + v1 = o + v BY <2>1
  <2>3. w + 0 = w + (v1 - v) + (o1 - o) BY <2>2
  <2> QED BY <1>1, <1>4, <2>1, <2>3
<1>6. Balanced(p, i) BY <1>5 DEF Balanced, MyRefs
<1>7. MyLocks(p, i) = Bit(inode[i].lock = p) BY DEF MyLocks, LockInv
<1>8. p # None BY DEF Procs, None
<1>9. MyLocks(p, i)' = Bit(inode'[i].lock = p) /\ (k = i => inode[i].lock = p) BY <1>1, <1>7, <1>8 DEF Bit
<1> QED BY <1>1, <1>6, <1>9 DEF OwnLock, MyLocks

(* A descriptor is for an open file.                                       *)
LEMMA Referenced ==
  ASSUME Shapes, FileInv, NEW p \in Procs, NEW fd \in Fds, ofile[p][fd] # None
  PROVE  ofile[p][fd] \in 1 .. NFILE /\ file[ofile[p][fd]].ref \in Nat /\ file[ofile[p][fd]].ref > 0
<1>1. PICK g : g = ofile[p][fd] OBVIOUS
<1>2. g \in 1 .. NFILE
  <2>1. g \in 0 .. NFILE /\ g # 0 BY <1>1 DEF Shapes, None
  <2>2. NFILE \in Nat BY FilesAssumption
  <2> QED BY <2>1, <2>2
<1>3. file[g].ref \in Nat BY <1>2 DEF Shapes
<1>4. file[g].ref = Cardinality(Pairs(Rows(g))) BY <1>2 DEF FileInv
<1>5. IsFiniteSet(Pairs(Rows(g)))
  <2>1. IsFiniteSet(Fds)
    <3>1. NOFILE \in Nat BY FilesAssumption
    <3> QED BY <3>1, FS_Interval DEF Fds
  <2>2. ASSUME NEW q \in Procs PROVE IsFiniteSet(Rows(g)[q])
    <3>1. Rows(g)[q] = Slots(q, g) BY DEF Rows
    <3>2. Slots(q, g) \subseteq Fds BY DEF Slots
    <3> QED BY <2>1, <3>1, <3>2, FS_Subset
  <2> QED BY <2>2, PairsFinite
<1>6. <<p, fd>> \in Pairs(Rows(g)) BY <1>1 DEF Pairs, Rows, Slots
<1>7. Cardinality(Pairs(Rows(g))) # 0 BY <1>5, <1>6, FS_EmptySet
<1> QED BY <1>1, <1>2, <1>3, <1>4, <1>7

(* What is left to a call that returns.                                    *)
LEMMA ReturnRefs ==
  ASSUME OpInv, Shapes, NEW p \in Procs, NEW r, NEW x, Return(p, r, x), NEW i
  PROVE  MyRefs(p, i)' = Bit(cwd'[p] = i) /\ MyLocks(p, i)' = 0
<1>1. Weighs(todo'[p], "user", "user", i, 0, 0) BY ReturnIs
<1>2. MyRefs(p, i)' = Bit(cwd'[p] = i)
  BY <1>1 DEF MyRefs, Refs, Weighs, VarRefs, Bit, UsesIp, UsesDp
<1>3. MyLocks(p, i)' = 0
  BY <1>1 DEF MyLocks, Locks, Weighs, VarLocks, Bit, UsesDp, LocksIp
<1> QED BY <1>2, <1>3

(* A call on a descriptor has nothing but the directory.                   *)
LEMMA FdRefs ==
  ASSUME OpInv, NEW p \in Procs, todo[p] # <<>>, Label(p) \in {"close", "dup", "read", "write", "fstat", "writei"},
         Tail(todo[p]) = <<>>, NEW i
  PROVE  MyRefs(p, i) = Bit(cwd[p] = i) /\ MyLocks(p, i) = 0
<1>1. PICK t, x, l : t = Tail(todo[p]) /\ x = todo[p][1] /\ l = Label(p) OBVIOUS
<1>2. l \notin Pops /\ l \notin UsesIp /\ l \notin UsesDp /\ l \notin LocksIp
      /\ l \notin {"dead", "chdir2", "link2", "linkbad"}
  BY <1>1 DEF Pops, UsesIp, UsesDp, LocksIp
<1>3. /\ Weighs(todo[p], IF l \in Pops THEN Main(t) ELSE l, IF t = <<>> THEN l ELSE End(t), i,
                Due(t, i) + Drops(x, i), Unlocks(t, i) + Frees(x, i))
      /\ x[1] = l
  BY <1>1, FirstItem
<1>4. Due(t, i) = 0 /\ Unlocks(t, i) = 0 /\ Drops(x, i) = 0 /\ Frees(x, i) = 0 BY <1>1, <1>2, <1>3, DueNone, NoWeight
<1>5. Weighs(todo[p], l, l, i, 0, 0) BY <1>1, <1>2, <1>3, <1>4
<1>6. MyRefs(p, i) = Bit(cwd[p] = i) BY <1>2, <1>5 DEF MyRefs, Refs, Weighs, VarRefs, Bit
<1>7. MyLocks(p, i) = 0 BY <1>2, <1>5 DEF MyLocks, Locks, Weighs, VarLocks, Bit
<1> QED BY <1>6, <1>7

(* It has the same at the beginning of another operation.                  *)
LEMMA WriteAgain ==
  ASSUME OpInv, NEW p \in Procs, NEW n, Only(p, <<Item("begin_op"), <<"writei", n>> >>), NEW i
  PROVE  MyRefs(p, i)' = Bit(cwd'[p] = i) /\ MyLocks(p, i)' = 0
<1>1. PICK a, b : a = Item("begin_op") /\ b = <<"writei", n>> OBVIOUS
<1>2. a[1] = "begin_op" /\ b[1] = "writei" BY <1>1, Kinds
<1>3. {a[1], b[1]} \cap Pops = {} BY <1>2 DEF Pops
<1>4. todo'[p] = <<a, b>> BY <1>1, OnlyIs
<1>5. Weighs(todo'[p], "begin_op", "writei", i, 0, 0) BY <1>2, <1>3, <1>4, WeighTwoItems
<1>6. MyRefs(p, i)' = Bit(cwd'[p] = i) BY <1>5 DEF MyRefs, Refs, Weighs, VarRefs, Bit, UsesIp, UsesDp
<1>7. MyLocks(p, i)' = 0 BY <1>5 DEF MyLocks, Locks, Weighs, VarLocks, Bit, UsesDp, LocksIp
<1> QED BY <1>6, <1>7

(* sys_open() finds the inode.                                             *)
LEMMA Open1Balance ==
  ASSUME CountInv, NEW p \in Procs, Step(p), Open1(p), NEW i \in Inums PROVE Balanced(p, i) /\ OwnLock(p, i)
<1>0. OpInv /\ CacheInv /\ RefInv /\ LockInv /\ Shapes BY DEF CountInv
<1>1. Label(p) = "open1" /\ todo[p] # <<>> /\ UNCHANGED <<file, cwd, reg>> BY Labelled DEF Open1, pvars
<1>2. Weighs(todo[p], "open1", "open1", i, 0, 0) BY <1>0, <1>1, LastItem DEF Lasts
<1>3. OpenAt(i)' = OpenAt(i) BY <1>1, SameOpen
<1>4. PICK ip : ip = reg[p].ip OBVIOUS
<1>5. CASE IsDir(Ilocked(ip)) /\ reg[p].call.mode # O_RDONLY
  <2>1. inode' = [inode EXCEPT ![ip] = Ilocked(ip)] /\ Only(p, <<iput(reg[p].ip), end_op(-1)>>) BY <1>4, <1>5 DEF Open1
  <2>2. Effect(None, None, None) BY <1>0, <2>1, LookEffect, IgetNone
  <2> QED BY <1>1, <2>1, <2>2, EndsBalance
<1>6. CASE ~(IsDir(Ilocked(ip)) /\ reg[p].call.mode # O_RDONLY)
  <2>1. PICK s : s = <<Item("open2")>> OBVIOUS
  <2>2. inode' = [inode EXCEPT ![ip] = Hold(Ilocked(ip), p)] /\ Only(p, s) BY <1>4, <1>6, <2>1 DEF Open1
  <2>3. Effect(None, ip, p) BY <1>0, <2>2, HoldEffect, IgetNone
  <2>4. Weighs(todo'[p], "open2", "open2", i, 0, 0)
    <3>1. todo'[p] = s BY <1>0, <2>2, OnlyIs
    <3>2. "open2" \notin Pops BY DEF Pops
    <3> QED BY <2>1, <3>1, <3>2, WeighItem
  <2>5. MyRefs(p, i)' = MyRefs(p, i) + Bit(None = i) /\ MyLocks(p, i)' = MyLocks(p, i) + Bit(ip = i)
    BY <1>1, <1>2, <1>4, <2>4, NoInode0
    DEF MyRefs, MyLocks, Refs, Locks, Weighs, VarRefs, VarLocks, Bit, UsesIp, UsesDp, LocksIp
  <2>6. ip \in Inums => inode[ip].lock = None
    <3>1. Wants(p) = ip BY <1>1, <1>4 DEF Wants
    <3> QED BY <1>1, <3>1, Unlocked, NoInode0
  <2> QED BY <1>0, <1>3, <2>3, <2>5, <2>6, Takes
<1> QED BY <1>5, <1>6

(* sys_open() gives the inode to a file, or has none for it.               *)
LEMMA Open2Balance ==
  ASSUME CountInv, NEW p \in Procs, Step(p), Open2(p), NEW i \in Inums PROVE Balanced(p, i) /\ OwnLock(p, i)
<1>0. OpInv /\ CacheInv /\ RefInv /\ LockInv /\ Shapes BY DEF CountInv
<1>1. Label(p) = "open2" /\ todo[p] # <<>> /\ UNCHANGED cwd BY Labelled DEF Open2
<1>2. Weighs(todo[p], "open2", "open2", i, 0, 0) BY <1>0, <1>1, LastItem DEF Lasts
<1>4. PICK ip : ip = reg[p].ip OBVIOUS
<1>5. CASE FreeFiles = {} \/ FreeFds(p) = {}
  <2>1. PICK s : s = iunlockput(ip) \o <<end_op(-1)>> OBVIOUS
  <2>2. Only(p, s) /\ UNCHANGED <<inode, file, reg>> BY <1>4, <1>5, <2>1 DEF Open2
  <2>3. OpenAt(i)' = OpenAt(i) /\ Effect(None, None, None) BY <1>0, <2>2, SameOpen, NoEffect
  <2>4. todo'[p] = s BY <1>0, <2>2, OnlyIs
  <2>5. Weighs(s, "end_op", "end_op", i, Bit(ip = i), Bit(ip = i)) BY <2>1, WeighUnlock
  <2>6. MyRefs(p, i)' = MyRefs(p, i) + Bit(None = i) /\ MyLocks(p, i)' = MyLocks(p, i)
    BY <1>1, <1>2, <1>4, <2>2, <2>4, <2>5, NoInode0
    DEF MyRefs, MyLocks, Refs, Locks, Weighs, VarRefs, VarLocks, Bit, UsesIp, UsesDp, LocksIp
  <2> QED BY <1>0, <2>3, <2>6, Keeps
<1>6. CASE FreeFiles # {} /\ FreeFds(p) # {}
  <2>1. PICK g, x, r : /\ g = Min(FreeFiles) /\ file' = [file EXCEPT ![g] = x] /\ x.ref = 1 /\ x.ip = ip
                       /\ Return(p, r, <<>>)
    <3>1. PICK x : x = [ref |-> 1, ip |-> ip, off |-> 0, readable |-> reg[p].call.mode # O_WRONLY,
                        writable |-> reg[p].call.mode \in {O_WRONLY, O_RDWR}]
      OBVIOUS
    <3>2. file' = [file EXCEPT ![Min(FreeFiles)] = x] /\ \E r : Return(p, r, <<>>) BY <1>4, <1>6, <3>1 DEF Open2
    <3>3. x.ref = 1 /\ x.ip = ip BY <3>1
    <3> QED BY <3>2, <3>3
  <2>2. inode' = [inode EXCEPT ![ip].lock = None] BY <1>4, <1>6 DEF Open2
  <2>3. Effect(None, ip, None) BY <1>0, <2>2, LockEffect
  <2>4. g \in 1 .. NFILE /\ file[g].ref = 0
    <3>1. FreeFiles \subseteq Nat BY FilesAssumption DEF FreeFiles
    <3>2. g \in FreeFiles BY <1>6, <2>1, <3>1, LeastNat
    <3> QED BY <3>2 DEF FreeFiles
  <2>5. /\ Cardinality(OpenAt(i)) \in Nat /\ Cardinality(OpenAt(i)') \in Nat
        /\ Cardinality(OpenAt(i)') + Bit(file[g].ref > 0 /\ file[g].ip = i)
             = Cardinality(OpenAt(i)) + Bit(x.ref > 0 /\ x.ip = i)
    <3>1. Shapes /\ g \in 1 .. NFILE /\ file' = [file EXCEPT ![g] = x] BY <1>0, <2>1, <2>4
    <3> QED BY <3>1, OpenChange
  <2>6. Cardinality(OpenAt(i)') = Cardinality(OpenAt(i)) + Bit(ip = i)
    <3>1. Bit(file[g].ref > 0 /\ file[g].ip = i) = 0 BY <2>4 DEF Bit
    <3>2. Bit(x.ref > 0 /\ x.ip = i) = Bit(ip = i) BY <2>1 DEF Bit
    <3>3. Bit(ip = i) \in Nat BY DEF Bit
    <3> QED BY <2>5, <3>1, <3>2, <3>3
  <2>7. MyRefs(p, i)' = Bit(cwd'[p] = i) /\ MyLocks(p, i)' = 0 BY <1>0, <2>1, ReturnRefs
  <2>8. MyRefs(p, i) = Bit(cwd[p] = i) + Bit(ip = i) /\ MyLocks(p, i) = Bit(ip = i)
    BY <1>2, <1>4
    DEF MyRefs, MyLocks, Refs, Locks, Weighs, VarRefs, VarLocks, Bit, UsesIp, UsesDp, LocksIp
  <2>9. Bit(cwd[p] = i) \in Nat /\ Bit(ip = i) \in Nat BY DEF Bit
  <2>10. /\ MyRefs(p, i)' \in Nat /\ Cardinality(OpenAt(i)') + MyRefs(p, i)' = Cardinality(OpenAt(i)) + MyRefs(p, i)
         /\ MyLocks(p, i)' \in Nat /\ MyLocks(p, i) = MyLocks(p, i)' + Bit(ip = i)
    BY <1>1, <2>5, <2>6, <2>7, <2>8, <2>9
  <2> QED BY <1>0, <2>3, <2>10, Trades
<1> QED BY <1>5, <1>6

(* sys_chdir() finds the directory.                                        *)
LEMMA Chdir1Balance ==
  ASSUME CountInv, NEW p \in Procs, Step(p), Chdir1(p), NEW i \in Inums PROVE Balanced(p, i) /\ OwnLock(p, i)
<1>0. OpInv /\ CacheInv /\ RefInv /\ LockInv /\ Shapes BY DEF CountInv
<1>1. Label(p) = "chdir1" /\ todo[p] # <<>> /\ UNCHANGED <<file, cwd, reg>> BY Labelled DEF Chdir1, pvars
<1>2. Weighs(todo[p], "chdir1", "chdir1", i, 0, 0) BY <1>0, <1>1, LastItem DEF Lasts
<1>3. OpenAt(i)' = OpenAt(i) BY <1>1, SameOpen
<1>4. PICK ip, c : ip = reg[p].ip /\ c = cwd[p] OBVIOUS
<1>5. inode' = [inode EXCEPT ![ip] = Ilocked(ip)] BY <1>4 DEF Chdir1
<1>6. Effect(None, None, None) BY <1>0, <1>5, LookEffect, IgetNone
<1>7. CASE IsDir(Ilocked(ip))
  <2>1. PICK b : b = Item("chdir2") OBVIOUS
  <2>2. Only(p, <<iput(c), b>>) BY <1>4, <1>7, <2>1 DEF Chdir1
  <2>3. Weighs(todo'[p], "chdir2", "chdir2", i, Bit(c = i), 0)
    <3>1. b[1] = "chdir2" /\ b[1] \notin Pops BY <2>1, Kinds DEF Pops
    <3>2. todo'[p] = <<iput(c), b>> BY <1>0, <2>2, OnlyIs
    <3> QED BY <3>1, <3>2, WeighPut
  <2>4. MyRefs(p, i)' = MyRefs(p, i) + Bit(None = i) /\ MyLocks(p, i)' = MyLocks(p, i)
    BY <1>1, <1>2, <1>4, <2>3, NoInode0
    DEF MyRefs, MyLocks, Refs, Locks, Weighs, VarRefs, VarLocks, Bit, UsesIp, UsesDp, LocksIp
  <2> QED BY <1>0, <1>3, <1>6, <2>4, Keeps
<1>8. CASE ~IsDir(Ilocked(ip))
  <2>1. Only(p, <<iput(reg[p].ip), end_op(-1)>>) BY <1>4, <1>8 DEF Chdir1
  <2> QED BY <1>1, <1>6, <2>1, EndsBalance
<1> QED BY <1>7, <1>8

(* The directory becomes the current one; exit() has given back the last.  *)
LEMMA CwdBalance ==
  ASSUME CountInv, NEW p \in Procs, Step(p), Chdir2(p) \/ Dead(p), NEW i \in Inums
  PROVE  Balanced(p, i) /\ OwnLock(p, i)
<1>0. OpInv /\ CacheInv /\ RefInv /\ LockInv /\ Shapes BY DEF CountInv
<1>1. /\ Label(p) \in {"chdir2", "dead"} /\ todo[p] # <<>> /\ UNCHANGED <<file, inode>>
      /\ Return(p, 0, <<>>) /\ cwd' = [cwd EXCEPT ![p] = IF Label(p) = "dead" THEN None ELSE reg[p].ip]
  BY Labelled DEF Chdir2, Dead, fsvars
<1>2. Weighs(todo[p], Label(p), Label(p), i, 0, 0) BY <1>0, <1>1, LastItem DEF Lasts
<1>3. OpenAt(i)' = OpenAt(i) /\ Effect(None, None, None) BY <1>0, <1>1, SameOpen, NoEffect
<1>4. MyRefs(p, i)' = Bit(cwd'[p] = i) /\ MyLocks(p, i)' = 0 BY <1>0, <1>1, ReturnRefs
<1>5. cwd'[p] = IF Label(p) = "dead" THEN None ELSE reg[p].ip BY <1>0, <1>1 DEF Shapes
<1>6. MyRefs(p, i)' = MyRefs(p, i) + Bit(None = i) /\ MyLocks(p, i)' = MyLocks(p, i)
  BY <1>1, <1>2, <1>4, <1>5, NoInode0
  DEF MyRefs, MyLocks, Refs, Locks, Weighs, VarRefs, VarLocks, Bit, UsesIp, UsesDp, LocksIp
<1> QED BY <1>0, <1>3, <1>6, Keeps

-----------------------------------------------------------------------------
(* The calls on a descriptor.                                              *)

(* exit() closes descriptors that are open.                                *)
LEMMA CloseOpen ==
  ASSUME CountInv, NEW p \in Procs, todo[p] # <<>>, Label(p) = "close", Tail(todo[p]) # <<>>
  PROVE  /\ End(todo[p]) = "dead" /\ Arg(p) \in OpenSet(p)
         /\ CloseArgs(Tail(todo[p])) = OpenSet(p) \ {Arg(p)} /\ Once(Tail(todo[p]))
         /\ reg[p].ip = None /\ reg[p].dp = None
<1>0. OpInv /\ CallOk(p) BY DEF CountInv
<1>1. PICK x, t : x = todo[p][1] /\ t = Tail(todo[p]) OBVIOUS
<1>2. /\ todo[p] = Push(x, t) /\ IsList(t) /\ x[1] = "close" /\ x[2] = Arg(p) /\ Follows("close", t)
      /\ End(todo[p]) = IF t = <<>> THEN Label(p) ELSE End(t)
  BY <1>0, <1>1, Popped DEF Good
<1>3. End(todo[p]) = "dead" BY <1>1, <1>2 DEF Follows
<1>4. CloseArgs(todo[p]) = OpenSet(p) /\ Once(todo[p]) /\ reg[p].ip = None /\ reg[p].dp = None BY <1>0, <1>3 DEF CallOk
<1>5. PICK w : w = Push(x, t) OBVIOUS
<1>6. /\ CloseArgs(w) = IF x[1] = "close" THEN CloseArgs(t) \cup {x[2]} ELSE CloseArgs(t)
      /\ Once(w) <=> Once(t) /\ (x[1] = "close" => x[2] \notin CloseArgs(t))
  BY <1>2, <1>5, ClosePush
<1>7. CloseArgs(w) = OpenSet(p) /\ Once(w) BY <1>2, <1>4, <1>5
<1>8. OpenSet(p) = CloseArgs(t) \cup {Arg(p)} /\ Once(t) /\ Arg(p) \notin CloseArgs(t) BY <1>2, <1>6, <1>7
<1> QED BY <1>1, <1>3, <1>4, <1>8

(* A call on a descriptor that is not open is not one of exit().           *)
LEMMA BadAlone ==
  ASSUME CountInv, NEW p \in Procs, todo[p] # <<>>, Label(p) \in {"close", "dup", "read", "write", "fstat"},
         Label(p) = "close" => argfd(p, Arg(p)) = None
  PROVE  Tail(todo[p]) = <<>>
<1>1. CASE Label(p) = "close"
  <2> SUFFICES ASSUME Tail(todo[p]) # <<>> PROVE FALSE OBVIOUS
  <2>1. Arg(p) \in OpenSet(p) BY <1>1, CloseOpen
  <2> QED BY <1>1, <2>1 DEF OpenSet, argfd
<1>2. CASE Label(p) # "close"
  <2>1. Label(p) \in Lasts BY <1>2 DEF Lasts
  <2> QED BY <2>1, LastItem DEF CountInv
<1> QED BY <1>1, <1>2

(* A call on a descriptor that returns, or begins to write.                *)
LEMMA FdKeeps ==
  ASSUME CountInv, NEW p \in Procs, todo[p] # <<>>, Label(p) \in {"close", "dup", "read", "write", "fstat", "writei"},
         Tail(todo[p]) = <<>>, NEW i \in Inums, OpenAt(i)' = OpenAt(i), UNCHANGED cwd, Effect(None, None, None),
         MyRefs(p, i)' = Bit(cwd'[p] = i) /\ MyLocks(p, i)' = 0
  PROVE  Balanced(p, i) /\ OwnLock(p, i)
<1>0. OpInv /\ CacheInv /\ RefInv /\ LockInv /\ Shapes BY DEF CountInv
<1>1. MyRefs(p, i) = Bit(cwd[p] = i) /\ MyLocks(p, i) = 0 BY <1>0, FdRefs
<1>2. MyRefs(p, i)' = MyRefs(p, i) + Bit(None = i) /\ MyLocks(p, i)' = MyLocks(p, i) BY <1>1, NoInode0 DEF Bit
<1> QED BY <1>0, <1>2, Keeps

(* A descriptor that is not open; dup(), fstat() and the start of write(). *)
LEMMA FdBalance ==
  ASSUME CountInv, NEW p \in Procs, Step(p), BadFd(p) \/ Dup(p) \/ Fstat(p) \/ Write(p), NEW i \in Inums
  PROVE  Balanced(p, i) /\ OwnLock(p, i)
<1>0. OpInv /\ CacheInv /\ RefInv /\ LockInv /\ Shapes /\ FileInv BY DEF CountInv
<1>1. Label(p) \in {"close", "dup", "read", "write", "fstat"} /\ todo[p] # <<>> /\ UNCHANGED cwd
  BY Labelled DEF BadFd, Dup, Fstat, Write, pvars
<1>2. Tail(todo[p]) = <<>>
  <2>1. Label(p) = "close" => argfd(p, Arg(p)) = None BY DEF BadFd, Dup, Fstat, Write
  <2> QED BY <1>1, <2>1, BadAlone
<1>3. MyRefs(p, i)' = Bit(cwd'[p] = i) /\ MyLocks(p, i)' = 0
  <2>1. (\E r, x : Return(p, r, x)) \/ \E n : Only(p, <<Item("begin_op"), <<"writei", n>> >>)
    BY DEF BadFd, Dup, Fstat, Write
  <2> QED BY <1>0, <2>1, ReturnRefs, WriteAgain
<1>4. OpenAt(i)' = OpenAt(i)
  <2>1. CASE UNCHANGED file BY <2>1, SameOpen
  <2>2. CASE Dup(p) /\ ~UNCHANGED file
    <3>1. PICK g : g = argfd(p, Arg(p)) OBVIOUS
    <3>2. PICK x : x = [file[g] EXCEPT !.ref = file[g].ref + 1] OBVIOUS
    <3>3. file' = [file EXCEPT ![g] = x] /\ g # None BY <2>2, <3>1, <3>2 DEF Dup
    <3>4. Arg(p) \in Fds /\ g = ofile[p][Arg(p)] BY <3>1, <3>3 DEF argfd
    <3>5. g \in 1 .. NFILE /\ file[g].ref \in Nat /\ file[g].ref > 0 BY <1>0, <3>3, <3>4, Referenced
    <3>6. x.ref = file[g].ref + 1 /\ x.ip = file[g].ip
      <4>1. FileOk(file[g]) BY <1>0, <3>5 DEF Shapes
      <4> QED BY <3>2, <4>1 DEF FileOk
    <3>7. (file[g].ref > 0 <=> x.ref > 0) /\ file[g].ip = x.ip BY <3>5, <3>6
    <3> QED BY <1>0, <3>3, <3>5, <3>7, OpenChange
  <2> QED BY <2>1, <2>2 DEF BadFd, Fstat, Write, pvars
<1>5. Effect(None, None, None)
  <2>1. CASE UNCHANGED inode BY <1>0, <2>1, NoEffect
  <2>2. CASE Fstat(p)
    <3>1. PICK k : inode' = [inode EXCEPT ![k] = Ilocked(k)] BY <2>2 DEF Fstat
    <3> QED BY <1>0, <3>1, LookEffect, IgetNone
  <2> QED BY <2>1, <2>2 DEF BadFd, Dup, Write, fsvars
<1> QED BY <1>1, <1>2, <1>3, <1>4, <1>5, FdKeeps

(* The offset of a file changes.                                           *)
LEMMA OpenSame ==
  ASSUME Shapes, NEW g, NEW y, file' = [file EXCEPT ![g].off = y], NEW i
  PROVE  OpenAt(i)' = OpenAt(i)
<1>1. CASE g \in 1 .. NFILE
  <2>1. PICK x : x = [file[g] EXCEPT !.off = y] OBVIOUS
  <2>2. Shapes /\ g \in 1 .. NFILE /\ file' = [file EXCEPT ![g] = x] BY <1>1, <2>1
  <2>3. FileOk(file[g]) BY <1>1 DEF Shapes
  <2>4. x.ref = file[g].ref /\ x.ip = file[g].ip BY <2>1, <2>3 DEF FileOk
  <2>5. (file[g].ref > 0 <=> x.ref > 0) /\ file[g].ip = x.ip BY <2>4
  <2> QED BY <2>2, <2>5, OpenChange
<1>2. CASE g \notin 1 .. NFILE
  <2>1. file' = file BY <1>2 DEF Shapes
  <2> QED BY <2>1, SameOpen
<1> QED BY <1>1, <1>2

(* read() *)
LEMMA ReadBalance ==
  ASSUME CountInv, NEW p \in Procs, Step(p), Read(p), NEW i \in Inums PROVE Balanced(p, i) /\ OwnLock(p, i)
<1>0. OpInv /\ CacheInv /\ RefInv /\ LockInv /\ Shapes BY DEF CountInv
<1>1. Label(p) = "read" /\ todo[p] # <<>> /\ UNCHANGED cwd BY Labelled DEF Read
<1>2. Tail(todo[p]) = <<>> BY <1>1, BadAlone
<1>3. MyRefs(p, i)' = Bit(cwd'[p] = i) /\ MyLocks(p, i)' = 0
  <2>1. \E r, x : Return(p, r, x) BY DEF Read
  <2> QED BY <1>0, <2>1, ReturnRefs
<1>4. OpenAt(i)' = OpenAt(i)
  <2>1. file' = file \/ \E g, y : file' = [file EXCEPT ![g].off = y] BY DEF Read
  <2> QED BY <1>0, <2>1, SameOpen, OpenSame
<1>5. Effect(None, None, None)
  <2>1. UNCHANGED inode \/ \E k : inode' = [inode EXCEPT ![k] = Ilocked(k)] BY DEF Read
  <2>2. CASE UNCHANGED inode BY <1>0, <2>2, NoEffect
  <2>3. ASSUME NEW k, inode' = [inode EXCEPT ![k] = Ilocked(k)] PROVE Effect(None, None, None)
    BY <1>0, <2>3, LookEffect, IgetNone
  <2> QED BY <2>1, <2>2, <2>3
<1> QED BY <1>1, <1>2, <1>3, <1>4, <1>5, FdKeeps

(* One operation of write().                                               *)
LEMMA WriteiBalance ==
  ASSUME CountInv, NEW p \in Procs, Step(p), Writei(p), NEW i \in Inums PROVE Balanced(p, i) /\ OwnLock(p, i)
<1>0. OpInv /\ CacheInv /\ RefInv /\ LockInv /\ Shapes BY DEF CountInv
<1>1. Label(p) = "writei" /\ todo[p] # <<>> /\ UNCHANGED cwd BY Labelled DEF Writei
<1>2. Tail(todo[p]) = <<>> BY <1>0, <1>1, LastItem DEF Lasts
<1>3. MyRefs(p, i)' = Bit(cwd'[p] = i) /\ MyLocks(p, i)' = 0
  <2>1. (\E r, x : Return(p, r, x)) \/ \E n : Only(p, <<Item("begin_op"), <<"writei", n>> >>) BY DEF Writei
  <2> QED BY <1>0, <2>1, ReturnRefs, WriteAgain
<1>4. OpenAt(i)' = OpenAt(i)
  <2>1. file' = file \/ \E g, y : file' = [file EXCEPT ![g].off = y] BY DEF Writei
  <2> QED BY <1>0, <2>1, SameOpen, OpenSame
<1>5. Effect(None, None, None)
  <2>1. PICK k : k = file[argfd(p, reg[p].call.fd)].ip OBVIOUS
  <2>2. PICK n : n = Ilocked(k) OBVIOUS
  <2>3. inode' = [inode EXCEPT ![k] = n] \/ \E y : inode' = [inode EXCEPT ![k] = [n EXCEPT !.data = y]]
    BY <2>1, <2>2 DEF Writei
  <2>4. CASE inode' = [inode EXCEPT ![k] = n] BY <1>0, <2>2, <2>4, LookEffect, IgetNone
  <2>5. ASSUME NEW y, inode' = [inode EXCEPT ![k] = [n EXCEPT !.data = y]] PROVE Effect(None, None, None)
    <3>1. PICK m : m = [n EXCEPT !.data = y] OBVIOUS
    <3>2. k \in Inums => m.ref = inode[k].ref /\ m.lock = inode[k].lock
      <4> SUFFICES ASSUME k \in Inums PROVE m.ref = inode[k].ref /\ m.lock = inode[k].lock OBVIOUS
      <4>1. Whole(n) /\ n.ref = inode[k].ref /\ n.lock = inode[k].lock BY <1>0, <2>2, LockedIs
      <4> QED BY <3>1, <4>1, SameCounts
    <3> QED BY <1>0, <2>5, <3>1, <3>2, SameEffect
  <2> QED BY <2>3, <2>4, <2>5
<1> QED BY <1>1, <1>2, <1>3, <1>4, <1>5, FdKeeps

(* What fileclose() puts in the place of its item.                         *)
LEMMA CloseWeighs ==
  ASSUME NEW t, IsList(t), NEW j, NEW w, NEW i,
         \E a, b, c : a = Item("begin_op") /\ b = iput(j) /\ c = end_op(0) /\ w = Push(a, Push(b, Push(c, t)))
  PROVE  Weighs(w, "begin_op", IF t = <<>> THEN "end_op" ELSE End(t), i, Due(t, i) + Bit(j = i), Unlocks(t, i))
<1>1. PICK a, b, c : a = Item("begin_op") /\ b = iput(j) /\ c = end_op(0) /\ w = Push(a, Push(b, Push(c, t))) OBVIOUS
<1>2. PICK u, v : u = Push(c, t) /\ v = Push(b, u) OBVIOUS
<1>3. IsPush(u, c, t) /\ IsPush(v, b, u) /\ IsPush(w, a, v) BY <1>1, <1>2 DEF IsPush
<1>4. /\ c[1] = "end_op" /\ c[1] \notin Pops /\ b[1] \in Pops /\ a[1] = "begin_op" /\ a[1] \notin Pops
      /\ Drops(b, i) = Bit(j = i) /\ Frees(b, i) = 0
  <2>1. "end_op" \notin Pops /\ "begin_op" \notin Pops BY DEF Pops
  <2> QED BY <1>1, <2>1, Kinds, ItemWeighs
<1>5. Drops(c, i) = 0 /\ Frees(c, i) = 0 /\ Drops(a, i) = 0 /\ Frees(a, i) = 0 BY <1>4, NoWeight
<1>6. Due(t, i) \in Nat /\ Unlocks(t, i) \in Nat BY DueFinite
<1>7. IsList(u) /\ End(u) = (IF t = <<>> THEN "end_op" ELSE End(t)) /\ Due(u, i) = Due(t, i) /\ Unlocks(u, i) = Unlocks(t, i)
  <2>1. Weighs(u, IF c[1] \in Pops THEN Main(t) ELSE c[1], IF t = <<>> THEN c[1] ELSE End(t), i,
               Due(t, i) + Drops(c, i), Unlocks(t, i) + Frees(c, i)) BY <1>3, WeighPush
  <2> QED BY <1>4, <1>5, <1>6, <2>1 DEF Weighs
<1>8. IsList(v) /\ End(v) = End(u) /\ Due(v, i) = Due(t, i) + Bit(j = i) /\ Unlocks(v, i) = Unlocks(t, i)
  <2>1. Weighs(v, IF b[1] \in Pops THEN Main(u) ELSE b[1], IF u = <<>> THEN b[1] ELSE End(u), i,
               Due(u, i) + Drops(b, i), Unlocks(u, i) + Frees(b, i)) BY <1>3, <1>7, WeighPush
  <2>2. u # <<>> BY <1>2, PushList
  <2> QED BY <1>4, <1>6, <1>7, <2>1, <2>2 DEF Weighs
<1>9. Bit(j = i) \in Nat BY DEF Bit
<1>10. Weighs(w, IF a[1] \in Pops THEN Main(v) ELSE a[1], IF v = <<>> THEN a[1] ELSE End(v), i,
              Due(v, i) + Drops(a, i), Unlocks(v, i) + Frees(a, i)) BY <1>3, <1>8, WeighPush
<1>11. v # <<>> BY <1>2, <1>7, PushList
<1> QED BY <1>4, <1>5, <1>6, <1>7, <1>8, <1>9, <1>10, <1>11

(* fileclose() *)
LEMMA FilecloseBalance ==
  ASSUME CountInv, NEW p \in Procs, Step(p), Fileclose(p), NEW i \in Inums PROVE Balanced(p, i) /\ OwnLock(p, i)
<1>0. OpInv /\ CacheInv /\ RefInv /\ LockInv /\ Shapes /\ FileInv /\ CallOk(p) BY DEF CountInv
<1>1. Label(p) = "close" /\ todo[p] # <<>> /\ UNCHANGED <<inode, cwd>> BY Labelled DEF Fileclose, fsvars
<1>2. Effect(None, None, None) BY <1>0, <1>1, NoEffect
<1>3. PICK g, t : g = argfd(p, Arg(p)) /\ t = Tail(todo[p]) OBVIOUS
<1>4. g \in 1 .. NFILE /\ file[g].ref \in Nat /\ file[g].ref > 0 /\ FileOk(file[g])
  <2>1. Arg(p) \in Fds /\ g = ofile[p][Arg(p)] /\ ofile[p][Arg(p)] # None BY <1>3 DEF Fileclose, argfd
  <2>2. g \in 1 .. NFILE /\ file[g].ref \in Nat /\ file[g].ref > 0 BY <1>0, <2>1, Referenced
  <2> QED BY <1>0, <2>2 DEF Shapes
<1>5. PICK y : y = todo[p][1] OBVIOUS
<1>6. /\ Weighs(todo[p], "close", IF t = <<>> THEN "close" ELSE End(t), i, Due(t, i), Unlocks(t, i))
      /\ Weighs(t, Main(t), End(t), i, Due(t, i), Unlocks(t, i))
  <2>1. "close" \notin Pops BY DEF Pops
  <2>2. /\ Weighs(todo[p], "close", IF t = <<>> THEN "close" ELSE End(t), i, Due(t, i) + Drops(y, i), Unlocks(t, i) + Frees(y, i))
        /\ Weighs(t, Main(t), End(t), i, Due(t, i), Unlocks(t, i)) /\ y[1] = "close"
    BY <1>0, <1>1, <1>3, <1>5, <2>1, FirstItem
  <2>3. Drops(y, i) = 0 /\ Frees(y, i) = 0 BY <2>1, <2>2, NoWeight
  <2>4. Due(t, i) \in Nat /\ Unlocks(t, i) \in Nat BY <2>2 DEF Weighs
  <2> QED BY <2>2, <2>3, <2>4
<1>7. t # <<>> => End(t) = "dead" /\ End(todo[p]) = "dead"
  <2>1. t # <<>> => End(todo[p]) = "dead" BY <1>1, <1>3, CloseOpen
  <2> QED BY <1>6, <2>1 DEF Weighs
<1>8. reg[p].ip = None /\ reg[p].dp = None
  <2>1. Main(todo[p]) = "close" /\ "close" \in Outside BY <1>6 DEF Weighs, Outside
  <2> QED BY <1>0, <2>1 DEF CallOk
<1>9. CASE file[g].ref > 1
  <2>1. OpenAt(i)' = OpenAt(i)
    <3>1. PICK x : x = [file[g] EXCEPT !.ref = file[g].ref - 1] OBVIOUS
    <3>2. Shapes /\ g \in 1 .. NFILE /\ file' = [file EXCEPT ![g] = x] BY <1>0, <1>3, <1>4, <1>9, <3>1 DEF Fileclose
    <3>3. x.ref = file[g].ref - 1 /\ x.ip = file[g].ip BY <1>4, <3>1 DEF FileOk
    <3>4. (file[g].ref > 0 <=> x.ref > 0) /\ file[g].ip = x.ip BY <1>4, <1>9, <3>3
    <3> QED BY <3>2, <3>4, OpenChange
  <2>2. CASE t = <<>>
    <3>1. Return(p, 0, <<>>) BY <1>0, <1>1, <1>3, <1>9, <2>2, Popped DEF Fileclose
    <3>2. MyRefs(p, i)' = Bit(cwd'[p] = i) /\ MyLocks(p, i)' = 0 BY <1>0, <3>1, ReturnRefs
    <3> QED BY <1>1, <1>2, <1>3, <2>1, <2>2, <3>2, FdKeeps
  <2>3. CASE t # <<>>
    <3>1. Then(p, <<>>) /\ UNCHANGED reg BY <1>0, <1>1, <1>3, <1>9, <2>3, Popped DEF Fileclose
    <3>2. todo'[p] = t BY <1>0, <1>1, <1>3, <3>1, ThenNone
    <3>3. MyRefs(p, i)' = MyRefs(p, i) + Bit(None = i) /\ MyLocks(p, i)' = MyLocks(p, i)
      BY <1>1, <1>6, <1>7, <1>8, <2>3, <3>1, <3>2, NoInode0
      DEF MyRefs, MyLocks, Refs, Locks, Weighs, VarRefs, VarLocks, Bit
    <3> QED BY <1>0, <1>2, <2>1, <3>3, Keeps
  <2> QED BY <2>2, <2>3
<1>10. CASE ~(file[g].ref > 1)
  <2>1. PICK j, x : j = file[g].ip /\ x = FreeFile OBVIOUS
  <2>2. file' = [file EXCEPT ![g] = x] /\ Then(p, CloseInode(j)) /\ UNCHANGED reg BY <1>3, <1>10, <2>1 DEF Fileclose
  <2>3. Cardinality(OpenAt(i)) \in Nat /\ Cardinality(OpenAt(i)') \in Nat
        /\ Cardinality(OpenAt(i)') + Bit(j = i) = Cardinality(OpenAt(i))
    <3>1. Shapes /\ g \in 1 .. NFILE /\ file' = [file EXCEPT ![g] = x] BY <1>0, <1>4, <2>2
    <3>2. /\ Cardinality(OpenAt(i)) \in Nat /\ Cardinality(OpenAt(i)') \in Nat
          /\ Cardinality(OpenAt(i)') + Bit(file[g].ref > 0 /\ file[g].ip = i)
               = Cardinality(OpenAt(i)) + Bit(x.ref > 0 /\ x.ip = i)
      BY <3>1, OpenChange
    <3>3. Bit(file[g].ref > 0 /\ file[g].ip = i) = Bit(j = i) BY <1>4, <2>1
    <3>4. Bit(x.ref > 0 /\ x.ip = i) = 0
      <4>1. x.ref = 0 BY <2>1 DEF FreeFile
      <4> QED BY <4>1 DEF Bit
    <3> QED BY <3>2, <3>3, <3>4
  <2>4. Weighs(todo'[p], "begin_op", IF t = <<>> THEN "end_op" ELSE End(t), i, Due(t, i) + Bit(j = i), Unlocks(t, i))
    <3>1. PICK a, b, c : a = Item("begin_op") /\ b = iput(j) /\ c = end_op(0) OBVIOUS
    <3>2. Then(p, <<a, b, c>>) BY <2>2, <3>1 DEF CloseInode
    <3>3. todo'[p] = Push(a, Push(b, Push(c, t))) BY <1>0, <1>1, <1>3, <3>2, ThenThree
    <3>4. IsList(t) BY <1>6 DEF Weighs
    <3> QED BY <3>1, <3>3, <3>4, CloseWeighs
  <2>5. MyRefs(p, i)' = MyRefs(p, i) + Bit(j = i) /\ MyLocks(p, i)' = MyLocks(p, i)
    BY <1>1, <1>6, <1>7, <1>8, <2>2, <2>4, NoInode0
    DEF MyRefs, MyLocks, Refs, Locks, Weighs, VarRefs, VarLocks, Bit
  <2>6. MyRefs(p, i) \in Nat /\ MyLocks(p, i) \in Nat BY <1>0, RefsType DEF MyRefs, MyLocks
  <2>7. Bit(j = i) \in Nat /\ Bit(None = i) = 0 BY NoInode0 DEF Bit
  <2>8. /\ MyRefs(p, i)' \in Nat /\ Cardinality(OpenAt(i)') + MyRefs(p, i)' = Cardinality(OpenAt(i)) + MyRefs(p, i)
        /\ MyLocks(p, i)' \in Nat /\ MyLocks(p, i) = MyLocks(p, i)' + Bit(None = i)
    BY <2>3, <2>5, <2>6, <2>7
  <2> QED BY <1>0, <1>2, <2>8, Trades
<1> QED BY <1>9, <1>10

-----------------------------------------------------------------------------
(* The start of a system call, and fork().                                 *)

Moved(A, E, n, m) == A \subseteq 1 .. m /\ E = {k \in 1 .. n + m : k - n \in A}

(* The same set further on.                                                *)
LEMMA MovedCount ==
  ASSUME NEW n \in Nat, NEW m \in Nat, NEW A, NEW E, Moved(A, E, n, m)
  PROVE  Cardinality(E) = Cardinality(A)
<1>0. IsFiniteSet(1 .. m) /\ A \subseteq 1 .. m /\ E = {k \in 1 .. n + m : k - n \in A} BY FS_Interval DEF Moved
<1>1. IsFiniteSet(A) BY <1>0, FS_Subset
<1>2. PICK g : g = [k \in A |-> n + k] OBVIOUS
<1>3. \A k \in A : k \in Nat /\ n + k \in 1 .. n + m /\ (n + k) - n = k /\ g[k] = n + k BY <1>0, <1>2
<1>4. \A k \in A : n + k \in E BY <1>0, <1>3
<1>5. g \in [A -> E] BY <1>2, <1>4
<1>6. \A j, k \in A : g[j] = g[k] => j = k BY <1>3
<1>7. \A e \in E : e - n \in A /\ g[e - n] = e
  <2> SUFFICES ASSUME NEW e \in E PROVE e - n \in A /\ g[e - n] = e OBVIOUS
  <2>1. e \in Nat /\ e - n \in A BY <1>0
  <2>2. n + (e - n) = e BY <2>1
  <2> QED BY <1>3, <2>1, <2>2
<1>8. g \in Bijection(A, E) BY <1>5, <1>6, <1>7, Fun_IsBij
<1> QED BY <1>1, <1>8, FS_Bijection DEF ExistsBijection

(* A list of n close() items, for different descriptors. *)
CloseList(g, n) ==
    /\ n \in Nat /\ g \in [1 .. n -> {<<"close", x>> : x \in Fds}]
    /\ \A j, k \in 1 .. n : g[j][2] = g[k][2] => j = k

(* The close() items of exit(), before others.                             *)
LEMMA ClosesFirst ==
  ASSUME NEW n, NEW g, CloseList(g, n), NEW u, IsList(u), \A k \in 1 .. Len(u) : u[k][1] # "close", NEW i
  PROVE  /\ CloseArgs(g \o u) = {g[k][2] : k \in 1 .. n} /\ Once(g \o u)
         /\ Due(g \o u, i) = Due(u, i) /\ Unlocks(g \o u, i) = Unlocks(u, i)
<1>0. /\ n \in Nat /\ g \in [1 .. n -> {<<"close", x>> : x \in Fds}]
      /\ \A j, k \in 1 .. n : g[j][2] = g[k][2] => j = k
  BY DEF CloseList
<1>1. g \in Seq({<<"close", x>> : x \in Fds}) /\ Len(g) = n BY <1>0
<1>2. IsList(g) BY <1>1, ListOf
<1>3. PICK w, m : w = g \o u /\ m = Len(u) OBVIOUS
<1>4. Len(w) = n + m /\ m \in Nat /\ \A k \in 1 .. n + m : w[k] = IF k <= n THEN g[k] ELSE u[k - n]
  BY <1>1, <1>2, <1>3, ConcatList
<1>5. \A k \in 1 .. n : k \in 1 .. n + m /\ w[k] = g[k] /\ w[k][1] = "close"
  <2> SUFFICES ASSUME NEW k \in 1 .. n PROVE k \in 1 .. n + m /\ w[k] = g[k] /\ w[k][1] = "close" OBVIOUS
  <2>1. k \in 1 .. n + m /\ w[k] = g[k] BY <1>0, <1>4
  <2>2. g[k][1] = "close" BY <1>0
  <2> QED BY <2>1, <2>2
<1>6. \A k \in 1 .. n + m : k \notin 1 .. n => k - n \in 1 .. m /\ w[k] = u[k - n] BY <1>0, <1>4
<1>7. Closes(w) = 1 .. n BY <1>0, <1>3, <1>4, <1>5, <1>6 DEF Closes
<1>8. CloseArgs(w) = {g[k][2] : k \in 1 .. n} BY <1>5, <1>7 DEF CloseArgs
<1>9. Once(w) BY <1>0, <1>5, <1>7 DEF Once
<1>10. ASSUME NEW L, "close" \notin L
       PROVE  {k \in 1 .. Len(w) : w[k][1] \in L /\ w[k][2] = i}
                = {k \in 1 .. n + m : k - n \in {j \in 1 .. Len(u) : u[j][1] \in L /\ u[j][2] = i}}
  <2> SUFFICES ASSUME NEW k \in 1 .. n + m
               PROVE  w[k][1] \in L /\ w[k][2] = i <=> k - n \in {j \in 1 .. m : u[j][1] \in L /\ u[j][2] = i}
    BY <1>3, <1>4
  <2>1. CASE k \in 1 .. n
    <3>1. w[k][1] \notin L BY <1>5, <1>10, <2>1
    <3>2. k - n \notin 1 .. m BY <1>0, <2>1
    <3> QED BY <3>1, <3>2
  <2>2. CASE k \notin 1 .. n BY <1>6, <2>2
  <2> QED BY <2>1, <2>2
<1>11. Cardinality(DueAt(w, i)) = Cardinality(DueAt(u, i))
  <2>1. PICK A, E, L : A = DueAt(u, i) /\ E = DueAt(w, i) /\ L = {"iput", "ifree", "deref"} OBVIOUS
  <2>2. "close" \notin L BY <2>1
  <2>3. A = {j \in 1 .. Len(u) : u[j][1] \in L /\ u[j][2] = i} /\ E = {j \in 1 .. Len(w) : w[j][1] \in L /\ w[j][2] = i}
    BY <2>1 DEF DueAt
  <2>4. Moved(A, E, n, m) BY <1>3, <1>10, <2>2, <2>3 DEF Moved
  <2> QED BY <1>0, <1>4, <2>1, <2>4, MovedCount
<1>12. Cardinality(LockAt(w, i)) = Cardinality(LockAt(u, i))
  <2>1. PICK A, E, L : A = LockAt(u, i) /\ E = LockAt(w, i) /\ L = {"iunlock", "ifree"} OBVIOUS
  <2>2. "close" \notin L BY <2>1
  <2>3. A = {j \in 1 .. Len(u) : u[j][1] \in L /\ u[j][2] = i} /\ E = {j \in 1 .. Len(w) : w[j][1] \in L /\ w[j][2] = i}
    BY <2>1 DEF LockAt
  <2>4. Moved(A, E, n, m) BY <1>3, <1>10, <2>2, <2>3 DEF Moved
  <2> QED BY <1>0, <1>4, <2>1, <2>4, MovedCount
<1> QED BY <1>3, <1>8, <1>9, <1>11, <1>12 DEF Due, Unlocks

(* Three items that give nothing back.                                     *)
LEMMA WeighThreeItems ==
  ASSUME NEW a, NEW b, NEW c, {a[1], b[1], c[1]} \cap Pops = {}, NEW s, IsThree(s, a, b, c), NEW i
  PROVE  Weighs(s, a[1], c[1], i, 0, 0)
<1>1. PICK t : t = <<b, c>> OBVIOUS
<1>2. Weighs(t, b[1], c[1], i, 0, 0) BY <1>1, WeighTwoItems
<1>3. IsPush(s, a, t)
  <2>1. s = <<a, b, c>> BY DEF IsThree
  <2>2. s = Push(a, Push(b, Push(c, <<>>))) BY <2>1, Literal3
  <2>3. t = Push(b, Push(c, <<>>)) BY <1>1, Literals
  <2> QED BY <2>2, <2>3 DEF IsPush
<1>4. t # <<>> BY <1>1
<1>5. IsList(t) /\ End(t) = c[1] /\ Due(t, i) = 0 /\ Unlocks(t, i) = 0 BY <1>2 DEF Weighs
<1>6. Weighs(s, IF a[1] \in Pops THEN Main(t) ELSE a[1], IF t = <<>> THEN a[1] ELSE End(t), i,
             Due(t, i) + Drops(a, i), Unlocks(t, i) + Frees(a, i)) BY <1>3, <1>5, WeighPush
<1>7. Drops(a, i) = 0 /\ Frees(a, i) = 0 BY NoWeight
<1> QED BY <1>4, <1>5, <1>6, <1>7

(* begin_op() comes first.                                                 *)
LEMMA WeighInOp ==
  ASSUME NEW s, s # <<>>, NEW m, NEW e, NEW i, NEW d, NEW u, Weighs(s, m, e, i, d, u)
  PROVE  Weighs(InOp(s), "begin_op", e, i, d, u)
<1>1. PICK a, w : a = Item("begin_op") /\ w = InOp(s) OBVIOUS
<1>2. IsPush(w, a, s) BY <1>1 DEF IsPush, InOp, Push
<1>3. a[1] = "begin_op" /\ a[1] \notin Pops BY <1>1, Kinds DEF Pops
<1>4. IsList(s) /\ End(s) = e /\ Due(s, i) = d /\ Unlocks(s, i) = u /\ d \in Nat /\ u \in Nat BY DEF Weighs
<1>5. Weighs(w, IF a[1] \in Pops THEN Main(s) ELSE a[1], IF s = <<>> THEN a[1] ELSE End(s), i,
             Due(s, i) + Drops(a, i), Unlocks(s, i) + Frees(a, i)) BY <1>2, <1>4, WeighPush
<1>6. Drops(a, i) = 0 /\ Frees(a, i) = 0 BY <1>3, NoWeight
<1> QED BY <1>1, <1>3, <1>4, <1>5, <1>6

IsExit(s, p) == s = [k \in 1 .. Len(OpenFds(p)) |-> <<"close", OpenFds(p)[k]>>] \o InOp(<<iput(cwd[p]), Item("dead")>>)

(* The agenda of exit(): close the descriptors, put the directory.         *)
LEMMA ExitWeighs ==
  ASSUME NEW p, NEW i, NEW s, IsExit(s, p)
  PROVE  /\ IsList(s) /\ End(s) = "dead" /\ Due(s, i) = Bit(cwd[p] = i) /\ Unlocks(s, i) = 0
         /\ CloseArgs(s) = OpenSet(p) /\ Once(s)
<1>1. PICK n, fds : n = Len(OpenFds(p)) /\ fds = OpenFds(p) OBVIOUS
<1>2. PICK g : g = [k \in 1 .. n |-> <<"close", fds[k]>>] OBVIOUS
<1>3. PICK a, b, c : a = iput(cwd[p]) /\ b = Item("dead") /\ c = Item("begin_op") OBVIOUS
<1>4. PICK t : t = <<a, b>> OBVIOUS
<1>5. PICK u : u = InOp(t) OBVIOUS
<1>6. s = g \o u BY <1>1, <1>2, <1>3, <1>4, <1>5 DEF IsExit
<1>7. a[1] = "iput" /\ b[1] = "dead" /\ c[1] = "begin_op" BY <1>3, Labels
<1>8. Weighs(u, "begin_op", "dead", i, Bit(cwd[p] = i), 0)
  <2>1. b[1] \notin Pops BY <1>7 DEF Pops
  <2>2. t = <<iput(cwd[p]), b>> BY <1>3, <1>4
  <2>3. Weighs(t, b[1], b[1], i, Bit(cwd[p] = i), 0) BY <2>1, <2>2, WeighPut
  <2>4. Weighs(t, "dead", "dead", i, Bit(cwd[p] = i), 0) BY <1>7, <2>3
  <2> QED BY <1>4, <1>5, <2>4, WeighInOp
<1>9. Good(u) /\ u # <<>> /\ u[1][1] = "begin_op" /\ End(u) = "dead"
  <2>1. "dead" \in After("iput") /\ "dead" \in MayEnd BY AfterIs DEF MayEnd
  <2>2. Good(t) /\ t # <<>> /\ t[1] = a /\ End(t) = b[1] BY <1>4, <1>7, <2>1, GoodTwo
  <2>3. EndsWith(u, "begin_op") /\ End(u) = End(t) BY <1>5, <1>7, <2>2, InOpGood
  <2> QED BY <1>7, <2>2, <2>3 DEF EndsWith
<1>10. n \in Nat /\ g \in [1 .. n -> {<<"close", x>> : x \in Fds}] /\ (\A j, k \in 1 .. n : g[j][2] = g[k][2] => j = k)
       /\ {g[k][2] : k \in 1 .. n} = OpenSet(p)
  <2>1. /\ fds \in Seq(Fds) /\ n \in Nat /\ \A j, k \in 1 .. n : fds[j] = fds[k] => j = k
        /\ {fds[k] : k \in 1 .. n} = OpenSet(p)
    BY <1>1, OpenFdsIs
  <2>2. \A k \in 1 .. n : fds[k] \in Fds BY <1>1, <2>1
  <2>3. \A k \in 1 .. n : g[k][2] = fds[k] BY <1>2
  <2> QED BY <1>2, <2>1, <2>2, <2>3
<1>11. \A k \in 1 .. Len(u) : u[k][1] # "close"
  <2>1. CloseArgs(u) = {}
    <3>1. PICK v : v = Push(b, <<>>) OBVIOUS
    <3>2. PICK x : x = Push(a, v) OBVIOUS
    <3>3. u = Push(c, x)
      <4>1. t = x BY <1>4, <3>1, <3>2, Literals
      <4> QED BY <1>3, <1>5, <4>1 DEF InOp, Push
    <3>4. IsList(v) /\ CloseArgs(v) = {} BY <1>7, <3>1, EmptyList, PushList, ClosePush
    <3>5. IsList(x) /\ CloseArgs(x) = {} BY <1>7, <3>2, <3>4, PushList, ClosePush
    <3> QED BY <1>7, <3>3, <3>5, ClosePush
  <2> QED BY <2>1 DEF CloseArgs, Closes
<1>12. IsList(u) /\ Due(u, i) = Bit(cwd[p] = i) /\ Unlocks(u, i) = 0 BY <1>8 DEF Weighs
<1>13. /\ CloseArgs(g \o u) = {g[k][2] : k \in 1 .. n} /\ Once(g \o u)
       /\ Due(g \o u, i) = Due(u, i) /\ Unlocks(g \o u, i) = Unlocks(u, i)
  <2>1. CloseList(g, n) BY <1>10 DEF CloseList
  <2> QED BY <2>1, <1>11, <1>12, ClosesFirst
<1>14. Good(g \o u) /\ End(g \o u) = "dead" BY <1>9, <1>10, CloseAll
<1> QED BY <1>6, <1>10, <1>12, <1>13, <1>14 DEF Good

(* What the agenda of a system call has to give back.                      *)
LEMMA AgendaWeighs ==
  ASSUME NEW p, NEW c, c.op \in SystemCalls, NEW s, s = Agenda(p, c), NEW i
  PROVE  /\ IsList(s) /\ Due(s, i) = Bit(End(s) = "dead" /\ cwd[p] = i) /\ Unlocks(s, i) = 0
         /\ End(s) \notin {"chdir2", "link2", "linkbad"}
         /\ End(s) = "dead" => CloseArgs(s) = OpenSet(p) /\ Once(s)
<1>1. ASSUME NEW m, NEW e, e \notin {"chdir2", "link2", "linkbad", "dead"}, Weighs(s, m, e, i, 0, 0)
      PROVE  /\ IsList(s) /\ Due(s, i) = Bit(End(s) = "dead" /\ cwd[p] = i) /\ Unlocks(s, i) = 0
             /\ End(s) \notin {"chdir2", "link2", "linkbad"}
             /\ End(s) = "dead" => CloseArgs(s) = OpenSet(p) /\ Once(s)
  BY <1>1 DEF Weighs, Bit
<1>2. {"namei", "nameiparent", "create", "link1", "open1", "chdir1", "unlink1", "open2", "mkdir", "close", "dup",
       "read", "write", "fstat"} \cap Pops = {} BY DEF Pops
<1>3. CASE c.op \in {"link", "open", "chdir", "unlink"}
  <2>1. PICK h, l : /\ h \in {"namei", "nameiparent"} /\ l \in {"link1", "open1", "chdir1", "unlink1"}
                    /\ s = InOp(<< <<h, c.path>>, Item(l) >>)
    BY <1>3 DEF Agenda, InOp
  <2>2. PICK a, b : a = <<h, c.path>> /\ b = Item(l) OBVIOUS
  <2>3. PICK t : t = <<a, b>> OBVIOUS
  <2>4. a[1] = h /\ b[1] = l BY <2>2, Kinds
  <2>5. {a[1], b[1]} \cap Pops = {} BY <1>2, <2>1, <2>4
  <2>6. Weighs(t, a[1], b[1], i, 0, 0) BY <2>3, <2>5, WeighTwoItems
  <2>7. Weighs(s, "begin_op", b[1], i, 0, 0) BY <2>1, <2>2, <2>3, <2>6, WeighInOp
  <2>8. b[1] \notin {"chdir2", "link2", "linkbad", "dead"} BY <2>1, <2>4
  <2> QED BY <1>1, <2>7, <2>8
<1>4. CASE c.op \in {"creat", "mkdir", "mknod"}
  <2>1. PICK y, l : l \in {"open2", "mkdir"} /\ s = InOp(<< <<"nameiparent", c.path>>, <<"create", y>>, Item(l) >>)
    BY <1>4 DEF Agenda, InOp
  <2>2. PICK a, b, d : a = <<"nameiparent", c.path>> /\ b = <<"create", y>> /\ d = Item(l) OBVIOUS
  <2>3. PICK t : t = <<a, b, d>> OBVIOUS
  <2>4. a[1] = "nameiparent" /\ b[1] = "create" /\ d[1] = l BY <2>2, Kinds
  <2>5. {a[1], b[1], d[1]} \cap Pops = {} /\ IsThree(t, a, b, d) BY <1>2, <2>1, <2>3, <2>4 DEF IsThree
  <2>6. Weighs(t, a[1], d[1], i, 0, 0) BY <2>5, WeighThreeItems
  <2>7. Weighs(s, "begin_op", d[1], i, 0, 0) BY <2>1, <2>2, <2>3, <2>6, WeighInOp
  <2>8. d[1] \notin {"chdir2", "link2", "linkbad", "dead"} BY <2>1, <2>4
  <2> QED BY <1>1, <2>7, <2>8
<1>5. CASE c.op = "exit"
  <2>1. IsExit(s, p) BY <1>5 DEF Agenda, InOp, IsExit
  <2>2. /\ IsList(s) /\ End(s) = "dead" /\ Due(s, i) = Bit(cwd[p] = i) /\ Unlocks(s, i) = 0
        /\ CloseArgs(s) = OpenSet(p) /\ Once(s)
    BY <2>1, ExitWeighs
  <2> QED BY <2>2 DEF Bit
<1>6. CASE c.op \in {"close", "dup", "read", "write", "fstat"}
  <2>1. PICK a : a = <<c.op, c.fd>> OBVIOUS
  <2>2. s = <<a>> /\ a[1] = c.op BY <1>6, <2>1 DEF Agenda
  <2>3. a[1] \notin Pops BY <1>2, <1>6, <2>2
  <2>4. Weighs(s, a[1], a[1], i, 0, 0) BY <2>2, <2>3, WeighOne
  <2>5. a[1] \notin {"chdir2", "link2", "linkbad", "dead"} BY <1>6, <2>2
  <2> QED BY <1>1, <2>4, <2>5
<1> QED BY <1>3, <1>4, <1>5, <1>6 DEF SystemCalls

(* A process outside a system call has its directory.                      *)
LEMMA IdleRefs ==
  ASSUME NEW p, todo[p] = <<>>, NEW i
  PROVE  MyRefs(p, i) = Bit(cwd[p] = i) /\ MyLocks(p, i) = 0
<1>1. Weighs(todo[p], "user", "user", i, 0, 0) BY EmptyList, DueNone DEF Weighs
<1>2. MyRefs(p, i) = Bit(cwd[p] = i)
  BY <1>1 DEF MyRefs, Refs, Weighs, VarRefs, Bit, UsesIp, UsesDp
<1>3. MyLocks(p, i) = 0
  BY <1>1 DEF MyLocks, Locks, Weighs, VarLocks, Bit, UsesDp, LocksIp
<1> QED BY <1>2, <1>3

(* A system call begins.                                                   *)
LEMMA SyscallBalance ==
  ASSUME CountInv, NEW p \in Procs, NEW c, c.op \in SystemCalls, Syscall(p, c), NEW i \in Inums
  PROVE  Balanced(p, i) /\ OwnLock(p, i)
<1>0. OpInv /\ CacheInv /\ RefInv /\ LockInv /\ Shapes BY DEF CountInv
<1>1. PICK s, r : s = Agenda(p, c) /\ r = [NoReg EXCEPT !.call = c] OBVIOUS
<1>2. todo[p] = <<>> /\ Only(p, s) /\ Set(p, r) /\ UNCHANGED <<file, cwd, inode>> BY <1>1 DEF Syscall, pvars, fsvars
<1>3. OpenAt(i)' = OpenAt(i) /\ Effect(None, None, None) BY <1>0, <1>2, SameOpen, NoEffect
<1>4. MyRefs(p, i) = Bit(cwd[p] = i) /\ MyLocks(p, i) = 0 BY <1>2, IdleRefs
<1>5. /\ Due(s, i) = Bit(End(s) = "dead" /\ cwd[p] = i) /\ Unlocks(s, i) = 0
      /\ End(s) \notin {"chdir2", "link2", "linkbad"}
  BY <1>1, AgendaWeighs
<1>6. todo'[p] = s /\ reg'[p] = r BY <1>0, <1>2, OnlyIs, SetIs
<1>7. r.ip = None /\ r.dp = None /\ r.old = None
  <2>1. r = [call |-> c, ip |-> None, dp |-> None, old |-> None, elems |-> <<>>, name |-> ""] BY <1>1, Zenon DEF NoReg
  <2> QED BY <2>1
<1>8. MyRefs(p, i)' = MyRefs(p, i) + Bit(None = i) /\ MyLocks(p, i)' = MyLocks(p, i)
  BY <1>2, <1>4, <1>5, <1>6, <1>7, NoInode0
  DEF MyRefs, MyLocks, Refs, Locks, VarRefs, VarLocks, Bit
<1> QED BY <1>0, <1>3, <1>8, Keeps

-----------------------------------------------------------------------------
(* The descriptors of a file.                                              *)

(* Descriptors are finitely many.                                          *)
LEMMA SlotsFinite ==
  ASSUME NEW p, NEW g
  PROVE  /\ IsFiniteSet(Fds) /\ IsFiniteSet(Slots(p, g)) /\ IsFiniteSet(Slots(p, g)')
         /\ Cardinality(Slots(p, g)) \in Nat /\ Cardinality(Slots(p, g)') \in Nat
<1>1. IsFiniteSet(Fds)
  <2>1. NOFILE \in Nat BY FilesAssumption
  <2> QED BY <2>1, FS_Interval DEF Fds
<1>2. PICK A, E : A = Slots(p, g) /\ E = Slots(p, g)' OBVIOUS
<1>3. A \subseteq Fds /\ E \subseteq Fds BY <1>2 DEF Slots
<1> QED BY <1>1, <1>2, <1>3, FS_Subset, FS_CardinalityType

(* The descriptors of one process change.                                  *)
LEMMA RowsStep ==
  ASSUME FileInv, NEW p \in Procs, \A q \in Procs \ {p} : ofile'[q] = ofile[q], NEW g \in 1 .. NFILE,
         file[g].ref \in Nat, file'[g].ref \in Nat,
         file'[g].ref + Cardinality(Slots(p, g)) = file[g].ref + Cardinality(Slots(p, g)')
  PROVE  file'[g].ref = Cardinality(Pairs(Rows(g)'))
<1>1. PICK D, E : D = Rows(g) /\ E = Rows(g)' OBVIOUS
<1>2. \A q \in Procs : D[q] = Slots(q, g) /\ E[q] = Slots(q, g)' BY <1>1 DEF Rows
<1>3. \A q \in Procs : IsFiniteSet(D[q]) /\ IsFiniteSet(E[q]) BY <1>2, SlotsFinite
<1>4. \A q \in Procs : q # p => D[q] = E[q]
  <2> SUFFICES ASSUME NEW q \in Procs, q # p PROVE D[q] = E[q] OBVIOUS
  <2>1. ofile'[q] = ofile[q] OBVIOUS
  <2>2. Slots(q, g)' = Slots(q, g) BY <2>1 DEF Slots
  <2> QED BY <1>2, <2>2
<1>5. /\ Cardinality(Pairs(D)) \in Nat /\ Cardinality(Pairs(E)) \in Nat
      /\ Cardinality(Pairs(E)) + Cardinality(D[p]) = Cardinality(Pairs(D)) + Cardinality(E[p])
  BY <1>3, <1>4, PairsCount
<1>6. file[g].ref = Cardinality(Pairs(D)) BY <1>1 DEF FileInv
<1>7. D[p] = Slots(p, g) /\ E[p] = Slots(p, g)' BY <1>2
<1>8. Cardinality(Slots(p, g)) \in Nat /\ Cardinality(Slots(p, g)') \in Nat BY SlotsFinite
<1>9. file'[g].ref = Cardinality(Pairs(E)) BY <1>5, <1>6, <1>7, <1>8
<1> QED BY <1>1, <1>9

(* A descriptor changes.                                                   *)
LEMMA SlotsStep ==
  ASSUME Shapes, NEW p \in Procs, NEW fd \in Fds, NEW h, ofile' = [ofile EXCEPT ![p][fd] = h], NEW g
  PROVE  /\ Cardinality(Slots(p, g)) \in Nat /\ Cardinality(Slots(p, g)') \in Nat
         /\ Cardinality(Slots(p, g)') + Bit(ofile[p][fd] = g) = Cardinality(Slots(p, g)) + Bit(h = g)
         /\ \A q \in Procs \ {p} : ofile'[q] = ofile[q]
<1>1. PICK A, E : A = Slots(p, g) /\ E = Slots(p, g)' OBVIOUS
<1>2. ofile = [q \in Procs |-> ofile[q]] /\ ofile[p] = [x \in Fds |-> ofile[p][x]] BY DEF Shapes
<1>3. ofile'[p] = [ofile[p] EXCEPT ![fd] = h] /\ \A q \in Procs \ {p} : ofile'[q] = ofile[q] BY <1>2
<1>4. \A x \in Fds : ofile'[p][x] = IF x = fd THEN h ELSE ofile[p][x] BY <1>2, <1>3
<1>5. A = {x \in Fds : ofile[p][x] = g} /\ E = {x \in Fds : ofile'[p][x] = g} BY <1>1 DEF Slots
<1>6. A \subseteq Fds /\ E \subseteq Fds /\ \A x \in Fds : x # fd => (x \in A <=> x \in E) BY <1>4, <1>5
<1>7. (fd \in A <=> ofile[p][fd] = g) /\ (fd \in E <=> h = g) BY <1>4, <1>5
<1>8. IsFiniteSet(Fds) BY SlotsFinite
<1>9. /\ Cardinality(A) \in Nat /\ Cardinality(E) \in Nat
      /\ Cardinality(E) + Bit(fd \in A) = Cardinality(A) + Bit(fd \in E)
  BY <1>6, <1>8, PointCount
<1> QED BY <1>1, <1>3, <1>7, <1>9 DEF Bit

FilesOk ==
    /\ FileInv
    /\ file = [g \in 1 .. NFILE |-> file[g]] /\ \A g \in 1 .. NFILE : FileOk(file[g]) /\ file[g].ref \in Nat
    /\ ofile = [q \in Procs |-> ofile[q]]
    /\ \A q \in Procs : ofile[q] = [y \in Fds |-> ofile[q][y]] /\ \A y \in Fds : ofile[q][y] \in 0 .. NFILE

(* Descriptor fd of p becomes h, and file k becomes x. *)
FileMove(p, fd, h, k, x) ==
    /\ p \in Procs /\ fd \in Fds /\ h \in 0 .. NFILE /\ k \in 1 .. NFILE /\ FileOk(x) /\ x.ref \in Nat
    /\ ofile' = [ofile EXCEPT ![p][fd] = h] /\ file' = [file EXCEPT ![k] = x]
    /\ \A g \in 1 .. NFILE : g # k => (ofile[p][fd] = g <=> h = g)
    /\ x.ref + Bit(ofile[p][fd] = k) = file[k].ref + Bit(h = k)

(* A descriptor and a reference count change.                              *)
LEMMA FilesStep ==
  ASSUME Shapes, FileInv, NEW p, NEW fd, NEW h, NEW k, NEW x, FileMove(p, fd, h, k, x)
  PROVE  FilesOk'
<1>0. /\ p \in Procs /\ fd \in Fds /\ h \in 0 .. NFILE /\ k \in 1 .. NFILE /\ FileOk(x) /\ x.ref \in Nat
      /\ ofile' = [ofile EXCEPT ![p][fd] = h] /\ file' = [file EXCEPT ![k] = x]
      /\ \A g \in 1 .. NFILE : g # k => (ofile[p][fd] = g <=> h = g)
      /\ x.ref + Bit(ofile[p][fd] = k) = file[k].ref + Bit(h = k)
  BY DEF FileMove
<1>1. file = [g \in 1 .. NFILE |-> file[g]] /\ \A g \in 1 .. NFILE : FileOk(file[g]) /\ file[g].ref \in Nat BY DEF Shapes
<1>2. file' = [g \in 1 .. NFILE |-> file'[g]] /\ \A g \in 1 .. NFILE : file'[g] = IF g = k THEN x ELSE file[g] BY <1>0, <1>1
<1>3. \A g \in 1 .. NFILE : FileOk(file'[g]) /\ file'[g].ref \in Nat BY <1>0, <1>1, <1>2
<1>4. ASSUME NEW g \in 1 .. NFILE PROVE file'[g].ref = Cardinality(Pairs(Rows(g)'))
  <2>1. /\ Cardinality(Slots(p, g)) \in Nat /\ Cardinality(Slots(p, g)') \in Nat
        /\ Cardinality(Slots(p, g)') + Bit(ofile[p][fd] = g) = Cardinality(Slots(p, g)) + Bit(h = g)
        /\ \A q \in Procs \ {p} : ofile'[q] = ofile[q]
    BY <1>0, SlotsStep
  <2>2. file[g].ref \in Nat /\ file'[g].ref \in Nat BY <1>1, <1>3
  <2>3. file'[g].ref + Bit(ofile[p][fd] = g) = file[g].ref + Bit(h = g)
    <3>1. CASE g = k BY <1>0, <1>2, <3>1
    <3>2. CASE g # k BY <1>0, <1>2, <3>2 DEF Bit
    <3> QED BY <3>1, <3>2
  <2>4. Bit(ofile[p][fd] = g) \in Nat /\ Bit(h = g) \in Nat BY DEF Bit
  <2>5. file'[g].ref + Cardinality(Slots(p, g)) = file[g].ref + Cardinality(Slots(p, g)') BY <2>1, <2>2, <2>3, <2>4
  <2> QED BY <1>0, <2>1, <2>2, <2>5, RowsStep
<1>5. ofile' = [q \in Procs |-> ofile'[q]]
      /\ \A q \in Procs : ofile'[q] = [y \in Fds |-> ofile'[q][y]] /\ \A y \in Fds : ofile'[q][y] \in 0 .. NFILE
  <2>1. /\ ofile = [q \in Procs |-> ofile[q]]
        /\ \A q \in Procs : ofile[q] = [y \in Fds |-> ofile[q][y]] /\ \A y \in Fds : ofile[q][y] \in 0 .. NFILE
    BY DEF Shapes
  <2>2. ofile' = [q \in Procs |-> ofile'[q]] /\ \A q \in Procs : ofile'[q] = IF q = p THEN [ofile[p] EXCEPT ![fd] = h] ELSE ofile[q]
    BY <1>0, <2>1
  <2>3. PICK v : v = [ofile[p] EXCEPT ![fd] = h] OBVIOUS
  <2>4. v = [y \in Fds |-> v[y]] /\ \A y \in Fds : v[y] = IF y = fd THEN h ELSE ofile[p][y] BY <1>0, <2>1, <2>3
  <2> QED BY <1>0, <2>1, <2>2, <2>3, <2>4
<1> QED BY <1>2, <1>3, <1>4, <1>5 DEF FileInv, FilesOk

-----------------------------------------------------------------------------
(* fork()                                                                  *)

(* What fork() does to files: those of p have more descriptors.            *)
LEMMA ForkFiles ==
  ASSUME CountInv, NEW p \in Procs, NEW q \in Procs, Fork(p, q)
  PROVE  /\ p # q /\ todo[q] = <<>> /\ FileInv'
         /\ file' = [g \in 1 .. NFILE |-> file'[g]] /\ \A g \in 1 .. NFILE : FileOk(file'[g]) /\ file'[g].ref \in Nat
         /\ ofile' = [r \in Procs |-> ofile'[r]]
         /\ \A r \in Procs : ofile'[r] = [y \in Fds |-> ofile'[r][y]] /\ \A y \in Fds : ofile'[r][y] \in 0 .. NFILE
         /\ \A i : OpenAt(i)' = OpenAt(i)
<1>0. Shapes /\ FileInv /\ CallOk(q) BY DEF CountInv
<1>1. p # q /\ todo[q] = <<>> /\ OpenSet(q) = {} BY <1>0 DEF Fork, CallOk
<1>2. ofile' = [ofile EXCEPT ![q] = ofile[p]]
      /\ file' = [g \in 1 .. NFILE |-> [file[g] EXCEPT !.ref = @ + Cardinality(Slots(p, g))]]
  BY DEF Fork, Slots
<1>3. \A g \in 1 .. NFILE : FileOk(file[g]) /\ file[g].ref \in Nat BY <1>0 DEF Shapes
<1>4. \A g \in 1 .. NFILE : Cardinality(Slots(p, g)) \in Nat BY SlotsFinite
<1>5. ASSUME NEW g \in 1 .. NFILE
      PROVE  /\ FileOk(file'[g]) /\ file'[g].ref = file[g].ref + Cardinality(Slots(p, g)) /\ file'[g].ip = file[g].ip
             /\ file'[g].ref \in Nat
  <2>1. PICK c : c = Cardinality(Slots(p, g)) OBVIOUS
  <2>2. file'[g] = [file[g] EXCEPT !.ref = file[g].ref + c] BY <1>2, <2>1
  <2>3. PICK x : x = file[g] OBVIOUS
  <2>4. FileOk(x) /\ x.ref \in Nat /\ c \in Nat BY <1>3, <1>4, <2>1, <2>3
  <2>5. PICK y : y = [x EXCEPT !.ref = x.ref + c] OBVIOUS
  <2>6. FileOk(y) /\ y.ref = x.ref + c /\ y.ip = x.ip BY <2>4, <2>5 DEF FileOk
  <2>7. y.ref \in Nat BY <2>4, <2>6
  <2>8. file'[g] = y BY <2>2, <2>3, <2>5
  <2> QED BY <2>1, <2>3, <2>6, <2>7, <2>8
<1>6. /\ ofile = [r \in Procs |-> ofile[r]]
      /\ \A r \in Procs : ofile[r] = [y \in Fds |-> ofile[r][y]] /\ \A y \in Fds : ofile[r][y] \in 0 .. NFILE
  BY <1>0 DEF Shapes
<1>7. ofile' = [r \in Procs |-> ofile'[r]] /\ \A r \in Procs : ofile'[r] = IF r = q THEN ofile[p] ELSE ofile[r]
  BY <1>2, <1>6
<1>8. \A r \in Procs : ofile'[r] = [y \in Fds |-> ofile'[r][y]] /\ \A y \in Fds : ofile'[r][y] \in 0 .. NFILE
  BY <1>6, <1>7
<1>9. ASSUME NEW g \in 1 .. NFILE PROVE file'[g].ref = Cardinality(Pairs(Rows(g)'))
  <2>1. Cardinality(Slots(q, g)) = 0
    <3>1. g # None BY DEF None
    <3>2. Slots(q, g) = {} BY <1>1, <3>1 DEF Slots, OpenSet
    <3> QED BY <3>2, FS_EmptySet
  <2>2. Slots(q, g)' = Slots(p, g) BY <1>7 DEF Slots
  <2>3. \A r \in Procs \ {q} : ofile'[r] = ofile[r] BY <1>7
  <2>4. file[g].ref \in Nat /\ file'[g].ref \in Nat BY <1>3, <1>5
  <2>5. Cardinality(Slots(p, g)) \in Nat /\ file'[g].ref = file[g].ref + Cardinality(Slots(p, g)) BY <1>4, <1>5
  <2>6. file'[g].ref + Cardinality(Slots(q, g)) = file[g].ref + Cardinality(Slots(q, g)') BY <2>1, <2>2, <2>4, <2>5
  <2> QED BY <1>0, <2>3, <2>4, <2>6, RowsStep
<1>10. ASSUME NEW i PROVE OpenAt(i)' = OpenAt(i)
  <2>1. ASSUME NEW g \in 1 .. NFILE PROVE file'[g].ref > 0 <=> file[g].ref > 0
    <3>1. CASE Slots(p, g) = {}
      <4>1. Cardinality(Slots(p, g)) = 0 BY <3>1, FS_EmptySet
      <4>2. file'[g].ref = file[g].ref BY <1>3, <1>5, <4>1
      <4> QED BY <4>2
    <3>2. CASE Slots(p, g) # {}
      <4>1. PICK fd \in Fds : ofile[p][fd] = g BY <3>2 DEF Slots
      <4>2. ofile[p][fd] # None BY <4>1 DEF None
      <4>3. file[ofile[p][fd]].ref > 0 BY <1>0, <4>2, Referenced
      <4>4. file[g].ref > 0 BY <4>1, <4>3
      <4> QED BY <1>3, <1>4, <1>5, <4>4
    <3> QED BY <3>1, <3>2
  <2>2. \A g \in 1 .. NFILE : file'[g].ip = file[g].ip BY <1>5
  <2> QED BY <2>1, <2>2 DEF OpenAt
<1>11. file' = [g \in 1 .. NFILE |-> file'[g]]
  <2>1. PICK F : F = [g \in 1 .. NFILE |-> [file[g] EXCEPT !.ref = @ + Cardinality(Slots(p, g))]] OBVIOUS
  <2>2. F = [g \in 1 .. NFILE |-> F[g]] BY <2>1
  <2> QED BY <1>2, <2>1, <2>2
<1> QED BY <1>1, <1>5, <1>7, <1>8, <1>9, <1>10, <1>11 DEF FileInv

(* The child takes a reference to the directory.                           *)
LEMMA ForkBalance ==
  ASSUME CountInv, NEW p \in Procs, NEW q \in Procs, Fork(p, q), NEW i \in Inums
  PROVE  Balanced(q, i) /\ OwnLock(q, i) /\ Frame(q)
<1>0. OpInv /\ CacheInv /\ RefInv /\ LockInv /\ Shapes BY DEF CountInv
<1>1. PICK c : c = cwd[p] OBVIOUS
<1>2. cwd[q] = None /\ cwd' = [cwd EXCEPT ![q] = c] /\ inode' = IgetIn(inode, c) /\ UNCHANGED <<todo, reg>>
  BY <1>1 DEF Fork
<1>3. Effect(c, None, None) BY <1>0, <1>2, IgetEffect
<1>4. todo[q] = <<>> /\ OpenAt(i)' = OpenAt(i) BY ForkFiles
<1>5. cwd'[q] = c /\ \A r \in Procs \ {q} : cwd'[r] = cwd[r] BY <1>0, <1>2 DEF Shapes
<1>6. Frame(q) BY <1>2, <1>5 DEF Frame
<1>7. Weighs(todo'[q], "user", "user", i, 0, 0) BY <1>2, <1>4, EmptyList, DueNone DEF Weighs
<1>8. MyRefs(q, i)' = Bit(cwd'[q] = i)
  BY <1>7 DEF MyRefs, Refs, Weighs, VarRefs, Bit, UsesIp, UsesDp
<1>9. MyRefs(q, i) = Bit(cwd[q] = i) BY <1>4, IdleRefs
<1>10. MyRefs(q, i)' = MyRefs(q, i) + Bit(c = i) BY <1>2, <1>5, <1>8, <1>9, NoInode0 DEF Bit
<1>11. MyLocks(q, i)' = MyLocks(q, i) BY <1>2 DEF MyLocks
<1> QED BY <1>0, <1>3, <1>4, <1>6, <1>10, <1>11, Keeps

-----------------------------------------------------------------------------
(* Every step keeps the invariant.                                         *)

(* Every step of a call accounts for the references and locks it has.      *)
LEMMA StepBalance ==
  ASSUME CountInv, NEW p \in Procs, Step(p), NEW i \in Inums PROVE Balanced(p, i) /\ OwnLock(p, i)
<1>1. CASE Iput(p) BY <1>1, IputBalance
<1>2. CASE Ifree(p) BY <1>2, IfreeBalance
<1>3. CASE Deref(p) BY <1>3, DerefBalance
<1>4. CASE Iunlock(p) BY <1>4, IunlockBalance
<1>5. CASE BeginOp(p) BY <1>5, BeginOpBalance
<1>6. CASE EndOp(p) BY <1>6, EndOpBalance
<1>7. CASE Namex(p) BY <1>7, NamexBalance
<1>8. CASE Walk(p) BY <1>8, WalkBalance
<1>9. CASE \E l \in {"link1", "unlink1", "mkdir", "open1", "open2", "chdir1"} : NoInode(p, l)
  BY <1>9, NoInodeBalance
<1>10. CASE Link1(p) BY <1>10, Link1Balance
<1>11. CASE Link2(p) BY <1>11, Link2Balance
<1>12. CASE LinkNoDir(p) \/ LinkBad(p) BY <1>12, LinkBadBalance
<1>13. CASE Unlink1(p) BY <1>13, Unlink1Balance
<1>14. CASE Unlink2(p) BY <1>14, Unlink2Balance
<1>15. CASE Unlink3(p) BY <1>15, Unlink3Balance
<1>16. CASE Create1(p) BY <1>16, Create1Balance
<1>17. CASE CreateNoDir(p) BY <1>17, CreateNoDirBalance
<1>18. CASE CreateExists(p) BY <1>18, CreateExistsBalance
<1>19. CASE ialloc(p) BY <1>19, IallocBalance
<1>20. CASE CreateNew(p) BY <1>20, CreateNewBalance
<1>21. CASE Mkdir(p) BY <1>21, MkdirBalance
<1>22. CASE Open1(p) BY <1>22, Open1Balance
<1>23. CASE Open2(p) BY <1>23, Open2Balance
<1>24. CASE Chdir1(p) BY <1>24, Chdir1Balance
<1>25. CASE Chdir2(p) \/ Dead(p) BY <1>25, CwdBalance
<1>26. CASE BadFd(p) \/ Dup(p) \/ Fstat(p) \/ Write(p) BY <1>26, FdBalance
<1>27. CASE Fileclose(p) BY <1>27, FilecloseBalance
<1>28. CASE Read(p) BY <1>28, ReadBalance
<1>29. CASE Writei(p) BY <1>29, WriteiBalance
<1> QED BY <1>1, <1>2, <1>3, <1>4, <1>5, <1>6, <1>7, <1>8, <1>9, <1>10, <1>11, <1>12, <1>13, <1>14, <1>15, <1>16,
           <1>17, <1>18, <1>19, <1>20, <1>21, <1>22, <1>23, <1>24, <1>25, <1>26, <1>27, <1>28, <1>29 DEF Step

(* The registers of a call with other values.                              *)
LEMMA RegEdits ==
  ASSUME NEW r, RegOk(r), NEW a, NEW b
  PROVE  /\ RegOk([r EXCEPT !.ip = a]) /\ RegOk([r EXCEPT !.dp = a]) /\ RegOk([r EXCEPT !.old = a])
         /\ RegOk([r EXCEPT !.ip = a, !.elems = b]) /\ RegOk([r EXCEPT !.name = a, !.elems = b])
         /\ RegOk([r EXCEPT !.dp = a, !.ip = b])
<1>1. RegOk([r EXCEPT !.ip = a]) BY DEF RegOk
<1>2. RegOk([r EXCEPT !.dp = a]) BY DEF RegOk
<1>3. RegOk([r EXCEPT !.old = a]) BY DEF RegOk
<1>0. PICK c, x, d, o, e, n : r = [call |-> c, ip |-> x, dp |-> d, old |-> o, elems |-> e, name |-> n] BY DEF RegOk
<1>4. RegOk([r EXCEPT !.ip = a, !.elems = b])
  <2>1. PICK y : y = [r EXCEPT !.ip = a, !.elems = b] OBVIOUS
  <2>2. y = [call |-> c, ip |-> a, dp |-> d, old |-> o, elems |-> b, name |-> n] BY <1>0, <2>1, Zenon
  <2>3. RegOk(y) BY <2>2 DEF RegOk
  <2> QED BY <2>1, <2>3
<1>5. RegOk([r EXCEPT !.name = a, !.elems = b])
  <2>1. PICK y : y = [r EXCEPT !.name = a, !.elems = b] OBVIOUS
  <2>2. y = [call |-> c, ip |-> x, dp |-> d, old |-> o, elems |-> b, name |-> a] BY <1>0, <2>1, Zenon
  <2>3. RegOk(y) BY <2>2 DEF RegOk
  <2> QED BY <2>1, <2>3
<1>6. RegOk([r EXCEPT !.dp = a, !.ip = b])
  <2>1. PICK y : y = [r EXCEPT !.dp = a, !.ip = b] OBVIOUS
  <2>2. y = [call |-> c, ip |-> b, dp |-> a, old |-> o, elems |-> e, name |-> n] BY <1>0, <2>1, Zenon
  <2>3. RegOk(y) BY <2>2 DEF RegOk
  <2> QED BY <2>1, <2>3
<1> QED BY <1>1, <1>2, <1>3, <1>4, <1>5, <1>6

(* Those of a process outside a call, and at its beginning.                *)
LEMMA RegNone == RegOk(NoReg) /\ \A c : RegOk([NoReg EXCEPT !.call = c])
<1>1. RegOk(NoReg) BY DEF NoReg, RegOk
<1>2. ASSUME NEW c PROVE RegOk([NoReg EXCEPT !.call = c])
  <2>1. PICK r : r = [NoReg EXCEPT !.call = c] OBVIOUS
  <2>2. r = [call |-> c, ip |-> None, dp |-> None, old |-> None, elems |-> <<>>, name |-> ""] BY <2>1, Zenon DEF NoReg
  <2>3. RegOk(r) BY <2>2 DEF RegOk
  <2> QED BY <2>1, <2>3
<1> QED BY <1>1, <1>2

(* A step changes the registers of its process only.                       *)
LEMMA StepRegs ==
  ASSUME Shapes, NEW p \in Procs, Step(p)
  PROVE  UNCHANGED reg \/ \E r : RegOk(r) /\ Set(p, r)
<1>1. RegOk(reg[p]) /\ RegOk(NoReg) BY RegNone DEF Shapes
<1>2. PICK r0 : r0 = reg[p] OBVIOUS
<1>3. RegOk(r0) BY <1>1, <1>2
<1>4. \A a, b : /\ RegOk([r0 EXCEPT !.ip = a]) /\ RegOk([r0 EXCEPT !.dp = a]) /\ RegOk([r0 EXCEPT !.old = a])
                /\ RegOk([r0 EXCEPT !.ip = a, !.elems = b]) /\ RegOk([r0 EXCEPT !.name = a, !.elems = b])
                /\ RegOk([r0 EXCEPT !.dp = a, !.ip = b])
  BY <1>3, RegEdits
<1>5. CASE Iput(p) \/ Ifree(p) \/ Deref(p) \/ Iunlock(p) \/ BeginOp(p) \/ EndOp(p)
  BY <1>1, <1>5 DEF Iput, Ifree, Deref, Iunlock, BeginOp, EndOp, Return
<1>6. CASE Namex(p)
  <2>1. \/ \E a, b : Set(p, [r0 EXCEPT !.ip = a, !.elems = b])
        \/ \E a : Set(p, [r0 EXCEPT !.ip = a])
    BY <1>2, <1>6 DEF Namex
  <2> QED BY <1>4, <2>1
<1>7. CASE Walk(p)
  <2>1. \/ \E a, b : Set(p, [r0 EXCEPT !.ip = a, !.elems = b])
        \/ \E a, b : Set(p, [r0 EXCEPT !.name = a, !.elems = b])
    BY <1>2, <1>7 DEF Walk
  <2> QED BY <1>4, <2>1
<1>8. CASE (\E l \in {"link1", "unlink1", "mkdir", "open1", "open2", "chdir1"} : NoInode(p, l))
           \/ Link2(p) \/ LinkNoDir(p) \/ LinkBad(p) \/ Unlink2(p) \/ Unlink3(p)
           \/ CreateNoDir(p) \/ CreateNew(p) \/ Mkdir(p) \/ Open1(p) \/ Chdir1(p)
  BY <1>8 DEF NoInode, Link2, LinkNoDir, LinkBad, Unlink2, Unlink3, CreateNoDir, CreateNew, Mkdir, Open1, Chdir1
<1>9. CASE Link1(p)
  <2>1. UNCHANGED reg \/ \E a : Set(p, [r0 EXCEPT !.old = a]) BY <1>2, <1>9 DEF Link1
  <2> QED BY <1>4, <2>1
<1>10. CASE Unlink1(p)
  <2>1. UNCHANGED reg \/ \E a, b : Set(p, [r0 EXCEPT !.dp = a, !.ip = b]) BY <1>2, <1>10 DEF Unlink1
  <2> QED BY <1>4, <2>1
<1>11. CASE Create1(p)
  <2>1. (\E a : Set(p, [r0 EXCEPT !.ip = a])) \/ \E a : Set(p, [r0 EXCEPT !.dp = a]) BY <1>2, <1>11 DEF Create1
  <2> QED BY <1>4, <2>1
<1>12. CASE CreateExists(p) \/ ialloc(p)
  <2>1. UNCHANGED reg \/ \E a : Set(p, [r0 EXCEPT !.ip = a]) BY <1>2, <1>12 DEF CreateExists, ialloc
  <2> QED BY <1>4, <2>1
<1>13. CASE Open2(p) \/ Chdir2(p) \/ Dead(p)
  <2>1. UNCHANGED reg \/ \E x, y : Return(p, x, y) BY <1>13 DEF Open2, Chdir2, Dead
  <2> QED BY <1>1, <2>1 DEF Return
<1>14. CASE BadFd(p) \/ Fileclose(p) \/ Dup(p) \/ Read(p) \/ Fstat(p) \/ Write(p) \/ Writei(p)
  <2>1. UNCHANGED reg \/ \E x, y : Return(p, x, y) BY <1>14 DEF BadFd, Fileclose, Dup, Read, Fstat, Write, Writei
  <2> QED BY <1>1, <2>1 DEF Return
<1> QED BY <1>5, <1>6, <1>7, <1>8, <1>9, <1>10, <1>11, <1>12, <1>13, <1>14 DEF Step

-----------------------------------------------------------------------------
(* The tables of open files.                                               *)

(* References to files, and the files, that a step leaves.                 *)
LEMMA FilesSame == ASSUME FilesOk, UNCHANGED <<file, ofile>> PROVE FilesOk'
<1>1. FileInv' BY DEF FilesOk, FileInv, Pairs, Rows, Slots
<1> QED BY <1>1 DEF FilesOk

(* The offset of a file changes.                                           *)
LEMMA OffsetStep == ASSUME FilesOk, NEW g, NEW y, file' = [file EXCEPT ![g].off = y], UNCHANGED ofile PROVE FilesOk'
<1>1. file = [k \in 1 .. NFILE |-> file[k]] /\ \A k \in 1 .. NFILE : FileOk(file[k]) /\ file[k].ref \in Nat BY DEF FilesOk
<1>2. file' = [k \in 1 .. NFILE |-> file'[k]]
      /\ \A k \in 1 .. NFILE : file'[k] = IF k = g THEN [file[k] EXCEPT !.off = y] ELSE file[k]
  BY <1>1
<1>3. ASSUME NEW k \in 1 .. NFILE PROVE FileOk(file'[k]) /\ file'[k].ref = file[k].ref
  <2>1. CASE k = g
    <3>1. PICK x, z : x = file[k] /\ z = [x EXCEPT !.off = y] OBVIOUS
    <3>2. FileOk(z) /\ z.ref = x.ref BY <1>1, <3>1 DEF FileOk
    <3> QED BY <1>2, <2>1, <3>1, <3>2
  <2>2. CASE k # g BY <1>1, <1>2, <2>2
  <2> QED BY <2>1, <2>2
<1>4. FileInv'
  <2>1. \A k : Rows(k)' = Rows(k) BY DEF Rows, Slots
  <2>2. \A k \in 1 .. NFILE : file[k].ref = Cardinality(Pairs(Rows(k))) BY DEF FilesOk, FileInv
  <2>3. \A k \in 1 .. NFILE : file'[k].ref = Cardinality(Pairs(Rows(k)')) BY <1>3, <2>1, <2>2
  <2>4. \A k : Pairs(Rows(k))' = Pairs(Rows(k)') BY DEF Pairs
  <2> QED BY <2>3, <2>4 DEF FileInv
<1>5. \A k \in 1 .. NFILE : FileOk(file'[k]) /\ file'[k].ref \in Nat BY <1>1, <1>3
<1> QED BY <1>2, <1>4, <1>5 DEF FilesOk

(* The first free descriptor and the first free file.                      *)
LEMMA FirstFree ==
  ASSUME NEW p
  PROVE  /\ FreeFds(p) # {} => Min(FreeFds(p)) \in Fds /\ ofile[p][Min(FreeFds(p))] = None
         /\ FreeFiles # {} => Min(FreeFiles) \in 1 .. NFILE /\ file[Min(FreeFiles)].ref = 0
<1>1. FreeFds(p) \subseteq Nat /\ FreeFiles \subseteq Nat BY FilesAssumption DEF FreeFds, FreeFiles, Fds
<1>2. FreeFds(p) # {} => Min(FreeFds(p)) \in FreeFds(p) BY <1>1, LeastNat
<1>3. FreeFiles # {} => Min(FreeFiles) \in FreeFiles BY <1>1, LeastNat
<1> QED BY <1>2, <1>3 DEF FreeFds, FreeFiles

(* sys_open() makes a file.                                                *)
LEMMA Open2Files ==
  ASSUME CountInv, NEW p \in Procs, Open2(p)
  PROVE  FilesOk' /\ \A q \in Procs \ {p} : ofile'[q] = ofile[q]
<1>0. Shapes /\ FileInv BY DEF CountInv
<1>1. FilesOk BY <1>0 DEF Shapes, FilesOk
<1>2. CASE FreeFiles = {} \/ FreeFds(p) = {}
  <2>1. UNCHANGED <<file, ofile>> BY <1>2 DEF Open2
  <2> QED BY <1>1, <2>1, FilesSame
<1>3. CASE FreeFiles # {} /\ FreeFds(p) # {}
  <2>1. PICK k, fd : k = Min(FreeFiles) /\ fd = Min(FreeFds(p)) OBVIOUS
  <2>2. fd \in Fds /\ ofile[p][fd] = None /\ k \in 1 .. NFILE /\ file[k].ref = 0 BY <1>3, <2>1, FirstFree
  <2>3. PICK x : x = [ref |-> 1, ip |-> reg[p].ip, off |-> 0, readable |-> reg[p].call.mode # O_WRONLY,
                      writable |-> reg[p].call.mode \in {O_WRONLY, O_RDWR}]
    OBVIOUS
  <2>4. ofile' = [ofile EXCEPT ![p][fd] = k] /\ file' = [file EXCEPT ![k] = x] BY <1>3, <2>1, <2>3 DEF Open2
  <2>5. FileOk(x) /\ x.ref = 1 BY <2>3 DEF FileOk
  <2>6. k \in 0 .. NFILE /\ k # None BY <2>2 DEF None
  <2>7. \A g \in 1 .. NFILE : g # k => (ofile[p][fd] = g <=> k = g) BY <2>2 DEF None
  <2>8. x.ref \in Nat /\ x.ref + Bit(ofile[p][fd] = k) = file[k].ref + Bit(k = k)
    <3>1. Bit(ofile[p][fd] = k) = 0 /\ Bit(k = k) = 1 BY <2>2, <2>6 DEF Bit
    <3> QED BY <2>2, <2>5, <3>1
  <2>9. FilesOk'
    <3>1. FileMove(p, fd, k, k, x) BY <2>2, <2>5, <2>4, <2>6, <2>7, <2>8 DEF FileMove
    <3> QED BY <1>0, <3>1, FilesStep
  <2>10. \A q \in Procs \ {p} : ofile'[q] = ofile[q] BY <1>0, <2>4 DEF Shapes
  <2> QED BY <2>9, <2>10
<1> QED BY <1>2, <1>3

(* dup() gives a file one more descriptor.                                 *)
LEMMA DupFiles ==
  ASSUME CountInv, NEW p \in Procs, Dup(p)
  PROVE  FilesOk' /\ \A q \in Procs \ {p} : ofile'[q] = ofile[q]
<1>0. Shapes /\ FileInv BY DEF CountInv
<1>1. FilesOk BY <1>0 DEF Shapes, FilesOk
<1>2. CASE FreeFds(p) = {}
  <2>1. UNCHANGED <<file, ofile>> BY <1>2 DEF Dup
  <2> QED BY <1>1, <2>1, FilesSame
<1>3. CASE FreeFds(p) # {}
  <2>1. PICK k, fd : k = argfd(p, Arg(p)) /\ fd = Min(FreeFds(p)) OBVIOUS
  <2>2. fd \in Fds /\ ofile[p][fd] = None BY <1>3, <2>1, FirstFree
  <2>3. k # None /\ Arg(p) \in Fds /\ k = ofile[p][Arg(p)] BY <2>1 DEF Dup, argfd
  <2>4. k \in 1 .. NFILE /\ file[k].ref \in Nat /\ FileOk(file[k])
    <3>1. k \in 1 .. NFILE BY <1>0, <2>3, Referenced
    <3> QED BY <1>0, <3>1 DEF Shapes
  <2>5. PICK n, x : n = file[k] /\ x = [n EXCEPT !.ref = n.ref + 1] OBVIOUS
  <2>6. ofile' = [ofile EXCEPT ![p][fd] = k] /\ file' = [file EXCEPT ![k] = x] BY <1>3, <2>1, <2>5 DEF Dup
  <2>7. FileOk(x) /\ x.ref = n.ref + 1 BY <2>4, <2>5 DEF FileOk
  <2>8. k \in 0 .. NFILE BY <2>4
  <2>9. \A g \in 1 .. NFILE : g # k => (ofile[p][fd] = g <=> k = g) BY <2>2 DEF None
  <2>10. x.ref \in Nat /\ x.ref + Bit(ofile[p][fd] = k) = file[k].ref + Bit(k = k)
    <3>1. Bit(ofile[p][fd] = k) = 0 /\ Bit(k = k) = 1 BY <2>2, <2>3 DEF Bit
    <3> QED BY <2>4, <2>5, <2>7, <3>1
  <2>11. FilesOk'
    <3>1. FileMove(p, fd, k, k, x) BY <2>2, <2>4, <2>7, <2>6, <2>8, <2>9, <2>10 DEF FileMove
    <3> QED BY <1>0, <3>1, FilesStep
  <2>12. \A q \in Procs \ {p} : ofile'[q] = ofile[q] BY <1>0, <2>6 DEF Shapes
  <2> QED BY <2>11, <2>12
<1> QED BY <1>2, <1>3

(* fileclose() takes one from it.                                          *)
LEMMA CloseFiles ==
  ASSUME CountInv, NEW p \in Procs, Fileclose(p)
  PROVE  FilesOk' /\ \A q \in Procs \ {p} : ofile'[q] = ofile[q]
<1>0. Shapes /\ FileInv BY DEF CountInv
<1>1. PICK k, fd : k = argfd(p, Arg(p)) /\ fd = Arg(p) OBVIOUS
<1>2. k # None /\ fd \in Fds /\ k = ofile[p][fd] BY <1>1 DEF Fileclose, argfd
<1>3. k \in 1 .. NFILE /\ file[k].ref \in Nat /\ file[k].ref > 0 /\ FileOk(file[k])
  <2>1. k \in 1 .. NFILE /\ file[k].ref > 0 BY <1>0, <1>2, Referenced
  <2> QED BY <1>0, <2>1 DEF Shapes
<1>4. PICK n, h : n = file[k] /\ h = None OBVIOUS
<1>5. PICK x : x = IF n.ref > 1 THEN [n EXCEPT !.ref = n.ref - 1] ELSE FreeFile OBVIOUS
<1>6. ofile' = [ofile EXCEPT ![p][fd] = h] /\ file' = [file EXCEPT ![k] = x]
  <2>1. CASE n.ref > 1 BY <1>1, <1>4, <1>5, <2>1 DEF Fileclose
  <2>2. CASE ~(n.ref > 1) BY <1>1, <1>4, <1>5, <2>2 DEF Fileclose
  <2> QED BY <2>1, <2>2
<1>7. FileOk(x) /\ x.ref = n.ref - 1
  <2>1. CASE n.ref > 1 BY <1>3, <1>4, <1>5, <2>1 DEF FileOk
  <2>2. CASE ~(n.ref > 1)
    <3>1. x = FreeFile /\ n.ref = 1 BY <1>3, <1>4, <1>5, <2>2
    <3>2. FileOk(x) /\ x.ref = 0 BY <3>1 DEF FreeFile, FileOk
    <3> QED BY <3>1, <3>2
  <2> QED BY <2>1, <2>2
<1>8. h \in 0 .. NFILE /\ h # k BY <1>2, <1>4, FilesAssumption DEF None
<1>9. \A g \in 1 .. NFILE : g # k => (ofile[p][fd] = g <=> h = g) BY <1>2, <1>4 DEF None
<1>10. x.ref \in Nat /\ x.ref + Bit(ofile[p][fd] = k) = file[k].ref + Bit(h = k)
  <2>1. Bit(ofile[p][fd] = k) = 1 /\ Bit(h = k) = 0 BY <1>2, <1>8 DEF Bit
  <2> QED BY <1>3, <1>4, <1>7, <2>1
<1>11. FilesOk'
  <2>1. FileMove(p, fd, h, k, x) BY <1>2, <1>3, <1>7, <1>6, <1>8, <1>9, <1>10 DEF FileMove
  <2> QED BY <1>0, <2>1, FilesStep
<1>12. \A q \in Procs \ {p} : ofile'[q] = ofile[q] BY <1>0, <1>6 DEF Shapes
<1> QED BY <1>11, <1>12

(* A step of p leaves the tables in order, and those of the others alone.  *)
LEMMA StepFiles ==
  ASSUME CountInv, NEW p \in Procs, Step(p)
  PROVE  FilesOk' /\ \A q \in Procs \ {p} : ofile'[q] = ofile[q]
<1>1. FilesOk BY DEF CountInv, Shapes, FilesOk
<1>2. CASE UNCHANGED <<file, ofile>> BY <1>1, <1>2, FilesSame
<1>3. CASE Iput(p) \/ Ifree(p) \/ Deref(p) \/ Iunlock(p) \/ BeginOp(p) \/ EndOp(p)
  BY <1>2, <1>3 DEF Iput, Ifree, Deref, Iunlock, BeginOp, EndOp, pvars
<1>4. CASE Namex(p) \/ Walk(p) \/ \E l \in {"link1", "unlink1", "mkdir", "open1", "open2", "chdir1"} : NoInode(p, l)
  BY <1>2, <1>4 DEF Namex, Walk, NoInode, pvars
<1>5. CASE Link1(p) \/ Link2(p) \/ LinkNoDir(p) \/ LinkBad(p) \/ Unlink1(p) \/ Unlink2(p) \/ Unlink3(p)
  BY <1>2, <1>5 DEF Link1, Link2, LinkNoDir, LinkBad, Unlink1, Unlink2, Unlink3, pvars
<1>6. CASE Create1(p) \/ CreateNoDir(p) \/ CreateExists(p) \/ ialloc(p) \/ CreateNew(p) \/ Mkdir(p)
  BY <1>2, <1>6 DEF Create1, CreateNoDir, CreateExists, ialloc, CreateNew, Mkdir, pvars
<1>7. CASE Open1(p) \/ Chdir1(p) \/ Chdir2(p) \/ Dead(p) \/ BadFd(p) \/ Fstat(p) \/ Write(p)
  BY <1>2, <1>7 DEF Open1, Chdir1, Chdir2, Dead, BadFd, Fstat, Write, pvars
<1>8. CASE Open2(p) BY <1>8, Open2Files
<1>9. CASE Dup(p) BY <1>9, DupFiles
<1>10. CASE Fileclose(p) BY <1>10, CloseFiles
<1>11. CASE Read(p) \/ Writei(p)
  <2>1. UNCHANGED ofile /\ (UNCHANGED file \/ \E g, y : file' = [file EXCEPT ![g].off = y])
    BY <1>11 DEF Read, Writei
  <2>2. CASE UNCHANGED file BY <1>2, <2>1, <2>2
  <2>3. ASSUME NEW g, NEW y, file' = [file EXCEPT ![g].off = y] PROVE FilesOk' BY <1>1, <2>1, <2>3, OffsetStep
  <2> QED BY <2>1, <2>2, <2>3
<1> QED BY <1>3, <1>4, <1>5, <1>6, <1>7, <1>8, <1>9, <1>10, <1>11 DEF Step

-----------------------------------------------------------------------------
(* The calls.                                                              *)

(* The call returns.                                                       *)
LEMMA CallReturns ==
  ASSUME OpInv, Shapes, NEW p \in Procs, NEW r, NEW x, Return(p, r, x), cwd'[p] # None \/ OpenSet(p)' = {}
  PROVE  CallOk(p)'
<1>1. todo'[p] = <<>> /\ reg'[p].ip = None /\ reg'[p].dp = None BY ReturnIs
<1>2. End(todo'[p]) = "user" BY <1>1, EmptyList
<1> QED BY <1>1, <1>2 DEF CallOk

(* A list inside the operation of a call, neither write() nor exit().      *)
Inner(s) == IsList(s) /\ Main(s) \notin Outside /\ End(s) \notin {"dead", "writei", "chdir2"}

(* An item of the operation before it.                                     *)
LEMMA InnerPush ==
  ASSUME NEW x, NEW s, Inner(s), x[1] \notin Outside, NEW w, w = Push(x, s) PROVE Inner(w)
<1>1. IsList(s) /\ Main(s) \notin Outside /\ End(s) \notin {"dead", "writei", "chdir2"} BY DEF Inner
<1>2. s # <<>> BY <1>1, EmptyList DEF Outside
<1>3. IsList(w) BY <1>1, PushList
<1>4. Main(w) = IF x[1] \in Pops THEN Main(s) ELSE x[1] BY <1>1, MainPush
<1>5. End(w) = End(s) BY <1>1, <1>2, EndPush
<1> QED BY <1>1, <1>3, <1>4, <1>5 DEF Inner

(* One of the lists of the code.                                           *)
LEMMA InnerWeighs ==
  ASSUME NEW s, NEW m, NEW e, NEW i, NEW d, NEW u, Weighs(s, m, e, i, d, u), m \notin Outside,
         e \notin {"dead", "writei", "chdir2"}
  PROVE  Inner(s)
BY DEF Weighs, Inner

(* The call goes on inside its operation.                                  *)
LEMMA CallInner ==
  ASSUME NEW p \in Procs, CallOk(p), todo[p] # <<>>, cwd'[p] = cwd[p], Inner(todo'[p])
  PROVE  CallOk(p)'
BY DEF CallOk, Inner

(* What remains of the call is the same.                                   *)
SameCall(p) ==
    /\ End(todo'[p]) = End(todo[p]) /\ CloseArgs(todo'[p]) = CloseArgs(todo[p]) /\ (Once(todo[p]) => Once(todo'[p]))
    /\ Main(todo'[p]) \in Outside => Main(todo[p]) \in Outside \/ End(todo[p]) \in {"dead", "writei"}
    /\ reg'[p] = reg[p] /\ cwd'[p] = cwd[p] /\ ofile'[p] = ofile[p]

(* Such a step keeps the call in order.                                    *)
LEMMA CallSame ==
  ASSUME NEW p \in Procs, CallOk(p), todo[p] # <<>>, SameCall(p) PROVE CallOk(p)'
<1>1. OpenSet(p)' = OpenSet(p) BY DEF OpenSet, SameCall
<1> QED BY <1>1 DEF CallOk, SameCall

(* An item that only gives something back is done, or becomes another.     *)
LEMMA PopCall ==
  ASSUME CountInv, NEW p \in Procs, Step(p), Iput(p) \/ Ifree(p) \/ Deref(p) \/ Iunlock(p) PROVE CallOk(p)'
<1>0. OpInv /\ CallOk(p) BY DEF CountInv
<1>1. Label(p) \in Pops /\ Label(p) # "close" /\ todo[p] # <<>> /\ UNCHANGED <<reg, cwd, ofile>>
  BY Labelled DEF Iput, Ifree, Deref, Iunlock, pvars, Pops
<1>2. PICK t, y : t = Tail(todo[p]) /\ y = todo[p][1] OBVIOUS
<1>3. todo[p] = Push(y, t) /\ IsList(t) /\ y[1] = Label(p) BY <1>0, <1>1, <1>2, Popped DEF Good
<1>4. t # <<>> BY <1>0, <1>1, <1>2, PopItem
<1>5. Main(todo[p]) = Main(t) /\ End(todo[p]) = End(t) BY <1>1, <1>3, <1>4, MainPush, EndPush
<1>6. CloseArgs(todo[p]) = CloseArgs(t) /\ (Once(todo[p]) <=> Once(t)) BY <1>1, <1>3, ClosePush
<1>7. todo'[p] = t \/ \E x : x[1] \in Pops /\ x[1] # "close" /\ todo'[p] = Push(x, t)
  <2>1. Then(p, <<>>) \/ \E i : Then(p, << <<"ifree", i>> >>) \/ Then(p, << <<"deref", i>> >>)
    BY DEF Iput, Ifree, Deref, Iunlock
  <2>2. Then(p, <<>>) => todo'[p] = t BY <1>0, <1>1, <1>2, ThenNone
  <2>3. ASSUME NEW i, NEW l \in {"ifree", "deref"}, Then(p, << <<l, i>> >>)
        PROVE  \E x : x[1] \in Pops /\ x[1] # "close" /\ todo'[p] = Push(x, t)
    <3>1. PICK x : x = <<l, i>> OBVIOUS
    <3>2. Then(p, <<x>>) BY <2>3, <3>1
    <3>3. todo'[p] = Push(x, t) BY <1>0, <1>1, <1>2, <3>2, ThenOne
    <3>4. x[1] = l BY <3>1
    <3> QED BY <3>3, <3>4 DEF Pops
  <2> QED BY <2>1, <2>2, <2>3
<1>8. Main(todo'[p]) = Main(t) /\ End(todo'[p]) = End(t) /\ CloseArgs(todo'[p]) = CloseArgs(t) /\ (Once(t) => Once(todo'[p]))
  <2>1. CASE todo'[p] = t BY <2>1
  <2>2. ASSUME NEW x, x[1] \in Pops, x[1] # "close", todo'[p] = Push(x, t)
        PROVE  /\ Main(todo'[p]) = Main(t) /\ End(todo'[p]) = End(t)
               /\ CloseArgs(todo'[p]) = CloseArgs(t) /\ (Once(t) => Once(todo'[p]))
    BY <1>3, <1>4, <2>2, MainPush, EndPush, ClosePush
  <2> QED BY <1>7, <2>1, <2>2
<1>9. SameCall(p) BY <1>1, <1>5, <1>6, <1>8 DEF SameCall
<1> QED BY <1>0, <1>1, <1>9, CallSame

(* begin_op() and end_op()                                                 *)
LEMMA OpCall ==
  ASSUME CountInv, NEW p \in Procs, Step(p), BeginOp(p) \/ EndOp(p) PROVE CallOk(p)'
<1>0. OpInv /\ Shapes /\ CallOk(p) BY DEF CountInv
<1>1. Label(p) \in {"begin_op", "end_op"} /\ todo[p] # <<>> /\ UNCHANGED <<cwd, ofile>>
  BY Labelled DEF BeginOp, EndOp, pvars
<1>2. PICK t, y : t = Tail(todo[p]) /\ y = todo[p][1] OBVIOUS
<1>3. /\ todo[p] = Push(y, t) /\ IsList(t) /\ y[1] = Label(p) /\ Follows(Label(p), t)
      /\ Len(todo[p]) = 1 <=> t = <<>>
  BY <1>0, <1>1, <1>2, Popped DEF Good
<1>4. cwd'[p] # None BY <1>0, <1>1 DEF CallOk
<1>5. CASE t = <<>>
  <2>1. EndOp(p)
    <3>1. "begin_op" \notin MayEnd BY DEF MayEnd
    <3> QED BY <1>3, <1>5, <3>1 DEF Follows, BeginOp
  <2>2. Return(p, Arg(p), <<>>) BY <1>3, <1>5, <2>1 DEF EndOp
  <2> QED BY <1>0, <1>4, <2>2, CallReturns
<1>6. CASE t # <<>>
  <2>1. Then(p, <<>>) /\ UNCHANGED reg BY <1>3, <1>6 DEF BeginOp, EndOp
  <2>2. todo'[p] = t BY <1>0, <1>1, <1>2, <2>1, ThenNone
  <2>3. End(todo[p]) = End(t) BY <1>3, <1>6, EndPush
  <2>4. CloseArgs(todo[p]) = CloseArgs(t) /\ (Once(todo[p]) <=> Once(t)) BY <1>1, <1>3, ClosePush
  <2>5. Main(todo[p]) = Label(p)
    <3>1. Label(p) \notin Pops BY <1>1 DEF Pops
    <3> QED BY <1>3, <3>1, MainPush
  <2>6. Main(todo[p]) \in Outside \/ End(todo[p]) = "dead" BY <1>1, <1>3, <1>6, <2>3, <2>5 DEF Follows, Outside
  <2>7. SameCall(p) BY <1>1, <2>1, <2>2, <2>3, <2>4, <2>6 DEF SameCall
  <2> QED BY <1>0, <1>1, <2>7, CallSame
<1> QED BY <1>5, <1>6

(* What follows a lookup is inside the operation.                          *)
LEMMA LookInner ==
  ASSUME OpInv, NEW p \in Procs, todo[p] # <<>>, Label(p) \in Lookups PROVE Inner(Tail(todo[p]))
<1>1. PICK t : t = Tail(todo[p]) OBVIOUS
<1>2. Main(t) \in After(Label(p)) /\ End(t) \in {"link1", "open1", "chdir1", "unlink1", "link2", "open2", "mkdir"}
  BY <1>1, LookItem
<1>3. IsList(t) BY <1>1, Popped DEF Good
<1>4. Main(t) \notin Outside BY <1>2, AfterIs DEF Lookups, Outside
<1> QED BY <1>1, <1>2, <1>3, <1>4 DEF Inner

(* A path is looked up, or its last element made.                          *)
LEMMA LookCall ==
  ASSUME CountInv, NEW p \in Procs, Step(p),
         Namex(p) \/ Walk(p) \/ Create1(p) \/ CreateNoDir(p) \/ CreateExists(p) \/ ialloc(p) \/ CreateNew(p)
  PROVE  CallOk(p)'
<1>0. OpInv /\ Shapes /\ CallOk(p) BY DEF CountInv
<1>1. Label(p) \in Lookups /\ todo[p] # <<>> /\ UNCHANGED cwd
  BY Labelled DEF Namex, Walk, Create1, CreateNoDir, CreateExists, ialloc, CreateNew, Lookups, pvars
<1>2. PICK t : t = Tail(todo[p]) OBVIOUS
<1>3. Inner(t) BY <1>0, <1>1, <1>2, LookInner
<1>4. ASSUME NEW a, a[1] \notin Outside, Then(p, <<a>>) PROVE Inner(todo'[p])
  <2>1. todo'[p] = Push(a, t) BY <1>0, <1>1, <1>2, <1>4, ThenOne
  <2> QED BY <1>3, <1>4, <2>1, InnerPush
<1>5. ASSUME NEW a, NEW b, a[1] \notin Outside, b[1] \notin Outside, Then(p, <<a, b>>) PROVE Inner(todo'[p])
  <2>1. todo'[p] = Push(a, Push(b, t)) BY <1>0, <1>1, <1>2, <1>5, ThenTwo
  <2>2. Inner(Push(b, t)) BY <1>3, <1>5, InnerPush
  <2> QED BY <1>5, <2>1, <2>2, InnerPush
<1>6. Then(p, <<>>) => Inner(todo'[p]) BY <1>0, <1>1, <1>2, <1>3, ThenNone
<1>7. \A i : iput(i)[1] \notin Outside BY Labels
<1>8. ASSUME NEW l \in {"walk", "exists", "ialloc", "newinode"}, NEW y PROVE <<l, y>>[1] \notin Outside
  <2>1. <<l, y>>[1] = l OBVIOUS
  <2> QED BY <2>1 DEF Outside
<1>9. Inner(todo'[p])
  <2>1. CASE Namex(p)
    <3>1. (\E y : Then(p, << <<"walk", y>> >>)) \/ Then(p, <<>>) \/ \E i : Then(p, <<iput(i)>>) BY <2>1 DEF Namex
    <3> QED BY <1>4, <1>6, <1>7, <1>8, <3>1
  <2>2. CASE Walk(p)
    <3>1. PICK b : b = todo[p][1] OBVIOUS
    <3>2. \/ Then(p, <<>>) \/ \E i : Then(p, <<iput(i)>>) \/ Then(p, <<iput(i)>> \o <<>>) \/ Then(p, <<iput(i)>> \o <<b>>)
      BY <2>2, <3>1 DEF Walk
    <3>3. b[1] \notin Outside
      <4>1. Label(p) = "walk" BY <2>2 DEF Walk
      <4>2. b[1] = "walk" BY <1>0, <1>1, <3>1, <4>1, Popped
      <4> QED BY <4>2 DEF Outside
    <3>4. ASSUME NEW i, Then(p, <<iput(i)>> \o <<>>) PROVE Inner(todo'[p])
      <4>1. PICK a : a = iput(i) OBVIOUS
      <4>2. <<a>> \o <<>> = <<a>> BY EmptyList, ConcatOne, Literals
      <4> QED BY <1>4, <1>7, <3>4, <4>1, <4>2
    <3>5. ASSUME NEW i, Then(p, <<iput(i)>> \o <<b>>) PROVE Inner(todo'[p])
      <4>1. PICK a : a = iput(i) OBVIOUS
      <4>2. <<a>> \o <<b>> = <<a, b>> BY PairConcat
      <4>3. Then(p, <<a, b>>) /\ a[1] \notin Outside BY <1>7, <3>5, <4>1, <4>2
      <4> QED BY <1>5, <3>3, <4>3
    <3> QED BY <1>4, <1>6, <1>7, <3>2, <3>4, <3>5
  <2>3. CASE Create1(p)
    <3>1. \E y : (\E i : Then(p, <<iput(i), <<"exists", y>> >>)) \/ Then(p, << <<"ialloc", y>> >>) BY <2>3 DEF Create1
    <3> QED BY <1>4, <1>5, <1>7, <1>8, <3>1
  <2>4. CASE CreateNoDir(p) BY <1>6, <2>4 DEF CreateNoDir
  <2>5. CASE CreateExists(p)
    <3>1. Then(p, <<>>) \/ \E i : Then(p, <<iput(i)>>) BY <2>5 DEF CreateExists
    <3> QED BY <1>4, <1>6, <1>7, <3>1
  <2>6. CASE ialloc(p)
    <3>1. \E y : Then(p, << <<"newinode", y>> >>) BY <2>6 DEF ialloc
    <3> QED BY <1>4, <1>8, <3>1
  <2>7. CASE CreateNew(p)
    <3>1. \E i : Then(p, <<iput(i)>>) BY <2>7 DEF CreateNew
    <3> QED BY <1>4, <1>7, <3>1
  <2> QED BY <2>1, <2>2, <2>3, <2>4, <2>5, <2>6, <2>7
<1> QED BY <1>0, <1>1, <1>9, CallInner

(* The lists of the code that end an operation, or go on in it.            *)
LEMMA InnerLists ==
  ASSUME NEW i, NEW j, NEW r
  PROVE  /\ Inner(<<end_op(r)>>) /\ Inner(<<iput(i), end_op(r)>>) /\ Inner(<<iput(i), iput(j), end_op(r)>>)
         /\ Inner(iunlockput(i) \o <<end_op(r)>>) /\ Inner(<<iput(i)>> \o iunlockput(j) \o <<end_op(r)>>)
         /\ Inner(<<iput(i)>> \o iunlockput(j) \o <<Item("linkbad")>>)
         /\ Inner(<<Item("linkbad")>>) /\ Inner(<<Item("unlink2")>>) /\ Inner(<<Item("open2")>>)
         /\ Inner(<<iput(i), Item("unlink3")>>)
<1>1. PICK b : b = end_op(r) OBVIOUS
<1>2. b[1] = "end_op" BY <1>1, Labels
<1>3. {"end_op", "linkbad", "unlink2", "unlink3", "open2"} \cap (Outside \cup Pops \cup {"dead", "writei", "chdir2"}) = {}
  BY DEF Outside, Pops
<1>4. Inner(<<b>>)
  <2>1. PICK s : s = <<end_op(r)>> OBVIOUS
  <2>2. Weighs(s, "end_op", "end_op", i, 0, 0) BY <2>1, WeighEnd
  <2> QED BY <1>1, <1>3, <2>1, <2>2, InnerWeighs
<1>5. ASSUME NEW l \in {"linkbad", "unlink2", "unlink3", "open2"} PROVE Inner(<<Item(l)>>)
  <2>1. PICK s : s = <<Item(l)>> OBVIOUS
  <2>2. Weighs(s, l, l, i, 0, 0) BY <1>3, <2>1, WeighItem
  <2> QED BY <1>3, <2>1, <2>2, InnerWeighs
<1>6. iput(i)[1] \notin Outside /\ iput(j)[1] \notin Outside /\ iunlock(i)[1] \notin Outside /\ iunlock(j)[1] \notin Outside
  BY Labels
<1>7. ASSUME NEW a, a[1] \notin Outside, NEW s, NEW w, Inner(s), w = Push(a, s) PROVE Inner(w)
  BY <1>7, InnerPush
<1>8. ASSUME NEW a, a[1] \notin Outside, NEW c, Inner(<<c>>) PROVE Inner(<<a, c>>)
  <2>1. <<a, c>> = Push(a, <<c>>)
    <3>1. <<c>> = Push(c, <<>>) BY Literals
    <3>2. <<a, c>> = Push(a, Push(c, <<>>)) BY Literals
    <3> QED BY <3>1, <3>2
  <2> QED BY <1>7, <1>8, <2>1
<1>9. ASSUME NEW a, a[1] \notin Outside, NEW e, e[1] \notin Outside, NEW c, Inner(<<c>>) PROVE Inner(<<a, e, c>>)
  <2>1. <<a, e, c>> = Push(a, <<e, c>>)
    <3>1. <<e, c>> = Push(e, Push(c, <<>>)) BY Literals
    <3>2. <<a, e, c>> = Push(a, Push(e, Push(c, <<>>))) BY Literal3
    <3> QED BY <3>1, <3>2
  <2>2. Inner(<<e, c>>) BY <1>8, <1>9
  <2> QED BY <1>7, <1>9, <2>1, <2>2
<1>10. ASSUME NEW k, NEW c, Inner(<<c>>), iput(k)[1] \notin Outside, iunlock(k)[1] \notin Outside
       PROVE  Inner(iunlockput(k) \o <<c>>)
  <2>1. iunlockput(k) \o <<c>> = <<iunlock(k), iput(k), c>> BY ThreeConcat DEF iunlockput
  <2> QED BY <1>9, <1>10, <2>1
<1>11. ASSUME NEW c, Inner(<<c>>) PROVE Inner(<<iput(i)>> \o iunlockput(j) \o <<c>>)
  <2>1. PICK a, e, g : a = iput(i) /\ e = iunlock(j) /\ g = iput(j) OBVIOUS
  <2>2. <<a>> \o <<e, g>> \o <<c>> = <<a, e, g, c>> BY FourConcat
  <2>3. <<a, e, g, c>> = Push(a, <<e, g, c>>)
    <3>1. <<e, g, c>> = Push(e, Push(g, Push(c, <<>>))) BY Literal3
    <3>2. <<a, e, g, c>> = Push(a, Push(e, Push(g, Push(c, <<>>)))) BY Literal4
    <3> QED BY <3>1, <3>2
  <2>4. Inner(<<e, g, c>>) BY <1>6, <1>9, <1>11, <2>1
  <2>5. Inner(<<a, e, g, c>>) BY <1>6, <1>7, <2>1, <2>3, <2>4
  <2>6. iunlockput(j) = <<e, g>> BY <2>1 DEF iunlockput
  <2> QED BY <2>1, <2>2, <2>5, <2>6
<1>12. Inner(<<iput(i), iput(j), end_op(r)>>) BY <1>1, <1>4, <1>6, <1>9
<1>13. Inner(<<iput(i), end_op(r)>>) BY <1>1, <1>4, <1>6, <1>8
<1>14. Inner(<<iput(i), Item("unlink3")>>)
  <2>1. Inner(<<Item("unlink3")>>) BY <1>5
  <2> QED BY <1>6, <1>8, <2>1
<1>15. Inner(iunlockput(i) \o <<end_op(r)>>) BY <1>1, <1>4, <1>6, <1>10
<1>16. Inner(<<iput(i)>> \o iunlockput(j) \o <<end_op(r)>>) BY <1>1, <1>4, <1>11
<1>17. Inner(<<iput(i)>> \o iunlockput(j) \o <<Item("linkbad")>>) BY <1>5, <1>11
<1> QED BY <1>1, <1>4, <1>5, <1>12, <1>13, <1>14, <1>15, <1>16, <1>17

(* The lookup of the new name of link().                                   *)
LEMMA InnerLink == ASSUME NEW x, NEW s, s = << <<"nameiparent", x>>, Item("link2") >> PROVE Inner(s)
<1>1. PICK a, b : a = <<"nameiparent", x>> /\ b = Item("link2") OBVIOUS
<1>2. a[1] = "nameiparent" /\ b[1] = "link2" BY <1>1, Labels
<1>3. s = <<a, b>> /\ {a[1], b[1]} \cap Pops = {} BY <1>1, <1>2 DEF Pops
<1>4. Weighs(s, a[1], b[1], None, 0, 0) BY <1>3, WeighTwoItems
<1>5. a[1] \notin Outside /\ b[1] \notin {"dead", "writei", "chdir2"} BY <1>2 DEF Outside
<1> QED BY <1>4, <1>5, InnerWeighs

(* The rest of a call is replaced.                                         *)
LEMMA OnlyCall ==
  ASSUME CountInv, NEW p \in Procs, Step(p),
         \/ \E l \in {"link1", "unlink1", "mkdir", "open1", "open2", "chdir1"} : NoInode(p, l)
         \/ Link1(p) \/ Link2(p) \/ LinkNoDir(p) \/ LinkBad(p) \/ Unlink1(p) \/ Unlink2(p) \/ Unlink3(p)
         \/ Mkdir(p) \/ Open1(p)
  PROVE  CallOk(p)'
<1>0. OpInv /\ CallOk(p) BY DEF CountInv
<1>1. todo[p] # <<>> /\ UNCHANGED cwd
  <2>1. todo[p] # <<>> BY DEF Step
  <2> QED BY <2>1 DEF NoInode, Link1, Link2, LinkNoDir, LinkBad, Unlink1, Unlink2, Unlink3, Mkdir, Open1, pvars
<1>2. ASSUME NEW s, Inner(s), Only(p, s) PROVE Inner(todo'[p])
  <2>1. todo'[p] = s BY <1>0, <1>2, OnlyIs
  <2> QED BY <1>2, <2>1
<1>3. Inner(todo'[p])
  <2>1. CASE (\E l \in {"link1", "unlink1", "mkdir", "open1", "open2", "chdir1"} : NoInode(p, l))
             \/ LinkNoDir(p) \/ LinkBad(p)
    <3>1. Only(p, <<end_op(-1)>>) \/ Only(p, <<Item("linkbad")>>) \/ \E i : Only(p, <<iput(i), end_op(-1)>>)
      BY <2>1 DEF NoInode, LinkNoDir, LinkBad
    <3> QED BY <1>2, <3>1, InnerLists
  <2>2. CASE Link1(p)
    <3>1. \/ \E i : Only(p, <<iput(i), end_op(-1)>>)
          \/ \E x : Only(p, << <<"nameiparent", x>>, Item("link2") >>)
      BY <2>2 DEF Link1
    <3> QED BY <1>2, <3>1, InnerLists, InnerLink
  <2>3. CASE Link2(p)
    <3>1. \E i, j : \/ Only(p, <<iput(i)>> \o iunlockput(j) \o <<Item("linkbad")>>)
                    \/ Only(p, <<iput(i), iput(j), end_op(0)>>)
      BY <2>3 DEF Link2
    <3> QED BY <1>2, <3>1, InnerLists
  <2>4. CASE Unlink1(p)
    <3>1. Only(p, <<Item("unlink2")>>) \/ \E i : Only(p, <<iput(i), end_op(-1)>>) BY <2>4 DEF Unlink1
    <3> QED BY <1>2, <3>1, InnerLists
  <2>5. CASE Unlink2(p)
    <3>1. \E i, j : \/ Only(p, <<iput(i)>> \o iunlockput(j) \o <<end_op(-1)>>)
                    \/ Only(p, <<iput(j), Item("unlink3")>>)
      BY <2>5 DEF Unlink2
    <3> QED BY <1>2, <3>1, InnerLists
  <2>6. CASE Unlink3(p)
    <3>1. \E i : Only(p, <<iput(i), end_op(0)>>) BY <2>6 DEF Unlink3
    <3> QED BY <1>2, <3>1, InnerLists
  <2>7. CASE Mkdir(p)
    <3>1. \E i : Only(p, iunlockput(i) \o <<end_op(0)>>) BY <2>7 DEF Mkdir
    <3> QED BY <1>2, <3>1, InnerLists
  <2>8. CASE Open1(p)
    <3>1. Only(p, <<Item("open2")>>) \/ \E i : Only(p, <<iput(i), end_op(-1)>>) BY <2>8 DEF Open1
    <3> QED BY <1>2, <3>1, InnerLists
  <2> QED BY <2>1, <2>2, <2>3, <2>4, <2>5, <2>6, <2>7, <2>8
<1> QED BY <1>0, <1>1, <1>3, CallInner

(* sys_open() returns, or leaves its operation.                            *)
LEMMA Open2Call == ASSUME CountInv, NEW p \in Procs, Step(p), Open2(p) PROVE CallOk(p)'
<1>0. OpInv /\ Shapes /\ CallOk(p) BY DEF CountInv
<1>1. todo[p] # <<>> /\ UNCHANGED cwd BY DEF Open2, Step
<1>2. cwd'[p] # None BY <1>0, <1>1 DEF CallOk
<1>3. (\E r : Return(p, r, <<>>)) \/ \E i : Only(p, iunlockput(i) \o <<end_op(-1)>>) BY DEF Open2
<1>4. ASSUME NEW i, Only(p, iunlockput(i) \o <<end_op(-1)>>) PROVE CallOk(p)'
  <2>1. PICK s : s = iunlockput(i) \o <<end_op(-1)>> OBVIOUS
  <2>2. Inner(s) BY <2>1, InnerLists
  <2>3. todo'[p] = s BY <1>0, <1>4, <2>1, OnlyIs
  <2>4. Inner(todo'[p]) BY <2>2, <2>3
  <2> QED BY <1>0, <1>1, <2>4, CallInner
<1> QED BY <1>0, <1>2, <1>3, <1>4, CallReturns

(* sys_chdir() has found the directory.                                    *)
LEMMA Chdir1Call == ASSUME CountInv, NEW p \in Procs, Step(p), Chdir1(p) PROVE CallOk(p)'
<1>0. OpInv /\ Shapes /\ CallOk(p) BY DEF CountInv
<1>1. todo[p] # <<>> /\ UNCHANGED <<cwd, reg>> /\ reg[p].ip # None BY DEF Chdir1, Step, pvars
<1>2. (\E i : Only(p, <<iput(i), end_op(-1)>>)) \/ \E i : Only(p, <<iput(i), Item("chdir2")>>) BY DEF Chdir1
<1>3. ASSUME NEW i, Only(p, <<iput(i), end_op(-1)>>) PROVE CallOk(p)'
  <2>1. PICK s : s = <<iput(i), end_op(-1)>> OBVIOUS
  <2>2. Inner(s) BY <2>1, InnerLists
  <2>3. todo'[p] = s BY <1>0, <1>3, <2>1, OnlyIs
  <2>4. Inner(todo'[p]) BY <2>2, <2>3
  <2> QED BY <1>0, <1>1, <2>4, CallInner
<1>4. ASSUME NEW i, Only(p, <<iput(i), Item("chdir2")>>) PROVE CallOk(p)'
  <2>1. PICK b, s : b = Item("chdir2") /\ s = <<iput(i), b>> OBVIOUS
  <2>2. b[1] = "chdir2" /\ b[1] \notin Pops BY <2>1, Labels DEF Pops
  <2>3. Weighs(s, b[1], b[1], None, Bit(i = None), 0) BY <2>1, <2>2, WeighPut
  <2>4. Main(s) = "chdir2" /\ End(s) = "chdir2" BY <2>2, <2>3 DEF Weighs
  <2>5. todo'[p] = s BY <1>0, <1>4, <2>1, OnlyIs
  <2>6. Main(todo'[p]) \notin Outside BY <2>4, <2>5 DEF Outside
  <2>7. cwd'[p] # None /\ reg'[p].ip # None BY <1>0, <1>1 DEF CallOk
  <2> QED BY <2>4, <2>5, <2>6, <2>7 DEF CallOk
<1> QED BY <1>2, <1>3, <1>4

(* The directory of a process changes; exit() is done with files.          *)
LEMMA CwdCall == ASSUME CountInv, NEW p \in Procs, Step(p), Chdir2(p) \/ Dead(p) PROVE CallOk(p)'
<1>0. OpInv /\ Shapes /\ CallOk(p) BY DEF CountInv
<1>1. Return(p, 0, <<>>) /\ UNCHANGED ofile /\ todo[p] # <<>> BY DEF Chdir2, Dead, Step
<1>2. Label(p) \in Lasts BY DEF Chdir2, Dead, Lasts
<1>3. PICK t, y : t = Tail(todo[p]) /\ y = todo[p][1] OBVIOUS
<1>4. t = <<>> /\ todo[p] = Push(y, t) /\ y[1] = Label(p) BY <1>0, <1>1, <1>2, <1>3, LastItem, Popped
<1>5. End(todo[p]) = Label(p) BY <1>4, EndPush, EmptyList
<1>6. CASE Chdir2(p)
  <2>1. reg[p].ip # None BY <1>0, <1>5, <1>6 DEF CallOk, Chdir2
  <2>2. cwd'[p] = reg[p].ip BY <1>0, <1>6 DEF Shapes, Chdir2
  <2> QED BY <1>0, <1>1, <2>1, <2>2, CallReturns
<1>7. CASE Dead(p)
  <2>1. CloseArgs(todo[p]) = OpenSet(p) BY <1>0, <1>5, <1>7 DEF CallOk, Dead
  <2>2. y[1] # "close" BY <1>4, <1>7 DEF Dead
  <2>3. CloseArgs(todo[p]) = {}
    <3>1. IsList(t) /\ CloseArgs(t) = {} BY <1>4, EmptyList
    <3> QED BY <1>4, <2>2, <3>1, ClosePush
  <2>4. OpenSet(p)' = {} BY <1>1, <2>1, <2>3 DEF OpenSet
  <2> QED BY <1>0, <1>1, <2>4, CallReturns
<1> QED BY <1>6, <1>7

(* The next operation of write().                                          *)
LEMMA CallAgain ==
  ASSUME OpInv, NEW p \in Procs, NEW n, Only(p, <<Item("begin_op"), <<"writei", n>> >>),
         reg'[p].ip = None, reg'[p].dp = None, cwd'[p] # None
  PROVE  CallOk(p)'
<1>1. PICK a, b : a = Item("begin_op") /\ b = <<"writei", n>> OBVIOUS
<1>2. PICK s : s = <<a, b>> OBVIOUS
<1>3. a[1] = "begin_op" /\ b[1] = "writei" BY <1>1, Labels
<1>4. {a[1], b[1]} \cap Pops = {} BY <1>3 DEF Pops
<1>5. Weighs(s, a[1], b[1], None, 0, 0) BY <1>2, <1>4, WeighTwoItems
<1>6. End(s) = "writei" BY <1>3, <1>5 DEF Weighs
<1>7. todo'[p] = s BY <1>1, <1>2, OnlyIs
<1> QED BY <1>6, <1>7 DEF CallOk

(* The calls on a descriptor other than close().                           *)
LEMMA FdCall ==
  ASSUME CountInv, NEW p \in Procs, Step(p), BadFd(p) \/ Dup(p) \/ Read(p) \/ Fstat(p) \/ Write(p) \/ Writei(p)
  PROVE  CallOk(p)'
<1>0. OpInv /\ Shapes /\ CallOk(p) BY DEF CountInv
<1>1. todo[p] # <<>> /\ UNCHANGED cwd /\ Label(p) \in Outside \cup {"writei"}
  BY DEF BadFd, Dup, Read, Fstat, Write, Writei, Step, pvars, Outside
<1>2. cwd'[p] # None BY <1>0, <1>1 DEF CallOk
<1>3. (\E r, x : Return(p, r, x)) \/ \E n : Only(p, <<Item("begin_op"), <<"writei", n>> >>) /\ UNCHANGED reg
  BY DEF BadFd, Dup, Read, Fstat, Write, Writei
<1>4. PICK t, y : t = Tail(todo[p]) /\ y = todo[p][1] OBVIOUS
<1>5. todo[p] = Push(y, t) /\ IsList(t) /\ y[1] = Label(p) BY <1>0, <1>1, <1>4, Popped DEF Good
<1>6. Label(p) \notin Pops BY <1>1 DEF Outside, Pops
<1>7. Main(todo[p]) = Label(p) BY <1>5, <1>6, MainPush
<1>8. Label(p) = "writei" => End(todo[p]) = "writei" BY <1>0, <1>1, LastItem DEF Lasts, Weighs
<1>9. reg[p].ip = None /\ reg[p].dp = None BY <1>0, <1>1, <1>7, <1>8 DEF CallOk
<1> QED BY <1>0, <1>2, <1>3, <1>9, CallReturns, CallAgain

(* close(), alone or in exit().                                            *)
LEMMA CloseCall == ASSUME CountInv, NEW p \in Procs, Step(p), Fileclose(p) PROVE CallOk(p)'
<1>0. OpInv /\ Shapes /\ CallOk(p) BY DEF CountInv
<1>1. Label(p) = "close" /\ todo[p] # <<>> /\ UNCHANGED cwd BY Labelled DEF Fileclose
<1>2. cwd'[p] # None BY <1>0, <1>1 DEF CallOk
<1>3. PICK t, y : t = Tail(todo[p]) /\ y = todo[p][1] OBVIOUS
<1>4. todo[p] = Push(y, t) /\ IsList(t) /\ y[1] = Label(p) /\ (Len(todo[p]) = 1 <=> t = <<>>)
  BY <1>0, <1>1, <1>3, Popped DEF Good
<1>5. Main(todo[p]) = "close"
  <2>1. y[1] \notin Pops BY <1>1, <1>4 DEF Pops
  <2> QED BY <1>1, <1>4, <2>1, MainPush
<1>6. reg[p].ip = None /\ reg[p].dp = None BY <1>0, <1>5 DEF CallOk, Outside
<1>7. OpenSet(p)' = OpenSet(p) \ {Arg(p)}
  <2>1. ofile' = [ofile EXCEPT ![p][Arg(p)] = None] BY DEF Fileclose
  <2>2. ofile'[p] = [ofile[p] EXCEPT ![Arg(p)] = None] BY <1>0, <2>1 DEF Shapes
  <2>3. ofile[p] = [fd \in Fds |-> ofile[p][fd]] BY <1>0 DEF Shapes
  <2>4. \A fd \in Fds : ofile'[p][fd] = IF fd = Arg(p) THEN None ELSE ofile[p][fd] BY <2>2, <2>3
  <2> QED BY <2>4 DEF OpenSet
<1>8. CASE Return(p, 0, <<>>) BY <1>0, <1>2, <1>8, CallReturns
<1>9. CASE Then(p, <<>>) /\ UNCHANGED reg /\ t # <<>>
  <2>1. todo'[p] = t BY <1>0, <1>1, <1>3, <1>9, ThenNone
  <2>2. End(todo[p]) = "dead" /\ CloseArgs(t) = OpenSet(p) \ {Arg(p)} /\ Once(t) BY <1>1, <1>3, <1>9, CloseOpen
  <2>3. End(t) = "dead" BY <1>4, <1>9, <2>2, EndPush
  <2> QED BY <1>2, <1>6, <1>7, <1>9, <2>1, <2>2, <2>3 DEF CallOk
<1>10. ASSUME NEW j, Then(p, CloseInode(j)), UNCHANGED reg PROVE CallOk(p)'
  <2>1. PICK a, b, c : a = Item("begin_op") /\ b = iput(j) /\ c = end_op(0) OBVIOUS
  <2>2. Then(p, <<a, b, c>>) BY <1>10, <2>1 DEF CloseInode
  <2>3. todo'[p] = Push(a, Push(b, Push(c, t))) BY <1>0, <1>1, <1>3, <2>2, ThenThree
  <2>4. Weighs(todo'[p], "begin_op", IF t = <<>> THEN "end_op" ELSE End(t), None, Due(t, None) + Bit(j = None), Unlocks(t, None))
    BY <1>4, <2>1, <2>3, CloseWeighs
  <2>5. End(todo'[p]) = IF t = <<>> THEN "end_op" ELSE End(t) BY <2>4 DEF Weighs
  <2>6. CloseArgs(todo'[p]) = CloseArgs(t) /\ (Once(t) => Once(todo'[p]))
    <3>1. PICK u, w : u = Push(c, t) /\ w = Push(b, u) OBVIOUS
    <3>2. a[1] # "close" /\ b[1] # "close" /\ c[1] # "close" BY <2>1, Labels
    <3>3. IsList(u) /\ CloseArgs(u) = CloseArgs(t) /\ (Once(t) => Once(u)) BY <1>4, <3>1, <3>2, PushList, ClosePush
    <3>4. IsList(w) /\ CloseArgs(w) = CloseArgs(u) /\ (Once(u) => Once(w)) BY <3>1, <3>2, <3>3, PushList, ClosePush
    <3>5. todo'[p] = Push(a, w) BY <2>3, <3>1
    <3>6. CloseArgs(todo'[p]) = CloseArgs(w) /\ (Once(w) => Once(todo'[p])) BY <3>2, <3>4, <3>5, ClosePush
    <3> QED BY <3>3, <3>4, <3>6
  <2>7. CASE t = <<>>
    <3>1. End(todo'[p]) = "end_op" BY <2>5, <2>7
    <3> QED BY <1>2, <1>6, <1>10, <3>1 DEF CallOk
  <2>8. CASE t # <<>>
    <3>1. End(todo[p]) = "dead" /\ CloseArgs(t) = OpenSet(p) \ {Arg(p)} /\ Once(t) BY <1>1, <1>3, <2>8, CloseOpen
    <3>2. End(todo'[p]) = "dead" BY <1>4, <2>5, <2>8, <3>1, EndPush
    <3> QED BY <1>2, <1>6, <1>7, <1>10, <2>6, <3>1, <3>2 DEF CallOk
  <2> QED BY <2>7, <2>8
<1>11. \/ Return(p, 0, <<>>)
       \/ Then(p, <<>>) /\ UNCHANGED reg /\ t # <<>>
       \/ \E j : Then(p, CloseInode(j)) /\ UNCHANGED reg
  BY <1>4 DEF Fileclose
<1> QED BY <1>8, <1>9, <1>10, <1>11

-----------------------------------------------------------------------------
(* The invariant holds.                                                    *)

(* A step leaves what the other processes have.                            *)
LEMMA StepOthers ==
  ASSUME CountInv, NEW p \in Procs, Step(p)
  PROVE  /\ Frame(p) /\ cwd' = [q \in Procs |-> cwd'[q]]
         /\ reg' = [q \in Procs |-> reg'[q]] /\ \A q \in Procs : RegOk(reg'[q])
<1>0. OpInv /\ Shapes BY DEF CountInv
<1>1. \A q \in Procs \ {p} : todo'[q] = todo[q] BY <1>0, StepFrame
<1>2. cwd' = [q \in Procs |-> cwd'[q]] /\ \A q \in Procs \ {p} : cwd'[q] = cwd[q]
  <2>1. cwd = [q \in Procs |-> cwd[q]] BY <1>0 DEF Shapes
  <2>2. UNCHANGED cwd \/ \E c : cwd' = [cwd EXCEPT ![p] = c]
    <3>1. CASE Iput(p) \/ Ifree(p) \/ Deref(p) \/ Iunlock(p) \/ BeginOp(p) \/ EndOp(p)
      BY <3>1 DEF Iput, Ifree, Deref, Iunlock, BeginOp, EndOp, pvars
    <3>2. CASE Namex(p) \/ Walk(p) \/ \E l \in {"link1", "unlink1", "mkdir", "open1", "open2", "chdir1"} : NoInode(p, l)
      BY <3>2 DEF Namex, Walk, NoInode, pvars
    <3>3. CASE Link1(p) \/ Link2(p) \/ LinkNoDir(p) \/ LinkBad(p) \/ Unlink1(p) \/ Unlink2(p) \/ Unlink3(p)
      BY <3>3 DEF Link1, Link2, LinkNoDir, LinkBad, Unlink1, Unlink2, Unlink3, pvars
    <3>4. CASE Create1(p) \/ CreateNoDir(p) \/ CreateExists(p) \/ ialloc(p) \/ CreateNew(p) \/ Mkdir(p)
      BY <3>4 DEF Create1, CreateNoDir, CreateExists, ialloc, CreateNew, Mkdir, pvars
    <3>5. CASE Open1(p) \/ Open2(p) \/ Chdir1(p) \/ Chdir2(p) \/ Dead(p)
      BY <3>5 DEF Open1, Open2, Chdir1, Chdir2, Dead, pvars
    <3>6. CASE BadFd(p) \/ Fileclose(p) \/ Dup(p) \/ Read(p) \/ Fstat(p) \/ Write(p) \/ Writei(p)
      BY <3>6 DEF BadFd, Fileclose, Dup, Read, Fstat, Write, Writei, pvars
    <3> QED BY <3>1, <3>2, <3>3, <3>4, <3>5, <3>6 DEF Step
  <2> QED BY <2>1, <2>2
<1>3. /\ reg' = [q \in Procs |-> reg'[q]] /\ \A q \in Procs : RegOk(reg'[q])
      /\ \A q \in Procs \ {p} : reg'[q] = reg[q]
  <2>1. reg = [q \in Procs |-> reg[q]] /\ \A q \in Procs : RegOk(reg[q]) BY <1>0 DEF Shapes
  <2>2. UNCHANGED reg \/ \E r : RegOk(r) /\ Set(p, r) BY <1>0, StepRegs
  <2>3. CASE UNCHANGED reg BY <2>1, <2>3
  <2>4. ASSUME NEW r, RegOk(r), Set(p, r)
        PROVE  /\ reg' = [q \in Procs |-> reg'[q]] /\ \A q \in Procs : RegOk(reg'[q])
               /\ \A q \in Procs \ {p} : reg'[q] = reg[q]
    BY <2>1, <2>4 DEF Set
  <2> QED BY <2>2, <2>3, <2>4
<1> QED BY <1>1, <1>2, <1>3 DEF Frame

(* Every step of a call keeps it in order.                                 *)
LEMMA StepCall == ASSUME CountInv, NEW p \in Procs, Step(p) PROVE CallOk(p)'
<1>1. CASE Iput(p) \/ Ifree(p) \/ Deref(p) \/ Iunlock(p) BY <1>1, PopCall
<1>2. CASE BeginOp(p) \/ EndOp(p) BY <1>2, OpCall
<1>3. CASE Namex(p) \/ Walk(p) \/ Create1(p) \/ CreateNoDir(p) \/ CreateExists(p) \/ ialloc(p) \/ CreateNew(p)
  BY <1>3, LookCall
<1>4. CASE \/ \E l \in {"link1", "unlink1", "mkdir", "open1", "open2", "chdir1"} : NoInode(p, l)
           \/ Link1(p) \/ Link2(p) \/ LinkNoDir(p) \/ LinkBad(p) \/ Unlink1(p) \/ Unlink2(p) \/ Unlink3(p)
           \/ Mkdir(p) \/ Open1(p)
  BY <1>4, OnlyCall
<1>5. CASE Open2(p) BY <1>5, Open2Call
<1>6. CASE Chdir1(p) BY <1>6, Chdir1Call
<1>7. CASE Chdir2(p) \/ Dead(p) BY <1>7, CwdCall
<1>8. CASE BadFd(p) \/ Dup(p) \/ Read(p) \/ Fstat(p) \/ Write(p) \/ Writei(p) BY <1>8, FdCall
<1>9. CASE Fileclose(p) BY <1>9, CloseCall
<1> QED BY <1>1, <1>2, <1>3, <1>4, <1>5, <1>6, <1>7, <1>8, <1>9 DEF Step

(* The call of a process that a step leaves alone.                         *)
LEMMA CallKept ==
  ASSUME NEW q \in Procs, CallOk(q), todo'[q] = todo[q], reg'[q] = reg[q], cwd'[q] = cwd[q], ofile'[q] = ofile[q]
  PROVE  CallOk(q)'
<1>1. OpenSet(q)' = OpenSet(q) BY DEF OpenSet
<1> QED BY <1>1 DEF CallOk

(* A step of a call keeps the invariant.                                   *)
LEMMA CountStep == ASSUME CountInv, NEW p \in Procs, Step(p), OpInv', CacheInv' PROVE CountInv'
<1>0. OpInv /\ RefInv /\ LockInv /\ \A q \in Procs : CallOk(q) BY DEF CountInv
<1>1. FilesOk' /\ \A q \in Procs \ {p} : ofile'[q] = ofile[q] BY StepFiles
<1>2. /\ Frame(p) /\ cwd' = [q \in Procs |-> cwd'[q]]
      /\ reg' = [q \in Procs |-> reg'[q]] /\ \A q \in Procs : RegOk(reg'[q])
  BY StepOthers
<1>3. RefInv' /\ LockInv' BY <1>0, <1>2, StepBalance, Settle
<1>4. Shapes' /\ FileInv' BY <1>1, <1>2 DEF Shapes, FilesOk
<1>5. ASSUME NEW q \in Procs PROVE CallOk(q)'
  <2>1. CASE q = p BY <2>1, StepCall
  <2>2. CASE q # p BY <1>0, <1>1, <1>2, <2>2, CallKept DEF Frame
  <2> QED BY <2>1, <2>2
<1> QED BY <1>3, <1>4, <1>5 DEF CountInv

(* So does the beginning of a call.                                        *)
LEMMA CountSyscall ==
  ASSUME CountInv, NEW p \in Procs, NEW c, c.op \in SystemCalls, Syscall(p, c), OpInv', CacheInv' PROVE CountInv'
<1>0. OpInv /\ RefInv /\ LockInv /\ Shapes /\ FilesOk /\ \A q \in Procs : CallOk(q) BY DEF CountInv, Shapes, FilesOk
<1>1. PICK s, r : s = Agenda(p, c) /\ r = [NoReg EXCEPT !.call = c] OBVIOUS
<1>2. /\ Only(p, s) /\ Set(p, r) /\ UNCHANGED <<file, ofile, cwd>> /\ todo[p] = <<>> /\ cwd[p] # None
  BY <1>1 DEF Syscall, pvars
<1>3. FilesOk' BY <1>0, <1>2, FilesSame
<1>4. todo'[p] = s /\ \A q \in Procs \ {p} : todo'[q] = todo[q] BY <1>0, <1>2, OnlyIs
<1>5. RegOk(r) BY <1>1, RegNone
<1>6. reg' = [q \in Procs |-> reg'[q]] /\ \A q \in Procs : reg'[q] = IF q = p THEN r ELSE reg[q] BY <1>0, <1>2 DEF Shapes, Set
<1>7. Shapes' /\ FileInv' BY <1>0, <1>2, <1>3, <1>5, <1>6 DEF Shapes, FilesOk
<1>8. Frame(p) BY <1>2, <1>4, <1>6 DEF Frame
<1>9. RefInv' /\ LockInv' BY <1>0, <1>8, SyscallBalance, Settle
<1>10. r.ip = None /\ r.dp = None
  <2>1. r = [call |-> c, ip |-> None, dp |-> None, old |-> None, elems |-> <<>>, name |-> ""] BY <1>1, Zenon DEF NoReg
  <2> QED BY <2>1
<1>11. CallOk(p)'
  <2>1. End(s) # "chdir2" /\ (End(s) = "dead" => CloseArgs(s) = OpenSet(p) /\ Once(s)) BY <1>1, AgendaWeighs
  <2>2. OpenSet(p)' = OpenSet(p) BY <1>2 DEF OpenSet
  <2>3. reg'[p] = r /\ cwd'[p] # None BY <1>2, <1>6
  <2> QED BY <1>4, <1>10, <2>1, <2>2, <2>3 DEF CallOk
<1>12. ASSUME NEW q \in Procs PROVE CallOk(q)'
  <2>1. CASE q = p BY <1>11, <2>1
  <2>2. CASE q # p BY <1>0, <1>2, <1>8, <2>2, CallKept DEF Frame
  <2> QED BY <2>1, <2>2
<1> QED BY <1>7, <1>9, <1>12 DEF CountInv

(* And fork().                                                             *)
LEMMA CountFork ==
  ASSUME CountInv, NEW p \in Procs, NEW q \in Procs, Fork(p, q), OpInv', CacheInv' PROVE CountInv'
<1>0. OpInv /\ RefInv /\ LockInv /\ Shapes /\ \A k \in Procs : CallOk(k) BY DEF CountInv
<1>1. /\ p # q /\ todo[q] = <<>> /\ FileInv'
      /\ file' = [g \in 1 .. NFILE |-> file'[g]] /\ \A g \in 1 .. NFILE : FileOk(file'[g]) /\ file'[g].ref \in Nat
      /\ ofile' = [r \in Procs |-> ofile'[r]]
      /\ \A r \in Procs : ofile'[r] = [y \in Fds |-> ofile'[r][y]] /\ \A y \in Fds : ofile'[r][y] \in 0 .. NFILE
  BY ForkFiles
<1>2. UNCHANGED <<todo, reg>> /\ cwd' = [cwd EXCEPT ![q] = cwd[p]] /\ ofile' = [ofile EXCEPT ![q] = ofile[p]] /\ cwd[p] # None
  BY DEF Fork
<1>3. cwd' = [k \in Procs |-> cwd'[k]] /\ cwd'[q] # None BY <1>0, <1>2 DEF Shapes
<1>4. Shapes' BY <1>0, <1>1, <1>2, <1>3 DEF Shapes
<1>5. \A i \in Inums : Balanced(q, i) /\ OwnLock(q, i) BY ForkBalance
<1>6. Frame(q) BY <1>0, <1>2 DEF Shapes, Frame
<1>7. RefInv' /\ LockInv' BY <1>0, <1>5, <1>6, Settle
<1>8. \A k \in Procs \ {q} : ofile'[k] = ofile[k] BY <1>0, <1>2 DEF Shapes
<1>9. ASSUME NEW k \in Procs PROVE CallOk(k)'
  <2>1. CASE k = q
    <3>1. Main(todo[q]) = "user" /\ End(todo[q]) = "user" BY <1>1, EmptyList
    <3>2. reg[q].ip = None /\ reg[q].dp = None BY <1>0, <3>1 DEF CallOk, Outside
    <3> QED BY <1>2, <1>3, <2>1, <3>1, <3>2 DEF CallOk
  <2>2. CASE k # q BY <1>0, <1>2, <1>6, <1>8, <2>2, CallKept DEF Frame
  <2> QED BY <2>1, <2>2
<1> QED BY <1>1, <1>4, <1>7, <1>9 DEF CountInv

(* Every step keeps it.                                                    *)
LEMMA CountNext == ASSUME CountInv, [FNext]_vars PROVE CountInv'
<1>1. OpInv' /\ CacheInv'
  <2>1. OpInv /\ CacheInv BY DEF CountInv
  <2> QED BY <2>1, OpStep, CacheStep
<1>2. CASE UNCHANGED <<dinode, inode, file, ofile, cwd, op, todo, reg>>
  <2>1. \A q \in Procs : CallOk(q)' BY <1>2, CallKept DEF CountInv
  <2>2. FileInv' /\ Shapes'
    <3>1. FilesOk BY DEF CountInv, Shapes, FilesOk
    <3>2. FilesOk' BY <1>2, <3>1, FilesSame
    <3> QED BY <1>2, <3>2 DEF CountInv, Shapes, FilesOk
  <2>3. RefInv'
    <3>1. ASSUME NEW i PROVE Users(i)' = Users(i) /\ OpenAt(i)' = OpenAt(i)
      <4>1. CwdAt(i)' = CwdAt(i) /\ IpAt(i)' = IpAt(i) /\ DpAt(i)' = DpAt(i) /\ OldAt(i)' = OldAt(i)
        BY <1>2 DEF CwdAt, IpAt, DpAt, OldAt
      <4>2. Dues(i)' = Dues(i) BY <1>2 DEF Dues
      <4>3. Pairs(Dues(i))' = Pairs(Dues(i)) BY <4>2 DEF Pairs
      <4>4. OpenAt(i)' = OpenAt(i) BY <1>2 DEF OpenAt
      <4> QED BY <4>1, <4>3, <4>4 DEF Users
    <3>2. \A i \in Inums : inode[i].ref = Users(i) + Cardinality(OpenAt(i)) BY DEF CountInv, RefInv
    <3> QED BY <1>2, <3>1, <3>2 DEF RefInv
  <2>4. LockInv' BY <1>2 DEF CountInv, LockInv
  <2> QED BY <1>1, <2>1, <2>2, <2>3, <2>4 DEF CountInv
<1>3. CASE UNCHANGED vars BY <1>2, <1>3 DEF vars
<1>4. ASSUME NEW p \in Procs, Waited(p) \/ Panic(p) PROVE CountInv' BY <1>2, <1>4 DEF Waited, Panic, fsvars, pvars
<1>5. ASSUME NEW p \in Procs, NEW c, c.op \in SystemCalls, Syscall(p, c) PROVE CountInv' BY <1>1, <1>5, CountSyscall
<1>6. ASSUME NEW p \in Procs, NEW q \in Procs, Fork(p, q) PROVE CountInv' BY <1>1, <1>6, CountFork
<1>7. ASSUME NEW p \in Procs, Step(p) PROVE CountInv' BY <1>1, <1>7, CountStep
<1> QED BY <1>3, <1>4, <1>5, <1>6, <1>7 DEF FNext

(* Between calls only current directories count.                           *)
LEMMA QuietUsers ==
  ASSUME Quiet, NEW i \in Inums
  PROVE  Users(i) = Cardinality({q \in Procs : cwd[q] = i}) /\ Users(i) \in Nat
<1>1. \A q \in Procs : Main(todo[q]) = "user" /\ End(todo[q]) = "user" /\ DueAt(todo[q], i) = {}
  BY EmptyList DEF Quiet, DueAt
<1>2. CwdAt(i) = {q \in Procs : cwd[q] = i} BY <1>1 DEF CwdAt
<1>3. IpAt(i) = {} /\ DpAt(i) = {} /\ OldAt(i) = {} BY <1>1 DEF IpAt, DpAt, OldAt, UsesIp, UsesDp
<1>4. Pairs(Dues(i)) = {} BY <1>1 DEF Pairs, Dues
<1>5. PICK c, z : c = Cardinality(CwdAt(i)) /\ z = Cardinality({}) OBVIOUS
<1>6. c \in Nat /\ z = 0
  <2>1. IsFiniteSet(Procs) /\ CwdAt(i) \subseteq Procs BY FilesAssumption, FS_Interval DEF Procs, CwdAt
  <2> QED BY <1>5, <2>1, FS_Subset, FS_CardinalityType, FS_EmptySet
<1>7. Users(i) = c + z + z + z + z BY <1>3, <1>4, <1>5 DEF Users
<1> QED BY <1>2, <1>5, <1>6, <1>7

(* At first the first process has the root directory, and that is all.     *)
LEMMA CountStart == ASSUME FInit PROVE CountInv
<1>1. OpInv /\ CacheInv BY OpStart, CacheStart
<1>2. PICK names : InitWith(names) BY DEF FInit
<1>3. /\ file = [g \in 1 .. NFILE |-> FreeFile] /\ ofile = [p \in Procs |-> [fd \in Fds |-> None]]
      /\ cwd = [p \in Procs |-> IF p = 1 THEN ROOTINO ELSE None]
      /\ todo = [p \in Procs |-> <<>>] /\ reg = [p \in Procs |-> NoReg]
      /\ \A i \in Inums : inode[i].ref = (IF i = ROOTINO THEN 1 ELSE 0) /\ inode[i].lock = None
  BY <1>2 DEF InitWith
<1>4. Quiet BY <1>3 DEF Quiet
<1>5. PICK x : x = FreeFile OBVIOUS
<1>6. FileOk(x) /\ x.ref = 0 BY <1>5 DEF FreeFile, FileOk
<1>7. file = [g \in 1 .. NFILE |-> x] BY <1>3, <1>5
<1>8. Shapes
  <2>1. reg = [p \in Procs |-> reg[p]] /\ \A p \in Procs : RegOk(reg[p]) BY <1>3, RegNone
  <2>2. file = [g \in 1 .. NFILE |-> file[g]] /\ \A g \in 1 .. NFILE : FileOk(file[g]) /\ file[g].ref \in Nat
    BY <1>6, <1>7
  <2>3. cwd = [p \in Procs |-> cwd[p]] /\ ofile = [p \in Procs |-> ofile[p]] BY <1>3
  <2>4. \A p \in Procs : ofile[p] = [fd \in Fds |-> ofile[p][fd]] /\ \A fd \in Fds : ofile[p][fd] \in 0 .. NFILE
    <3>1. None \in 0 .. NFILE BY FilesAssumption DEF None
    <3> QED BY <1>3, <3>1
  <2> QED BY <2>1, <2>2, <2>3, <2>4 DEF Shapes
<1>9. RefInv
  <2> SUFFICES ASSUME NEW i \in Inums PROVE inode[i].ref = Users(i) + Cardinality(OpenAt(i)) BY DEF RefInv
  <2>1. PICK n, C : n = Users(i) /\ C = {q \in Procs : cwd[q] = i} OBVIOUS
  <2>2. n = Cardinality(C) /\ n \in Nat BY <1>4, <2>1, QuietUsers
  <2>3. Cardinality(OpenAt(i)) = 0
    <3>1. OpenAt(i) = {} BY <1>6, <1>7 DEF OpenAt
    <3> QED BY <3>1, FS_EmptySet
  <2>4. C = IF i = ROOTINO THEN {1} ELSE {}
    <3>1. 1 \in Procs BY FilesAssumption DEF Procs
    <3>2. i # None BY NoInode0
    <3> QED BY <1>3, <2>1, <3>1, <3>2
  <2>5. Cardinality(C) = IF i = ROOTINO THEN 1 ELSE 0 BY <2>4, FS_Singleton, FS_EmptySet
  <2> QED BY <1>3, <2>1, <2>2, <2>3, <2>5
<1>10. LockInv
  <2> SUFFICES ASSUME NEW i \in Inums, NEW p \in Procs PROVE Locks(todo[p], reg[p], i) = Bit(inode[i].lock = p)
    BY <1>3 DEF LockInv
  <2>1. MyLocks(p, i) = 0 BY <1>3, IdleRefs
  <2>2. inode[i].lock # p BY <1>3 DEF None, Procs
  <2> QED BY <2>1, <2>2 DEF MyLocks, Bit
<1>11. FileInv
  <2> SUFFICES ASSUME NEW g \in 1 .. NFILE PROVE file[g].ref = Cardinality(Pairs(Rows(g))) BY DEF FileInv
  <2>1. g # None BY DEF None
  <2>2. \A p \in Procs : Slots(p, g) = {} BY <1>3, <2>1 DEF Slots
  <2>3. Pairs(Rows(g)) = {} BY <2>2 DEF Pairs, Rows
  <2> QED BY <1>6, <1>7, <2>3, FS_EmptySet
<1>12. ASSUME NEW p \in Procs PROVE CallOk(p)
  <2>1. PICK r : r = reg[p] OBVIOUS
  <2>2. r = [call |-> [op |-> "none"], ip |-> None, dp |-> None, old |-> None, elems |-> <<>>, name |-> ""]
    BY <1>3, <2>1, Zenon DEF NoReg
  <2>3. r.ip = None /\ r.dp = None BY <2>2
  <2>4. todo[p] = <<>> /\ End(todo[p]) = "user" BY <1>3, EmptyList
  <2>5. OpenSet(p) = {} BY <1>3 DEF OpenSet
  <2> QED BY <2>1, <2>3, <2>4, <2>5 DEF CallOk
<1> QED BY <1>1, <1>8, <1>9, <1>10, <1>11, <1>12 DEF CountInv

(* The invariant between calls.                                            *)
LEMMA CountQuiet == ASSUME CountInv PROVE RefsExact
<1> SUFFICES ASSUME Quiet
             PROVE  /\ \A i \in Inums :
                         inode[i].ref = Cardinality({p \in Procs : cwd[p] = i})
                                        + Cardinality({g \in 1 .. NFILE : file[g].ref > 0 /\ file[g].ip = i})
                    /\ \A g \in 1 .. NFILE :
                         file[g].ref = Cardinality({x \in Procs \X Fds : ofile[x[1]][x[2]] = g})
                    /\ \A i \in Inums : inode[i].lock = None
                    /\ op = {}
  BY DEF RefsExact
<1>0. OpInv /\ RefInv /\ LockInv /\ FileInv BY DEF CountInv
<1>1. ASSUME NEW i \in Inums
      PROVE  inode[i].ref = Cardinality({p \in Procs : cwd[p] = i})
                            + Cardinality({g \in 1 .. NFILE : file[g].ref > 0 /\ file[g].ip = i})
  BY <1>0, QuietUsers DEF RefInv, OpenAt
<1>2. ASSUME NEW g \in 1 .. NFILE
      PROVE  file[g].ref = Cardinality({x \in Procs \X Fds : ofile[x[1]][x[2]] = g})
  <2>1. Pairs(Rows(g)) = {x \in Procs \X Fds : ofile[x[1]][x[2]] = g} BY DEF Pairs, Rows, Slots
  <2> QED BY <1>0, <2>1 DEF FileInv
<1>3. ASSUME NEW i \in Inums PROVE inode[i].lock = None
  <2>1. inode[i].lock \in Procs \cup {None} BY <1>0 DEF LockInv
  <2>2. ASSUME NEW p \in Procs PROVE inode[i].lock # p
    <3>1. MyLocks(p, i) = 0 BY IdleRefs DEF Quiet
    <3>2. MyLocks(p, i) = Bit(inode[i].lock = p) BY <1>0 DEF LockInv, MyLocks
    <3> QED BY <3>1, <3>2 DEF Bit
  <2> QED BY <2>1, <2>2
<1>4. op = {}
  <2>1. \A p \in Procs : p \notin op BY <1>0 DEF OpInv, AgendaOk, Quiet
  <2> QED BY <1>0, <2>1 DEF OpInv
<1> QED BY <1>1, <1>2, <1>3, <1>4

(* At any moment the references to an inode are as many as the current     *)
(* directories, the open files, the local variables and the iput() calls   *)
(* to come that stand for one; its lock is held by the process that will   *)
(* release it, once; and a file has one reference for each descriptor.     *)
THEOREM ReferencesCounted == FSpec => []CountInv
<1>1. FInit => CountInv BY CountStart
<1>2. CountInv /\ [FNext]_vars => CountInv' BY CountNext
<1> QED BY <1>1, <1>2, PTL DEF FSpec

(* So when no system call is under way, whatever calls were made and in    *)
(* whatever order their steps were taken, no path through sysfile.c has    *)
(* lost or doubled an iput() or fileclose(), kept a lock or not ended its  *)
(* operation.                                                              *)
THEOREM CountsExact == FSpec => []RefsExact
<1>1. CountInv => RefsExact BY CountQuiet
<1> QED BY <1>1, ReferencesCounted, PTL

(* And so it is of the tests as they are run.                              *)
THEOREM TestsExact == TSpec => []RefsExact
BY TestsAreClients, CountsExact, PTL
==============================================================================
