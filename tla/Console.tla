------------------------------ MODULE Console -------------------------------
(***************************************************************************)
(* The console of console.c under its spinlock (spinlock.c): consoleintr,  *)
(* consoleread, consolewrite and the cprintf calls of procdump.            *)
(*                                                                         *)
(* Process p runs on CPU p; context 0 is the interrupt handler, which      *)
(* keyboard and serial line run on CPU 1 (ioapicenable(.., 0)), on top of  *)
(* process 1.  The lock is taken and given up one memory access at a time. *)
(* What is displayed is left out.                                          *)
(***************************************************************************)
EXTENDS Integers, Sequences

CONSTANTS
    NCPU,
    INPUT_BUF,   \* places of the ring
    Wrap,        \* r, w and e are unsigned: modulo Wrap
    Letters,     \* the ordinary characters
    NL, CtrlD,   \* newline and end of file
    ReadLengths, WriteLengths   \* how much the calls ask for

ASSUME ConsoleAssumption ==
    /\ {NCPU, INPUT_BUF} \subseteq Nat \ {0} /\ ReadLengths \cup WriteLengths \subseteq Nat
    /\ Wrap \in Nat /\ Wrap > INPUT_BUF /\ Wrap % INPUT_BUF = 0

CPUs     == 1 .. NCPU
Handler  == 0
Contexts == CPUs \cup {Handler}
CpuOf(x) == IF x = Handler THEN 1 ELSE x
NoCpu    == 0
Stored   == Letters \cup {NL, CtrlD}

VARIABLES
    buf, r, w, e,   \* input
    locked, owner,  \* cons.lock: locked and cpu
    iflag,          \* iflag[c]: interrupts enabled
    ncli, intena,   \* of struct cpu
    pc,             \* where each context is
    job,            \* job[x]: what it does, n still to do, got so far
    sleeping,       \* the processes asleep on &input.r
    killed,         \* the processes killed
    panic

input == <<buf, r, w, e>>
lock  == <<locked, owner>>
cpu   == <<iflag, ncli, intena>>
vars  == <<buf, r, w, e, locked, owner, iflag, ncli, intena, pc, job, sleeping, killed, panic>>

NoJob == [kind |-> "none", n |-> 0, got |-> 0]

Init ==
    /\ buf = [i \in 0 .. INPUT_BUF - 1 |-> NL] /\ r = 0 /\ w = 0 /\ e = 0
    /\ locked = FALSE /\ owner = NoCpu
    /\ iflag = [c \in CPUs |-> TRUE] /\ ncli = [c \in CPUs |-> 0] /\ intena = [c \in CPUs |-> TRUE]
    /\ pc = [x \in Contexts |-> "idle"] /\ job = [x \in Contexts |-> NoJob]
    /\ sleeping = {} /\ killed = {} /\ panic = FALSE

Goto(x, l) == pc' = [pc EXCEPT ![x] = l]

(* The handler runs on top of process 1. *)
Runs(x, l) == pc[x] = l /\ ~panic /\ (x = 1 => pc[Handler] = "idle")

Plus(i, j) == (i + j) % Wrap

-----------------------------------------------------------------------------
(* acquire(): pushcli, holding, xchg, cpu = mycpu().                       *)

Holding(c) == locked /\ owner = c

BugPushed(c) == iflag
Pushed(c) == [iflag EXCEPT ![c] = FALSE]

pushcli(x) ==
    LET c == CpuOf(x) IN
    /\ Runs(x, "acquire")
    /\ iflag' = Pushed(c)
    /\ intena' = IF ncli[c] = 0 THEN [intena EXCEPT ![c] = iflag[c]] ELSE intena
    /\ ncli' = [ncli EXCEPT ![c] = @ + 1]
    /\ panic' = Holding(c)
    /\ Goto(x, "spin")
    /\ UNCHANGED <<input, lock, job, sleeping, killed>>

xchg(x) ==
    /\ Runs(x, "spin") /\ ~locked
    /\ locked' = TRUE
    /\ Goto(x, "take")
    /\ UNCHANGED <<input, owner, cpu, job, sleeping, killed, panic>>

SetOwner(x) ==
    /\ Runs(x, "take")
    /\ owner' = CpuOf(x)
    /\ Goto(x, "inside")
    /\ UNCHANGED <<input, locked, cpu, job, sleeping, killed, panic>>

-----------------------------------------------------------------------------
(* release(): the owner is forgotten before the lock is free.              *)

ClearOwner(x) ==
    /\ Runs(x, "release")
    /\ owner' = NoCpu
    /\ panic' = ~Holding(CpuOf(x))
    /\ Goto(x, "open")
    /\ UNCHANGED <<input, locked, cpu, job, sleeping, killed>>

Unlock(x) ==
    /\ Runs(x, "open")
    /\ locked' = FALSE
    /\ Goto(x, "popcli")
    /\ UNCHANGED <<input, owner, cpu, job, sleeping, killed, panic>>

(* After popcli() a process returns from its call, or is asleep; the       *)
(* handler lists the processes if ^P was typed, else it returns.           *)
popcli(x) ==
    LET c == CpuOf(x) IN
    /\ Runs(x, "popcli")
    /\ ncli' = [ncli EXCEPT ![c] = @ - 1]
    /\ panic' = (iflag[c] \/ ncli[c] = 0)
    /\ iflag' = [iflag EXCEPT ![c] = ncli[c] = 1 /\ intena[c]]
    /\ CASE job[x].kind = "read" /\ job[x].n > 0 -> Goto(x, "asleep") /\ UNCHANGED job
         [] job[x].kind = "intr" /\ job[x].n > 0 ->
              Goto(x, "acquire") /\ job' = [job EXCEPT ![x] = [NoJob EXCEPT !.kind = "dump"]]
         [] x = Handler -> Goto(x, "iret") /\ job' = [job EXCEPT ![x] = NoJob]
         [] OTHER -> Goto(x, "idle") /\ job' = [job EXCEPT ![x] = NoJob]
    /\ UNCHANGED <<input, lock, intena, sleeping, killed>>

Leave(x, j) == Goto(x, "release") /\ job' = [job EXCEPT ![x] = j]

-----------------------------------------------------------------------------
(* consoleintr(): one character of the loop, or the end of it.             *)

(* A device interrupt: the gate clears IF, iret restores it. *)
Interrupt ==
    /\ pc[Handler] = "idle" /\ iflag[1] /\ ~panic
    /\ iflag' = [iflag EXCEPT ![1] = FALSE]
    /\ job' = [job EXCEPT ![Handler] = [NoJob EXCEPT !.kind = "intr"]]
    /\ Goto(Handler, "acquire")
    /\ UNCHANGED <<input, lock, ncli, intena, sleeping, killed, panic>>

iret ==
    /\ Runs(Handler, "iret")
    /\ iflag' = [iflag EXCEPT ![1] = TRUE]
    /\ Goto(Handler, "idle")
    /\ UNCHANGED <<input, lock, ncli, intena, job, sleeping, killed, panic>>

InLoop == Runs(Handler, "inside") /\ job[Handler].kind = "intr"

(* ^P: procdump() is only noted, as it takes the lock itself. *)
KeyP ==
    /\ InLoop
    /\ job' = [job EXCEPT ![Handler].n = 1]
    /\ UNCHANGED <<input, lock, cpu, pc, sleeping, killed, panic>>

KeyU ==
    LET Stop(k) == Plus(e, -k) = w \/ buf[Plus(e, -k - 1) % INPUT_BUF] = NL
        k == CHOOSE i \in 0 .. Wrap - 1 : Stop(i) /\ \A j \in 0 .. i - 1 : ~Stop(j)
    IN
    /\ InLoop
    /\ e' = Plus(e, -k)
    /\ UNCHANGED <<buf, r, w, lock, cpu, pc, job, sleeping, killed, panic>>

KeyH ==
    /\ InLoop /\ e # w
    /\ e' = Plus(e, -1)
    /\ UNCHANGED <<buf, r, w, lock, cpu, pc, job, sleeping, killed, panic>>

(* Stored while there is room; the end of a line, or a full ring, makes    *)
(* the line readable and wakes the readers.                                *)
BugEndsLine(c) == c \in {NL, CtrlD}
EndsLine(c) == c \in {NL, CtrlD} \/ Plus(e, 1) = Plus(r, INPUT_BUF)

HasRoom == Plus(e, -r) < INPUT_BUF

KeyOther(c) ==
    /\ InLoop /\ HasRoom
    /\ buf' = [buf EXCEPT ![e % INPUT_BUF] = c]
    /\ e' = Plus(e, 1)
    /\ IF EndsLine(c) THEN w' = Plus(e, 1) /\ sleeping' = {} ELSE UNCHANGED <<w, sleeping>>
    /\ UNCHANGED <<r, lock, cpu, pc, job, killed, panic>>

EndOfKeys ==
    /\ InLoop
    /\ Goto(Handler, "release")
    /\ UNCHANGED <<input, lock, cpu, job, sleeping, killed, panic>>

(* One cprintf() of procdump(). *)
Dump ==
    /\ Runs(Handler, "inside") /\ job[Handler].kind = "dump"
    /\ Leave(Handler, job[Handler])
    /\ UNCHANGED <<input, lock, cpu, sleeping, killed, panic>>

-----------------------------------------------------------------------------
(* consoleread() and consolewrite() of n characters.                       *)

Call(p, kind, n) ==
    /\ Runs(p, "idle") /\ p \notin killed
    /\ job' = [job EXCEPT ![p] = [kind |-> kind, n |-> n, got |-> 0]]
    /\ Goto(p, "acquire")
    /\ UNCHANGED <<input, lock, cpu, sleeping, killed, panic>>

Does(p, kind) == Runs(p, "inside") /\ job[p].kind = kind
Empty == r = w

(* Nothing to read: a killed process gives up, others sleep.  sleep() goes *)
(* on the channel before it releases the lock (both under ptable.lock).  A *)
(* kill() that falls between the test and sleep() wakes nobody.            *)
ReadWaits(p) ==
    /\ Does(p, "read") /\ job[p].n > 0 /\ Empty
    /\ IF p \in killed
         THEN Leave(p, [job[p] EXCEPT !.n = 0]) /\ UNCHANGED <<sleeping, killed>>
         ELSE Leave(p, job[p]) /\ sleeping' = sleeping \cup {p} /\ killed' \in {killed, killed \cup {p}}
    /\ UNCHANGED <<input, lock, cpu, panic>>

(* The next character; a ^D behind others is left for the next call. *)
BugPutBack(p) == FALSE
PutBack(p) == job[p].got > 0

ReadChar(p) ==
    LET c == buf[r % INPUT_BUF] IN
    /\ Does(p, "read") /\ job[p].n > 0 /\ ~Empty
    /\ IF c = CtrlD
         THEN /\ r' = IF PutBack(p) THEN r ELSE Plus(r, 1)
              /\ Leave(p, [job[p] EXCEPT !.n = 0])
         ELSE /\ r' = Plus(r, 1)
              /\ IF c = NL
                   THEN Leave(p, [job[p] EXCEPT !.n = 0, !.got = @ + 1])
                   ELSE job' = [job EXCEPT ![p].n = @ - 1, ![p].got = @ + 1] /\ UNCHANGED pc
    /\ UNCHANGED <<buf, w, e, lock, cpu, sleeping, killed, panic>>

WriteChar(p) ==
    /\ Does(p, "write") /\ job[p].n > 0
    /\ job' = [job EXCEPT ![p].n = @ - 1]
    /\ UNCHANGED <<input, lock, cpu, pc, sleeping, killed, panic>>

CallDone(p) ==
    /\ Runs(p, "inside") /\ p # Handler /\ job[p].n = 0
    /\ Goto(p, "release")
    /\ UNCHANGED <<input, lock, cpu, job, sleeping, killed, panic>>

(* sleep() returns once wakeup() or kill() made the process runnable. *)
Wakes(p) ==
    /\ Runs(p, "asleep") /\ p \notin sleeping
    /\ Goto(p, "acquire")
    /\ UNCHANGED <<input, lock, cpu, job, sleeping, killed, panic>>

(* kill() of a reader (a writer does not look): it takes ptable.lock, not  *)
(* cons.lock; a killed process ends when its call returns, and another     *)
(* takes its place.                                                        *)
kill(p) ==
    /\ ~panic /\ job[p].kind = "read"
    /\ killed' = killed \cup {p}
    /\ sleeping' = sleeping \ {p}
    /\ UNCHANGED <<input, lock, cpu, pc, job, panic>>

exit(p) ==
    /\ Runs(p, "idle") /\ p \in killed
    /\ killed' = killed \ {p}
    /\ UNCHANGED <<input, lock, cpu, pc, job, sleeping, panic>>

-----------------------------------------------------------------------------
Next ==
    \/ \E x \in Contexts : pushcli(x) \/ xchg(x) \/ SetOwner(x) \/ ClearOwner(x) \/ Unlock(x) \/ popcli(x)
    \/ Interrupt \/ iret \/ KeyP \/ KeyU \/ KeyH \/ (\E c \in Stored : KeyOther(c)) \/ EndOfKeys \/ Dump
    \/ \E p \in CPUs :
         \/ (\E n \in ReadLengths : Call(p, "read", n)) \/ (\E n \in WriteLengths : Call(p, "write", n))
         \/ ReadWaits(p) \/ ReadChar(p) \/ WriteChar(p) \/ CallDone(p) \/ Wakes(p) \/ kill(p) \/ exit(p)

Spec == Init /\ [][Next]_vars

-----------------------------------------------------------------------------
Inside(x) == pc[x] \in {"inside", "release"}

(* The lock excludes processes and the handler that interrupts them:       *)
(* nobody meets the panics of acquire(), release() or popcli(), the owner  *)
(* recorded is the context inside even while it changes hands, the handler *)
(* never spins for a lock its own CPU holds, and a CPU that is back in its *)
(* process has interrupts enabled again.                                   *)
LockDiscipline ==
    /\ ~panic
    /\ \A x, y \in Contexts : Inside(x) /\ pc[y] \in {"take", "inside", "release", "open"} => x = y
    /\ \A x \in Contexts : Inside(x) => Holding(CpuOf(x))
    /\ pc[Handler] # "idle" => pc[1] \in {"idle", "acquire", "asleep"}
    /\ \A c \in CPUs : (pc[c] \in {"idle", "asleep"} /\ (c = 1 => pc[Handler] = "idle"))
                         => iflag[c] /\ ncli[c] = 0

(* A process sleeps in consoleread() only while there is nothing to read   *)
(* and the ring has room for the keys that will wake it: a full ring or an *)
(* ended line leaves nobody asleep.  The ring never holds more than        *)
(* INPUT_BUF characters, also after the unsigned indices have wrapped.     *)
NoReaderLeftBehind ==
    /\ sleeping # {} => r = w /\ HasRoom
    /\ Plus(w, -r) + Plus(e, -w) <= INPUT_BUF

Span(i, k) == [j \in 1 .. k |-> buf[Plus(i, j - 1) % INPUT_BUF]]
T == INSTANCE Terminal WITH
       Readers <- CPUs, Room <- INPUT_BUF, Chars <- Stored, NewLine <- NL, Eof <- CtrlD,
       line <- Span(r, Plus(w, -r)), edit <- Span(w, Plus(e, -w)),
       got <- [p \in CPUs |-> job[p].got]

(* The ring, its three indices and the sleeping readers implement a        *)
(* terminal's lines: characters are edited until the line ends, then read  *)
(* in order, each once, and ^D ends a read.                                *)
TerminalRefinement == T!TermSpec
=============================================================================
