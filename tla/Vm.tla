--------------------------------- MODULE Vm ---------------------------------
(***************************************************************************)
(* Physical pages and address spaces: kalloc.c, vm.c, exec.c and their     *)
(* callers fork, sbrk, exit and wait.  Each kalloc() is a step, because    *)
(* processes compete for the last pages; giving pages back is one step.    *)
(* An address space is known by the page of its directory, as in the code. *)
(* Addresses are small numbers: PGSIZE bytes in a page, NPTE entries in a  *)
(* page table, WORD values in an unsigned int.  The content of pages is    *)
(* left out.                                                               *)
(***************************************************************************)
EXTENDS Integers, Sequences, FiniteSets

CONSTANTS
    NProcs, NPages, PGSIZE, NPTE,
    KERNBASE,    \* where the kernel begins
    WORD,        \* unsigned integers are modulo WORD
    Programs,    \* what exec() may find
    Amounts      \* what sbrk() may be given

ASSUME VmAssumption ==
    /\ {NProcs, NPages, PGSIZE, NPTE, KERNBASE, WORD} \subseteq Nat \ {0}
    /\ NPages >= 5   \* userinit() has the memory it needs
    /\ KERNBASE % (PGSIZE * NPTE) = 0 /\ 2 * PGSIZE < KERNBASE /\ 2 * KERNBASE <= WORD
    /\ Programs \subseteq [segs : Seq([vaddr : Nat, filesz : Nat, memsz : Nat, complete : BOOLEAN]),
                           args : Nat]
    /\ Amounts \subseteq Int

Procs == 1 .. NProcs
Pages == 1 .. NPages
NoPage == 0

PGROUNDUP(a) == ((a + PGSIZE - 1) \div PGSIZE) * PGSIZE
Vpn(a)  == a \div PGSIZE
PDX(v)  == v \div NPTE               \* the table of page v
KTable  == KERNBASE \div (PGSIZE * NPTE)   \* the table of the kernel's part

VARIABLES
    freelist,  \* the free pages
    space,     \* space[d]: the page tables and pages mapped by directory d
    proc,      \* state, kstack, pgdir and sz
    cr3,       \* cr3[p]: the directory p's CPU has loaded when p runs
    task,      \* task[p]: the call p is in, or NoTask
    emptied,   \* the processes that gave up all their pages with sbrk(-sz), for the properties
    panic

vars == <<freelist, space, proc, cr3, task, emptied, panic>>

Unused  == [state |-> "UNUSED", kstack |-> NoPage, pgdir |-> NoPage, sz |-> 0]
NoTask  == [op |-> "none"]
NoSpace == [tab |-> [i \in {} |-> NoPage], map |-> [v \in {} |-> NoPage]]

Put(g, x, y) == [z \in DOMAIN g \cup {x} |-> IF z = x THEN y ELSE g[z]]
Drop(g, S)   == [z \in DOMAIN g \ S |-> g[z]]

(* userinit(): the first process has a stack and one page. *)
Init ==
    LET d == 2 IN
    /\ space = [x \in {d} |-> [tab |-> [i \in {0, KTable} |-> IF i = KTable THEN 3 ELSE 4],
                               map |-> [v \in {0} |-> [page |-> 5, user |-> TRUE]]]]
    /\ freelist = Pages \ 1 .. 5
    /\ proc = [p \in Procs |-> IF p = 1
                 THEN [state |-> "LIVE", kstack |-> 1, pgdir |-> d, sz |-> PGSIZE] ELSE Unused]
    /\ cr3 = [p \in Procs |-> IF p = 1 THEN d ELSE NoPage]
    /\ task = [p \in Procs |-> NoTask]
    /\ emptied = {}
    /\ panic = FALSE

-----------------------------------------------------------------------------
(* Page tables.                                                            *)

Kalloc == CHOOSE g \in freelist : TRUE

Mapped(s) == {s.map[v].page : v \in DOMAIN s.map}
Tables(s) == {s.tab[i] : i \in DOMAIN s.tab}
PagesOf(d) == {d} \cup Mapped(space[d]) \cup Tables(space[d])

(* The user pages deallocuvm(pgdir, oldsz, newsz) frees. *)
BugDoomed(s, oldsz, newsz) == {v \in DOMAIN s.map : v >= Vpn(newsz) /\ v * PGSIZE < oldsz}
Doomed(s, oldsz, newsz) == {v \in DOMAIN s.map : v * PGSIZE >= PGROUNDUP(newsz) /\ v * PGSIZE < oldsz}

(* deallocuvm(): space and freelist afterwards. *)
deallocuvm(d, oldsz, newsz, extra) ==
    LET D == IF newsz >= oldsz THEN {} ELSE Doomed(space[d], oldsz, newsz) IN
    /\ space' = [space EXCEPT ![d].map = Drop(@, D)]
    /\ freelist' = freelist \cup {space[d].map[v].page : v \in D} \cup extra

(* freevm(), and kfree() of the pages in extra. *)
freevm(d, extra) ==
    /\ space' = Drop(space, {d})
    /\ freelist' = freelist \cup PagesOf(d) \cup extra

Goto(p, t) == task' = [task EXCEPT ![p] = t]

-----------------------------------------------------------------------------
(* allocuvm(t.dir, t.old, t.new), in sbrk() and exec().  t.a is the page   *)
(* to come next and t.mem a page allocated and not yet mapped.             *)

(* The loop begins, or there is nothing to do or no room below KERNBASE. *)
Alloc(t, old, new) == [t EXCEPT !.stage = "alloc", !.old = old, !.new = new, !.a = PGROUNDUP(old)]

Loop(p) == task[p].op \in {"sbrk", "exec"} /\ task[p].stage = "alloc"

TooLarge(t) == t.new >= KERNBASE
AllDone(t) == ~TooLarge(t) /\ (t.new < t.old \/ t.a >= t.new)
Result(t) == IF t.new < t.old THEN t.old ELSE t.new

(* kalloc() gives the page; mappages() finds the table or asks for one. *)
AllocPage(p) ==
    LET t == task[p]
        s == space[t.dir]
    IN
    /\ Loop(p) /\ ~TooLarge(t) /\ ~AllDone(t) /\ t.mem = NoPage /\ freelist # {}
    /\ freelist' = freelist \ {Kalloc}
    /\ IF PDX(Vpn(t.a)) \in DOMAIN s.tab
         THEN /\ space' = [space EXCEPT ![t.dir].map = Put(@, Vpn(t.a), [page |-> Kalloc, user |-> TRUE])]
              /\ Goto(p, [t EXCEPT !.a = @ + PGSIZE])
         ELSE /\ Goto(p, [t EXCEPT !.mem = Kalloc])
              /\ UNCHANGED space
    /\ UNCHANGED <<proc, cr3, emptied, panic>>

(* walkpgdir() makes the page table, then the page is mapped. *)
AllocTable(p) ==
    LET t == task[p]
        v == Vpn(t.a)
    IN
    /\ Loop(p) /\ t.mem # NoPage /\ freelist # {}
    /\ freelist' = freelist \ {Kalloc}
    /\ space' = [space EXCEPT ![t.dir] = [tab |-> Put(@.tab, PDX(v), Kalloc),
                                          map |-> Put(@.map, v, [page |-> t.mem, user |-> TRUE])]]
    /\ Goto(p, [t EXCEPT !.a = @ + PGSIZE, !.mem = NoPage])
    /\ UNCHANGED <<proc, cr3, emptied, panic>>

(* Out of memory: deallocuvm(newsz, oldsz), kfree(mem). *)
BugUndo(t) == deallocuvm(t.dir, t.new, t.old, {})
Undo(t) == deallocuvm(t.dir, t.new, t.old, {t.mem} \ {NoPage})

AllocFails(p) ==
    LET t == task[p] IN
    /\ Loop(p) /\ ~TooLarge(t) /\ ~AllDone(t) /\ freelist = {}
    /\ Undo(t)
    /\ Goto(p, [t EXCEPT !.stage = "failed", !.mem = NoPage])
    /\ UNCHANGED <<proc, cr3, emptied, panic>>

AllocTooLarge(p) ==
    /\ Loop(p) /\ TooLarge(task[p])
    /\ Goto(p, [task[p] EXCEPT !.stage = "failed"])
    /\ UNCHANGED <<freelist, space, proc, cr3, emptied, panic>>

-----------------------------------------------------------------------------
(* sys_sbrk() and growproc().                                              *)

(* A process that gave up its pages runs only on what the TLB remembers:   *)
(* as a bound, it makes no call here but fork() and exit().                *)
Running(p) == proc[p].state = "LIVE" /\ task[p] = NoTask
Resizes(p) == Running(p) /\ p \notin emptied

sbrkGrow(p, n) ==
    /\ Resizes(p) /\ n > 0
    /\ Goto(p, Alloc([op |-> "sbrk", stage |-> "", dir |-> proc[p].pgdir, old |-> 0, new |-> 0, a |-> 0,
                      mem |-> NoPage], proc[p].sz, (proc[p].sz + n) % WORD))
    /\ UNCHANGED <<freelist, space, proc, cr3, emptied, panic>>

sbrkGrown(p) ==
    /\ Loop(p) /\ task[p].op = "sbrk" /\ AllDone(task[p])
    /\ proc' = [proc EXCEPT ![p].sz = Result(task[p])]
    /\ Goto(p, NoTask)
    /\ UNCHANGED <<freelist, space, cr3, emptied, panic>>

sbrkFails(p) ==
    /\ task[p].op = "sbrk" /\ task[p].stage = "failed"
    /\ Goto(p, NoTask)
    /\ UNCHANGED <<freelist, space, proc, cr3, emptied, panic>>

(* A negative amount below -sz wraps around and frees nothing; one of -sz  *)
(* frees everything, and the 0 of deallocuvm() is taken for an error.      *)
ShrunkSize(sz, n) == (sz + n) % WORD

sbrkShrink(p, n) ==
    LET new == ShrunkSize(proc[p].sz, n) IN
    /\ Resizes(p) /\ n < 0
    /\ deallocuvm(proc[p].pgdir, proc[p].sz, new, {})
    /\ proc' = [proc EXCEPT ![p].sz = IF new >= @ \/ new = 0 THEN @ ELSE new]
    /\ emptied' = IF new = 0 THEN emptied \cup {p} ELSE emptied
    /\ UNCHANGED <<cr3, task, panic>>

-----------------------------------------------------------------------------
(* setupkvm(): the directory, then the table of the kernel's part.         *)

Setup(p) == task[p].op \in {"fork", "exec"} /\ task[p].stage \in {"setupkvm", "kernel"}

NewDirectory(p) ==
    /\ Setup(p) /\ task[p].stage = "setupkvm" /\ freelist # {}
    /\ freelist' = freelist \ {Kalloc}
    /\ space' = Put(space, Kalloc, NoSpace)
    /\ Goto(p, [task[p] EXCEPT !.stage = "kernel", !.dir = Kalloc])
    /\ UNCHANGED <<proc, cr3, emptied, panic>>

KernelPart(p) ==
    /\ Setup(p) /\ task[p].stage = "kernel" /\ freelist # {}
    /\ freelist' = freelist \ {Kalloc}
    /\ space' = [space EXCEPT ![task[p].dir].tab = Put(@, KTable, Kalloc)]
    /\ Goto(p, [task[p] EXCEPT !.stage = "load"])
    /\ UNCHANGED <<proc, cr3, emptied, panic>>

SetupFails(p) ==
    /\ Setup(p) /\ freelist = {}
    /\ IF task[p].stage = "kernel" THEN freevm(task[p].dir, {}) ELSE UNCHANGED <<space, freelist>>
    /\ Goto(p, [task[p] EXCEPT !.stage = "failed", !.dir = NoPage])
    /\ UNCHANGED <<proc, cr3, emptied, panic>>

-----------------------------------------------------------------------------
(* fork(): allocproc() takes the stack, copyuvm() the rest.                *)

fork(p, q) ==
    /\ Running(p) /\ proc[q].state = "UNUSED" /\ freelist # {}
    /\ freelist' = freelist \ {Kalloc}
    /\ proc' = [proc EXCEPT ![q] = [Unused EXCEPT !.state = "EMBRYO", !.kstack = Kalloc]]
    /\ Goto(p, [op |-> "fork", stage |-> "setupkvm", child |-> q, dir |-> NoPage, a |-> 0, mem |-> NoPage])
    /\ UNCHANGED <<space, cr3, emptied, panic>>

Copying(p) == task[p].op = "fork" /\ task[p].stage = "load" /\ task[p].a < proc[p].sz

(* copyuvm() relies on every page below sz. *)
Present(p) == Vpn(task[p].a) \in DOMAIN space[proc[p].pgdir].map

CopyPanics(p) ==
    /\ Copying(p) /\ ~Present(p)
    /\ panic' = TRUE
    /\ UNCHANGED <<freelist, space, proc, cr3, task, emptied>>

CopyPage(p) ==
    LET t == task[p]
        v == Vpn(t.a)
        page == IF t.mem = NoPage THEN Kalloc ELSE t.mem
        mapped == Put(space[t.dir].map, v, [space[proc[p].pgdir].map[v] EXCEPT !.page = page])
        tab == space[t.dir].tab
    IN
    /\ Copying(p) /\ Present(p) /\ freelist # {}
    /\ freelist' = freelist \ {Kalloc}
    /\ IF t.mem = NoPage /\ PDX(v) \notin DOMAIN tab
         THEN Goto(p, [t EXCEPT !.mem = Kalloc]) /\ UNCHANGED space
         ELSE /\ space' = [space EXCEPT ![t.dir] =
                             [map |-> mapped, tab |-> IF t.mem = NoPage THEN tab ELSE Put(tab, PDX(v), Kalloc)]]
              /\ Goto(p, [t EXCEPT !.a = @ + PGSIZE, !.mem = NoPage])
    /\ UNCHANGED <<proc, cr3, emptied, panic>>

CopyFails(p) ==
    /\ Copying(p) /\ Present(p) /\ freelist = {}
    /\ freevm(task[p].dir, {task[p].mem} \ {NoPage})
    /\ Goto(p, [task[p] EXCEPT !.stage = "failed", !.dir = NoPage, !.mem = NoPage])
    /\ UNCHANGED <<proc, cr3, emptied, panic>>

(* The child gets the copy; or its stack is given back. *)
ForkDone(p) ==
    LET t == task[p] IN
    /\ t.op = "fork" /\ t.stage = "load" /\ t.a >= proc[p].sz
    /\ proc' = [proc EXCEPT ![t.child] = [@ EXCEPT !.state = "LIVE", !.pgdir = t.dir, !.sz = proc[p].sz]]
    /\ cr3' = [cr3 EXCEPT ![t.child] = t.dir]
    /\ Goto(p, NoTask)
    /\ UNCHANGED <<freelist, space, emptied, panic>>

ForkFails(p) ==
    LET q == task[p].child IN
    /\ task[p].op = "fork" /\ task[p].stage = "failed"
    /\ freelist' = freelist \cup {proc[q].kstack}
    /\ proc' = [proc EXCEPT ![q] = Unused]
    /\ Goto(p, NoTask)
    /\ UNCHANGED <<space, cr3, emptied, panic>>

(* exit(): the scheduler loads the kernel's directory; wait() of the       *)
(* parent frees stack and address space.                                   *)
exit(p) ==
    /\ Running(p) /\ p # 1
    /\ proc' = [proc EXCEPT ![p].state = "ZOMBIE"]
    /\ cr3' = [cr3 EXCEPT ![p] = NoPage]
    /\ UNCHANGED <<freelist, space, task, emptied, panic>>

wait(q) ==
    /\ proc[q].state = "ZOMBIE"
    /\ freevm(proc[q].pgdir, {proc[q].kstack})
    /\ proc' = [proc EXCEPT ![q] = Unused]
    /\ emptied' = emptied \ {q}
    /\ UNCHANGED <<cr3, task, panic>>

-----------------------------------------------------------------------------
(* exec().  A program has segments of vaddr, filesz, memsz, whether its    *)
(* file is long enough, and the bytes its arguments take.                  *)

exec(p, g) ==
    /\ Resizes(p)
    /\ Goto(p, [op |-> "exec", stage |-> "setupkvm", segs |-> g.segs, args |-> g.args, sz |-> 0,
                dir |-> NoPage, old |-> 0, new |-> 0, a |-> 0, mem |-> NoPage])
    /\ UNCHANGED <<freelist, space, proc, cr3, emptied, panic>>

Loading(p) == task[p].op = "exec" /\ task[p].stage = "load"
Seg(p)  == Head(task[p].segs)
SegEnd(g) == (g.vaddr + g.memsz) % WORD
BadHeader(g) == g.memsz < g.filesz \/ SegEnd(g) < g.vaddr

ExecSegment(p) ==
    /\ Loading(p) /\ task[p].segs # <<>>
    /\ Goto(p, IF BadHeader(Seg(p)) THEN [task[p] EXCEPT !.stage = "failed"]
               ELSE Alloc(task[p], task[p].sz, SegEnd(Seg(p))))
    /\ UNCHANGED <<freelist, space, proc, cr3, emptied, panic>>

(* allocuvm() returned; 0 means failure.  Then the alignment test and      *)
(* loaduvm().                                                              *)
ExecLoad(p) ==
    LET t == task[p] IN
    /\ Loop(p) /\ t.op = "exec" /\ AllDone(t) /\ t.segs # <<>>
    /\ Goto(p, IF Result(t) = 0 \/ Seg(p).vaddr % PGSIZE # 0 \/ ~Seg(p).complete
                 THEN [t EXCEPT !.stage = "failed"]
                 ELSE [t EXCEPT !.stage = "load", !.sz = Result(t), !.segs = Tail(@)])
    /\ UNCHANGED <<freelist, space, proc, cr3, emptied, panic>>

(* Two pages at the next page boundary. *)
ExecStack(p) ==
    LET base == PGROUNDUP(task[p].sz) IN
    /\ Loading(p) /\ task[p].segs = <<>>
    /\ Goto(p, Alloc([task[p] EXCEPT !.sz = base], base, (base + 2 * PGSIZE) % WORD))
    /\ UNCHANGED <<freelist, space, proc, cr3, emptied, panic>>

(* clearpteu() on the first; copyout() of the arguments into the second    *)
(* runs into it when there are too many.                                   *)
ExecArgs(p) ==
    LET t == task[p]
        guard == Vpn(t.new) - 2
    IN
    /\ Loop(p) /\ t.op = "exec" /\ AllDone(t) /\ t.segs = <<>>
    /\ space' = [space EXCEPT ![t.dir].map[guard].user = FALSE]
    /\ Goto(p, [t EXCEPT !.stage = IF t.args > PGSIZE THEN "failed" ELSE "commit", !.sz = t.new])
    /\ UNCHANGED <<freelist, proc, cr3, emptied, panic>>

(* Commit to the new image: pgdir, sz, switchuvm(); then free the old one. *)
Loaded(p) == [cr3 EXCEPT ![p] = task[p].dir]

ExecCommit(p) ==
    LET t == task[p] IN
    /\ t.op = "exec" /\ t.stage = "commit"
    /\ proc' = [proc EXCEPT ![p] = [@ EXCEPT !.pgdir = t.dir, !.sz = t.sz]]
    /\ cr3' = Loaded(p)
    /\ freevm(proc[p].pgdir, {})
    /\ Goto(p, NoTask)
    /\ UNCHANGED <<emptied, panic>>

ExecFails(p) ==
    LET t == task[p] IN
    /\ t.op = "exec" /\ t.stage = "failed"
    /\ IF t.dir # NoPage THEN freevm(t.dir, {}) ELSE UNCHANGED <<space, freelist>>
    /\ Goto(p, NoTask)
    /\ UNCHANGED <<proc, cr3, emptied, panic>>

-----------------------------------------------------------------------------
Step ==
    /\ ~panic
    /\ \E p \in Procs :
         \/ \E n \in Amounts : sbrkGrow(p, n) \/ sbrkShrink(p, n)
         \/ sbrkGrown(p) \/ sbrkFails(p)
         \/ AllocPage(p) \/ AllocTable(p) \/ AllocFails(p) \/ AllocTooLarge(p)
         \/ NewDirectory(p) \/ KernelPart(p) \/ SetupFails(p)
         \/ \E q \in Procs : fork(p, q)
         \/ CopyPage(p) \/ CopyFails(p) \/ CopyPanics(p) \/ ForkDone(p) \/ ForkFails(p)
         \/ exit(p) \/ wait(p)
         \/ \E g \in Programs : exec(p, g)
         \/ ExecSegment(p) \/ ExecLoad(p) \/ ExecStack(p) \/ ExecArgs(p) \/ ExecCommit(p) \/ ExecFails(p)

Stopped == panic /\ UNCHANGED vars

Next == Step \/ Stopped

Spec == Init /\ [][Next]_vars

-----------------------------------------------------------------------------
(* How many uses page g has: free, a stack, just allocated, a directory, a *)
(* page table, a mapped page.                                              *)
Uses(g) ==
    Cardinality({x \in {"free"} : g \in freelist})
    + Cardinality({p \in Procs : proc[p].kstack = g})
    + Cardinality({p \in Procs : task[p] # NoTask /\ task[p].mem = g})
    + Cardinality({d \in DOMAIN space : d = g})
    + Cardinality({x \in (DOMAIN space) \X (0 .. KTable) :
                     x[2] \in DOMAIN space[x[1]].tab /\ space[x[1]].tab[x[2]] = g})
    + Cardinality({x \in (DOMAIN space) \X (0 .. Vpn(KERNBASE)) :
                     x[2] \in DOMAIN space[x[1]].map /\ space[x[1]].map[x[2]].page = g})
HolderOf(d) == {p \in Procs : proc[p].pgdir = d}
               \cup {p + NProcs : p \in {x \in Procs : task[x].op \in {"fork", "exec"} /\ task[x].dir = d}}

(* Every page has exactly one use: none is lost by a fork, exec or sbrk    *)
(* that fails half way, none is used twice or freed while it is in use,    *)
(* and the directory a CPU has loaded is that of its process, and exists.  *)
PageOwnership ==
    /\ \A g \in Pages : Uses(g) = 1
    /\ \A d \in DOMAIN space : Cardinality(HolderOf(d)) = 1
    /\ \A p \in Procs : proc[p].state = "LIVE" => cr3[p] \in DOMAIN space /\ cr3[p] = proc[p].pgdir

(* A live process has exactly the pages below its size, with a table for   *)
(* each, and none of the kernel's part: so copyuvm() and the checks of     *)
(* user pointers may rely on sz.  The one exception is sbrk(-sz), which    *)
(* frees the pages and keeps sz: only then does copyuvm() panic.           *)
ImageMatchesSize ==
    /\ panic => emptied # {}
    /\ \A p \in Procs \ emptied :
         proc[p].state = "LIVE" /\ task[p].op \in {"none", "fork", "exec"} =>
           LET s == space[proc[p].pgdir] IN
           /\ proc[p].sz < KERNBASE
           /\ DOMAIN s.map = {v \in 0 .. Vpn(KERNBASE) : v * PGSIZE < proc[p].sz}
           /\ \A v \in DOMAIN s.map : PDX(v) \in DOMAIN s.tab
=============================================================================
