------------------------------ MODULE VmProofs ------------------------------
(***************************************************************************)
(* Every page has one use and every image matches its process's size, for  *)
(* any number of processes and pages, any sizes of pages, tables and the   *)
(* address space, and any programs.                                        *)
(***************************************************************************)
EXTENDS Vm, FiniteSetTheorems, TLAPS

Below(b) == {v \in 0 .. Vpn(KERNBASE) : v * PGSIZE < b}

MaybePage == Pages \cup {NoPage}
Partial(S, T) == UNION {[D -> T] : D \in SUBSET S}
Entries == [page : Pages, user : BOOLEAN]
Spaces  == [tab : Partial(0 .. KTable, Pages), map : Partial(0 .. Vpn(KERNBASE), Entries)]
Segments == Seq([vaddr : Nat, filesz : Nat, memsz : Nat, complete : BOOLEAN])

SbrkTasks == [op : {"sbrk"}, stage : {"alloc", "failed"}, dir : Pages, old : Nat, new : Nat,
              a : Nat, mem : MaybePage]
ForkTasks == [op : {"fork"}, stage : {"setupkvm", "kernel", "load", "failed"}, child : Procs,
              dir : MaybePage, a : Nat, mem : MaybePage]
ExecTasks == [op : {"exec"}, stage : {"setupkvm", "kernel", "load", "alloc", "commit", "failed"},
              segs : Segments, args : Nat, sz : Nat, dir : MaybePage, old : Nat, new : Nat,
              a : Nat, mem : MaybePage]
Calls == {NoTask} \cup SbrkTasks \cup ForkTasks \cup ExecTasks

VmTypeOK ==
    /\ freelist \in SUBSET Pages
    /\ DOMAIN space \in SUBSET Pages /\ space \in [DOMAIN space -> Spaces]
    /\ proc \in [Procs -> [state : {"UNUSED", "EMBRYO", "LIVE", "ZOMBIE"}, kstack : MaybePage,
                           pgdir : MaybePage, sz : Nat]]
    /\ cr3 \in [Procs -> MaybePage]
    /\ task \in [Procs -> Calls]
    /\ emptied \in SUBSET Procs /\ panic \in BOOLEAN

Building(p) == IF task[p].op \in {"fork", "exec"} THEN task[p].dir ELSE NoPage
Spare(p)    == IF task[p].op # "none" THEN task[p].mem ELSE NoPage

(* Who holds which page: the processes' slots, the tables of each directory *)
(* and the pages it maps.                                                  *)
SlotKinds == {"stack", "pgdir", "mem", "newdir"}
Slot(c, p) == CASE c = "stack" -> proc[p].kstack [] c = "pgdir" -> proc[p].pgdir
                [] c = "mem" -> Spare(p) [] c = "newdir" -> Building(p)
Slots == [c \in SlotKinds |-> [p \in Procs |-> Slot(c, p)]]
Tabs  == [d \in DOMAIN space |-> space[d].tab]
Maps  == [d \in DOMAIN space |-> [v \in DOMAIN space[d].map |-> space[d].map[v].page]]

(* kind[g] says what page g is used for, of[g] by which process or          *)
(* directory, at[g] at which place of it.                                  *)
Kinds == SlotKinds \cup {"free", "table", "mapped"}
FreePart(fr, kind) == \A g \in Pages : g \in fr <=> kind[g] = "free"
SlotPart(h, kind, of) == \A g \in Pages :
    /\ \A c \in SlotKinds, p \in Procs : h[c][p] = g <=> kind[g] = c /\ of[g] = p
    /\ kind[g] \in SlotKinds => of[g] \in Procs
EntryPart(c, f, kind, of, at) == \A g \in Pages :
    /\ \A d \in DOMAIN f : \A i \in DOMAIN f[d] : f[d][i] = g <=> kind[g] = c /\ of[g] = d /\ at[g] = i
    /\ kind[g] = c => of[g] \in DOMAIN f /\ at[g] \in DOMAIN f[of[g]]
Owned(fr, h, tabs, maps, kind, of, at) ==
    /\ FreePart(fr, kind) /\ SlotPart(h, kind, of)
    /\ EntryPart("table", tabs, kind, of, at) /\ EntryPart("mapped", maps, kind, of, at)
Exact(fr, h, tabs, maps) ==
    \E kind \in [Pages -> Kinds], of \in [Pages -> Nat], at \in [Pages -> Nat] :
      Owned(fr, h, tabs, maps, kind, of, at)

PageInv == Exact(freelist, Slots, Tabs, Maps)
DirInv  == \A d \in Pages :
    d \in DOMAIN space <=> \E p \in Procs : proc[p].pgdir = d \/ Building(p) = d

ProcInv(p) ==
    /\ proc[p].state = "UNUSED" => proc[p].kstack = NoPage /\ proc[p].pgdir = NoPage
    /\ proc[p].state = "EMBRYO" => proc[p].kstack # NoPage /\ proc[p].pgdir = NoPage
    /\ proc[p].state \in {"LIVE", "ZOMBIE"} =>
         proc[p].kstack # NoPage /\ proc[p].pgdir # NoPage /\ proc[p].sz < KERNBASE
    /\ proc[p].state = "LIVE" => cr3[p] = proc[p].pgdir
    /\ task[p].op # "none" => proc[p].state = "LIVE"
    /\ p \in emptied => proc[p].state \in {"LIVE", "ZOMBIE"} /\ task[p].op \in {"none", "fork"}

(* The child of a fork has nobody else. *)
ChildInv == \A p \in Procs : task[p].op = "fork" =>
    /\ proc[task[p].child].state = "EMBRYO"
    /\ \A q \in Procs : task[q].op = "fork" /\ task[q].child = task[p].child => p = q

NoTable(t) == PDX(Vpn(t.a)) \notin DOMAIN space[t.dir].tab

AllocInv(t) ==
    /\ t.a % PGSIZE = 0 /\ t.old <= KERNBASE /\ PGROUNDUP(t.old) <= t.a
    /\ t.a = PGROUNDUP(t.old) \/ (t.a < t.new + PGSIZE /\ t.new < KERNBASE)
    /\ DOMAIN space[t.dir].map = Below(t.a)
    /\ t.mem # NoPage => t.a < t.new /\ t.new < KERNBASE /\ NoTable(t)

SbrkInv(p) == LET t == task[p] IN
    /\ t.dir = proc[p].pgdir /\ t.old = proc[p].sz
    /\ t.stage = "alloc" => AllocInv(t)
    /\ t.stage = "failed" => t.mem = NoPage

ForkInv(p) == LET t == task[p] IN
    /\ t.stage \in {"setupkvm", "failed"} => t.dir = NoPage
    /\ t.stage \in {"setupkvm", "kernel"} => t.a = 0
    /\ t.stage \in {"kernel", "load"} => t.dir # NoPage
    /\ t.stage = "kernel" => space[t.dir] = NoSpace
    /\ t.stage # "load" => t.mem = NoPage
    /\ t.stage = "load" =>
         /\ t.a % PGSIZE = 0 /\ (t.a = 0 \/ (p \notin emptied /\ t.a < proc[p].sz + PGSIZE))
         /\ DOMAIN space[t.dir].map = Below(t.a)
         /\ t.mem # NoPage => t.a < proc[p].sz /\ NoTable(t)

ExecInv(p) == LET t == task[p] IN
    /\ t.stage = "setupkvm" => t.dir = NoPage
    /\ t.stage \in {"setupkvm", "kernel"} => t.sz = 0
    /\ t.stage \notin {"setupkvm", "failed"} => t.dir # NoPage
    /\ t.stage = "kernel" => space[t.dir] = NoSpace
    /\ t.stage # "alloc" => t.mem = NoPage
    /\ t.stage \in {"load", "commit"} => t.sz <= KERNBASE /\ DOMAIN space[t.dir].map = Below(t.sz)
    /\ t.stage = "commit" => t.sz < KERNBASE
    /\ t.stage = "alloc" => AllocInv(t) /\ (t.segs = <<>> => t.old % PGSIZE = 0 /\ t.new = t.old + 2 * PGSIZE)

ImageInv(p) ==
    proc[p].state = "LIVE" /\ ~(task[p].op = "sbrk" /\ task[p].stage = "alloc") =>
      DOMAIN space[proc[p].pgdir].map = IF p \in emptied THEN {} ELSE Below(proc[p].sz)

(* What process p relies on. *)
Own(p) ==
    /\ ProcInv(p) /\ ImageInv(p)
    /\ task[p].op = "sbrk" => SbrkInv(p)
    /\ task[p].op = "fork" => ForkInv(p)
    /\ task[p].op = "exec" => ExecInv(p)

Tabled(s) == \A v \in DOMAIN s.map : PDX(v) \in DOMAIN s.tab

VmInv ==
    /\ VmTypeOK /\ PageInv /\ DirInv /\ ChildInv
    /\ \A p \in Procs : Own(p)
    /\ \A d \in DOMAIN space : Tabled(space[d])
    /\ panic => emptied # {}

-----------------------------------------------------------------------------
(* Arithmetic of addresses.                                                *)

(* What the assumption on the constants gives. *)
LEMMA Constants ==
  /\ NProcs \in Nat \ {0} /\ NPages \in Nat /\ NPages >= 5 /\ PGSIZE \in Nat \ {0} /\ NPTE \in Nat \ {0}
  /\ KERNBASE \in Nat /\ WORD \in Nat \ {0} /\ 2 * PGSIZE < KERNBASE /\ 2 * KERNBASE <= WORD
  /\ Amounts \subseteq Int
<1>1. {NProcs, NPages, PGSIZE, NPTE, KERNBASE, WORD} \subseteq Nat \ {0} /\ NPages >= 5
      /\ Amounts \subseteq Int /\ 2 * PGSIZE < KERNBASE /\ 2 * KERNBASE <= WORD
  BY VmAssumption, Zenon
<1> QED BY <1>1

(* Quotient and remainder. *)
LEMMA DivMod ==
  ASSUME NEW a \in Int, NEW n \in Nat \ {0}
  PROVE  a = (a \div n) * n + (a % n) /\ a \div n \in Int /\ a % n \in 0 .. n - 1
BY Z3

(* They are unique. *)
LEMMA DivUnique ==
  ASSUME NEW n \in Nat \ {0}, NEW q \in Int, NEW a \in 0 .. n - 1
  PROVE  (q * n + a) \div n = q /\ (q * n + a) % n = a
BY Z3

(* The kernel's part begins with a page table of its own. *)
LEMMA KernelBase ==
  /\ KTable \in Nat \ {0} /\ Vpn(KERNBASE) = KTable * NPTE /\ Vpn(KERNBASE) * PGSIZE = KERNBASE
  /\ Vpn(KERNBASE) \in Nat /\ KERNBASE % PGSIZE = 0
<1> USE Constants
<1> DEFINE m == PGSIZE * NPTE
<1>1. m \in Nat \ {0} OBVIOUS
<1>2. KERNBASE % m = 0 BY VmAssumption
<1> HIDE DEF m
<1>3. KERNBASE = KTable * m /\ KTable \in Int
  <2>1. KTable = KERNBASE \div m BY DEF KTable, m
  <2>2. KERNBASE \in Int /\ m \in Nat \ {0} BY <1>1
  <2>3. KERNBASE = (KERNBASE \div m) * m + (KERNBASE % m) /\ KERNBASE \div m \in Int
    BY <2>2, DivMod, Zenon
  <2> QED BY <1>1, <1>2, <2>1, <2>3
<1>4. KTable >= 1
  <2>1. CASE KTable <= 0
    <3>1. KTable * m <= 0 BY <1>1, <1>3, <2>1
    <3> QED BY <1>3, <3>1
  <2> QED BY <1>3, <2>1
<1>5. PICK k : k = KTable OBVIOUS
<1>6. KERNBASE = (k * NPTE) * PGSIZE + 0 /\ k * NPTE \in Nat BY <1>3, <1>4, <1>5 DEF m
<1>7. Vpn(KERNBASE) = k * NPTE /\ KERNBASE % PGSIZE = 0
  <2>1. PICK j \in Nat : j = k * NPTE BY <1>6
  <2>2. (j * PGSIZE + 0) \div PGSIZE = j /\ (j * PGSIZE + 0) % PGSIZE = 0 BY DivUnique
  <2>3. KERNBASE = j * PGSIZE + 0 BY <1>6, <2>1
  <2> QED BY <2>1, <2>2, <2>3 DEF Vpn
<1> QED BY <1>3, <1>4, <1>5, <1>6, <1>7

(* The page boundaries are the multiples of PGSIZE. *)
LEMMA Multiple ==
  /\ \A k \in Int : (k * PGSIZE) % PGSIZE = 0
  /\ \A a \in Int : a % PGSIZE = 0 => a \div PGSIZE \in Int /\ a = (a \div PGSIZE) * PGSIZE
<1> USE Constants
<1>1. ASSUME NEW k \in Int PROVE (k * PGSIZE) % PGSIZE = 0
  <2>1. (k * PGSIZE + 0) % PGSIZE = 0 BY DivUnique
  <2> QED BY <2>1
<1>2. ASSUME NEW a \in Int, a % PGSIZE = 0 PROVE a \div PGSIZE \in Int /\ a = (a \div PGSIZE) * PGSIZE
  <2>1. a = (a \div PGSIZE) * PGSIZE + (a % PGSIZE) /\ a \div PGSIZE \in Int BY DivMod
  <2> QED BY <1>2, <2>1
<1> QED BY <1>1, <1>2

(* PGROUNDUP() gives the next page boundary. *)
LEMMA RoundUp ==
  ASSUME NEW b \in Nat
  PROVE  /\ PGROUNDUP(b) \in Nat /\ PGROUNDUP(b) % PGSIZE = 0
         /\ b <= PGROUNDUP(b) /\ PGROUNDUP(b) < b + PGSIZE
         /\ b % PGSIZE = 0 => PGROUNDUP(b) = b
         /\ b <= KERNBASE => PGROUNDUP(b) <= KERNBASE
<1> USE Constants
<1> PICK c \in Int : c = b + PGSIZE - 1 OBVIOUS
<1> DEFINE q == c \div PGSIZE
<1>1. c = q * PGSIZE + (c % PGSIZE) /\ q \in Int /\ c % PGSIZE \in 0 .. PGSIZE - 1 BY DivMod
<1>2. PGROUNDUP(b) = q * PGSIZE BY DEF PGROUNDUP
<1> HIDE DEF q
<1>3. q * PGSIZE >= b /\ q * PGSIZE < b + PGSIZE BY <1>1
<1>4. (q * PGSIZE) % PGSIZE = 0 BY <1>1, Multiple
<1>5. ASSUME NEW e \in Nat, e % PGSIZE = 0, b <= e PROVE q * PGSIZE <= e
  <2>1. PICK j \in Int : e = j * PGSIZE BY <1>5, Multiple
  <2>2. (q - j) * PGSIZE < PGSIZE BY <1>3, <1>5, <2>1, <1>1
  <2>3. q - j <= 0 BY <2>2, <1>1, <2>1
  <2>4. (j - q) * PGSIZE >= 0 BY <2>3, <1>1, <2>1
  <2> QED BY <2>1, <2>4, <1>1
<1>6. b % PGSIZE = 0 => q * PGSIZE = b
  <2>1. b % PGSIZE = 0 => q * PGSIZE <= b BY <1>5
  <2>2. q * PGSIZE \in Int BY <1>1
  <2> QED BY <1>3, <2>1, <2>2
<1>7. b <= KERNBASE => q * PGSIZE <= KERNBASE BY <1>5, KernelBase
<1> QED BY <1>1, <1>2, <1>3, <1>4, <1>6, <1>7

(* The next page to allocate: the page at a boundary below KERNBASE. *)
LEMMA NextPage ==
  ASSUME NEW a \in Nat, a % PGSIZE = 0, a < KERNBASE
  PROVE  /\ Vpn(a) \in 0 .. Vpn(KERNBASE) /\ Vpn(a) * PGSIZE = a
         /\ Vpn(a) \notin Below(a) /\ Below(a + PGSIZE) = Below(a) \cup {Vpn(a)}
         /\ PDX(Vpn(a)) \in 0 .. KTable /\ PDX(Vpn(a)) # KTable
         /\ (a + PGSIZE) % PGSIZE = 0
<1> USE Constants, KernelBase
<1>1. PICK v \in Int : v = Vpn(a) /\ a = v * PGSIZE BY Multiple DEF Vpn
<1>2. PICK k \in Nat : k = Vpn(KERNBASE) OBVIOUS
<1>3. v >= 0
  <2>1. CASE v <= -1
    <3>1. (-v) * PGSIZE >= 1 BY <1>1, <2>1
    <3> QED BY <1>1, <3>1
  <2> QED BY <1>1, <2>1
<1>4. v < k
  <2>1. CASE v >= k
    <3>1. (v - k) * PGSIZE >= 0 BY <1>1, <1>2, <2>1
    <3> QED BY <1>1, <1>2, <3>1
  <2> QED BY <1>1, <1>2, <2>1
<1>5. ASSUME NEW u \in Nat PROVE u * PGSIZE < a + PGSIZE <=> (u * PGSIZE < a \/ u = v)
  <2>1. u * PGSIZE < a + PGSIZE <=> (u - v) * PGSIZE < PGSIZE BY <1>1
  <2>2. (u - v) * PGSIZE < PGSIZE <=> u - v <= 0
    <3>1. CASE u - v <= 0
      <4>1. (v - u) * PGSIZE >= 0 BY <1>1, <3>1
      <4> QED BY <1>1, <3>1, <4>1
    <3>2. CASE u - v >= 1
      <4>1. (u - v - 1) * PGSIZE >= 0 BY <1>1, <3>2
      <4> QED BY <1>1, <3>2, <4>1
    <3> QED BY <1>1, <3>1, <3>2
  <2>3. u * PGSIZE < a <=> (u - v) * PGSIZE < 0 BY <1>1
  <2>4. (u - v) * PGSIZE < 0 <=> u - v < 0
    <3>1. CASE u - v >= 0 BY <1>1, <3>1
    <3>2. CASE v - u >= 1
      <4>1. (v - u - 1) * PGSIZE >= 0 BY <1>1, <3>2
      <4> QED BY <1>1, <3>2, <4>1
    <3> QED BY <1>1, <3>1, <3>2
  <2> QED BY <1>1, <2>1, <2>2, <2>3, <2>4
<1>6. Below(a + PGSIZE) = Below(a) \cup {v} BY <1>1, <1>2, <1>3, <1>4, <1>5 DEF Below
<1>7. v \notin Below(a) BY <1>1 DEF Below
<1>8. v \div NPTE \in 0 .. KTable /\ v \div NPTE # KTable
  <2>1. PICK j \in Int, r \in 0 .. NPTE - 1 : j = v \div NPTE /\ v = j * NPTE + r BY <1>1, DivMod, ZenonT(60)
  <2>2. PICK t \in Nat : t = KTable /\ k = t * NPTE BY <1>2
  <2>3. j < t
    <3>1. CASE j >= t
      <4>1. (j - t) * NPTE >= 0 BY <2>1, <2>2, <3>1
      <4> QED BY <2>1, <2>2, <4>1, <1>4
    <3> QED BY <2>1, <2>2, <3>1
  <2>4. j >= 0
    <3>1. CASE j <= -1
      <4>1. (-1 - j) * NPTE >= 0 BY <2>1, <3>1
      <4> QED BY <2>1, <4>1, <1>3
    <3> QED BY <2>1, <3>1
  <2> QED BY <2>1, <2>2, <2>3, <2>4
<1>9. (a + PGSIZE) % PGSIZE = 0
  <2>1. PICK w \in Int : w = v + 1 BY <1>1
  <2>2. (w * PGSIZE) % PGSIZE = 0 BY Multiple
  <2>3. w * PGSIZE = v * PGSIZE + PGSIZE BY <2>1
  <2>4. a + PGSIZE = w * PGSIZE BY <1>1, <2>3
  <2> QED BY <2>2, <2>4
<1> QED BY <1>1, <1>2, <1>3, <1>4, <1>6, <1>7, <1>8, <1>9 DEF PDX

(* No boundary lies between b and the first boundary a from b on. *)
LEMMA SamePages ==
  ASSUME NEW a \in Nat, NEW b \in Nat, a % PGSIZE = 0, b <= a, a < b + PGSIZE
  PROVE  Below(a) = Below(b)
<1> USE Constants
<1>1. PICK k \in Int : a = k * PGSIZE BY Multiple
<1>2. ASSUME NEW u \in Nat, u * PGSIZE < a PROVE u * PGSIZE < b
  <2>1. (k - u) * PGSIZE > 0 BY <1>1, <1>2
  <2>2. k - u >= 1
    <3>1. CASE k - u <= 0
      <4>1. (u - k) * PGSIZE >= 0 BY <1>1, <3>1
      <4> QED BY <2>1, <4>1, <1>1
    <3> QED BY <1>1, <3>1
  <2>3. (k - u - 1) * PGSIZE >= 0 BY <1>1, <2>2
  <2> QED BY <1>1, <2>3
<1>3. ASSUME NEW u \in Nat PROVE u * PGSIZE < a <=> u * PGSIZE < b
  <2>1. u * PGSIZE \in Int OBVIOUS
  <2> QED BY <1>2, <2>1
<1>4. 0 .. Vpn(KERNBASE) \subseteq Nat OBVIOUS
<1> QED BY <1>3, <1>4, Zenon DEF Below

(* No page lies below address 0. *)
LEMMA BelowZero == Below(0) = {}
BY Constants, KernelBase DEF Below
-----------------------------------------------------------------------------
(* Types.                                                                  *)

(* Page 0 is no page. *)
LEMMA NoPageIsNone == NoPage \notin Pages /\ Pages \subseteq Nat /\ 0 \notin Procs /\ Procs \subseteq Nat
BY Constants DEF NoPage, Pages, Procs

(* A partial function. *)
LEMMA PartialFun ==
  ASSUME NEW S, NEW T, NEW f
  PROVE  f \in Partial(S, T) <=> DOMAIN f \subseteq S /\ f \in [DOMAIN f -> T]
BY DEF Partial

(* Setting an entry. *)
LEMMA PutPartial ==
  ASSUME NEW S, NEW T, NEW f \in Partial(S, T), NEW x \in S, NEW y \in T
  PROVE  /\ Put(f, x, y) \in Partial(S, T) /\ DOMAIN Put(f, x, y) = DOMAIN f \cup {x}
         /\ Put(f, x, y)[x] = y /\ \A z \in DOMAIN f \ {x} : Put(f, x, y)[z] = f[z]
<1>1. DOMAIN f \subseteq S /\ f \in [DOMAIN f -> T] BY PartialFun
<1>2. Put(f, x, y) \in [DOMAIN f \cup {x} -> T] BY <1>1 DEF Put
<1>3. DOMAIN Put(f, x, y) = DOMAIN f \cup {x} BY DEF Put
<1>4. Put(f, x, y) \in Partial(S, T) BY <1>1, <1>2, <1>3, PartialFun
<1> QED BY <1>3, <1>4 DEF Put

(* Dropping entries. *)
LEMMA DropPartial ==
  ASSUME NEW S, NEW T, NEW f \in Partial(S, T), NEW X
  PROVE  /\ Drop(f, X) \in Partial(S, T) /\ DOMAIN Drop(f, X) = DOMAIN f \ X
         /\ \A z \in DOMAIN f \ X : Drop(f, X)[z] = f[z]
<1>1. DOMAIN f \subseteq S /\ f \in [DOMAIN f -> T] BY PartialFun
<1>2. Drop(f, X) \in [DOMAIN f \ X -> T] BY <1>1 DEF Drop
<1>3. DOMAIN Drop(f, X) = DOMAIN f \ X BY DEF Drop
<1>4. Drop(f, X) \in Partial(S, T) BY <1>1, <1>2, <1>3, PartialFun
<1> QED BY <1>3, <1>4 DEF Drop

(* The parts of an address space. *)
LEMMA SpaceFields ==
  ASSUME VmTypeOK, NEW d \in DOMAIN space
  PROVE  /\ d \in Pages /\ space[d] = [tab |-> space[d].tab, map |-> space[d].map]
         /\ space[d].tab \in Partial(0 .. KTable, Pages)
         /\ space[d].map \in Partial(0 .. Vpn(KERNBASE), Entries)
         /\ \A i \in DOMAIN space[d].tab : i \in 0 .. KTable /\ space[d].tab[i] \in Pages
         /\ \A v \in DOMAIN space[d].map : /\ v \in 0 .. Vpn(KERNBASE) /\ space[d].map[v] \in Entries
                                           /\ space[d].map[v].page \in Pages
<1>1. d \in Pages /\ space[d] \in Spaces BY DEF VmTypeOK
<1>2. /\ space[d] = [tab |-> space[d].tab, map |-> space[d].map]
      /\ space[d].tab \in Partial(0 .. KTable, Pages)
      /\ space[d].map \in Partial(0 .. Vpn(KERNBASE), Entries)
  BY <1>1 DEF Spaces
<1>3. space[d].tab \in [DOMAIN space[d].tab -> Pages] /\ DOMAIN space[d].tab \subseteq 0 .. KTable
  <2> PICK S, f : S = 0 .. KTable /\ f = space[d].tab OBVIOUS
  <2>1. f \in Partial(S, Pages) BY <1>2
  <2>2. f \in [DOMAIN f -> Pages] /\ DOMAIN f \subseteq S BY <2>1, PartialFun
  <2> QED BY <2>2
<1>4. space[d].map \in [DOMAIN space[d].map -> Entries] /\ DOMAIN space[d].map \subseteq 0 .. Vpn(KERNBASE)
  <2> PICK S, f : S = 0 .. Vpn(KERNBASE) /\ f = space[d].map OBVIOUS
  <2>1. f \in Partial(S, Entries) BY <1>2
  <2>2. f \in [DOMAIN f -> Entries] /\ DOMAIN f \subseteq S BY <2>1, PartialFun
  <2> QED BY <2>2
<1>5. \A v \in DOMAIN space[d].map : space[d].map[v] \in Entries BY <1>4
<1>6. \A x \in Entries : x.page \in Pages BY DEF Entries
<1> QED BY <1>1, <1>2, <1>3, <1>4, <1>5, <1>6

(* The kinds of calls. *)
LEMMA TaskKinds ==
  ASSUME VmTypeOK, NEW p \in Procs
  PROVE  /\ task[p] \in Calls
         /\ task[p] = NoTask <=> task[p].op = "none"
         /\ task[p].op = "none" \/ task[p].op = "sbrk" \/ task[p].op = "fork" \/ task[p].op = "exec"
         /\ task[p].op = "sbrk" => task[p] \in SbrkTasks
         /\ task[p].op = "fork" => task[p] \in ForkTasks
         /\ task[p].op = "exec" => task[p] \in ExecTasks
         /\ Spare(p) \in MaybePage /\ Building(p) \in MaybePage
<1>1. task[p] \in Calls BY DEF VmTypeOK, Calls
<1>2. NoTask.op = "none" BY DEF NoTask
<1>3. \A t \in SbrkTasks : t.op = "sbrk" /\ t.mem \in MaybePage BY DEF SbrkTasks
<1>4. \A t \in ForkTasks : t.op = "fork" /\ t.mem \in MaybePage /\ t.dir \in MaybePage BY DEF ForkTasks
<1>5. \A t \in ExecTasks : t.op = "exec" /\ t.mem \in MaybePage /\ t.dir \in MaybePage BY DEF ExecTasks
<1>6. NoPage \in MaybePage BY DEF MaybePage
<1>7. task[p] = NoTask \/ task[p] \in SbrkTasks \/ task[p] \in ForkTasks \/ task[p] \in ExecTasks
  BY <1>1 DEF Calls
<1> HIDE DEF NoTask
<1> QED BY <1>1, <1>7, <1>2, <1>3, <1>4, <1>5, <1>6 DEF Spare, Building

(* The fields of a process. *)
LEMMA ProcFields ==
  ASSUME VmTypeOK, NEW p \in Procs
  PROVE  /\ proc[p].state \in {"UNUSED", "EMBRYO", "LIVE", "ZOMBIE"} /\ proc[p].kstack \in MaybePage
         /\ proc[p].pgdir \in MaybePage /\ proc[p].sz \in Nat
BY DEF VmTypeOK

-----------------------------------------------------------------------------
(* Pages that change hands, one at a time.                                 *)

(* Only the uses of the pages in S change. *)
Elsewhere(S, kind, of, at, K, O, A) == \A g \in Pages \ S : K[g] = kind[g] /\ O[g] = of[g] /\ A[g] = at[g]
Given(S, K, O, A, c, o, i) == \A g \in S : K[g] = c /\ O[g] = o /\ A[g] = i
AllOf(S, c, kind) == \A g \in S : kind[g] = c
NotOf(S, c, kind, K) == \A g \in S : kind[g] # c /\ K[g] # c

(* What is held stays so when only pages of other uses change theirs. *)
LEMMA KeepSlots ==
  ASSUME NEW h, NEW kind, NEW of, NEW at, NEW K, NEW O, NEW A, NEW S, SlotPart(h, kind, of),
         Elsewhere(S, kind, of, at, K, O, A), \A c \in SlotKinds : NotOf(S, c, kind, K)
  PROVE  SlotPart(h, K, O)
<1> SUFFICES ASSUME NEW g \in Pages
             PROVE  /\ \A c \in SlotKinds, p \in Procs : h[c][p] = g <=> K[g] = c /\ O[g] = p
                    /\ K[g] \in SlotKinds => O[g] \in Procs
  BY DEF SlotPart
<1>1. CASE g \in S BY <1>1 DEF SlotPart, NotOf
<1>2. CASE g \notin S BY <1>2 DEF SlotPart, Elsewhere
<1> QED BY <1>1, <1>2

(* The same for the entries of directories. *)
LEMMA KeepEntries ==
  ASSUME NEW c, NEW f, NEW kind, NEW of, NEW at, NEW K, NEW O, NEW A, NEW S, EntryPart(c, f, kind, of, at),
         Elsewhere(S, kind, of, at, K, O, A), NotOf(S, c, kind, K)
  PROVE  EntryPart(c, f, K, O, A)
<1> SUFFICES ASSUME NEW g \in Pages
             PROVE  /\ \A d \in DOMAIN f : \A i \in DOMAIN f[d] : f[d][i] = g <=> K[g] = c /\ O[g] = d /\ A[g] = i
                    /\ K[g] = c => O[g] \in DOMAIN f /\ A[g] \in DOMAIN f[O[g]]
  BY DEF EntryPart
<1>1. CASE g \in S BY <1>1 DEF EntryPart, NotOf
<1>2. CASE g \notin S BY <1>2 DEF EntryPart, Elsewhere
<1> QED BY <1>1, <1>2

(* A page gets another use. *)
LEMMA Reuse ==
  ASSUME NEW kind \in [Pages -> Kinds], NEW of \in [Pages -> Nat], NEW at \in [Pages -> Nat],
         NEW S \in SUBSET Pages, NEW c \in Kinds, NEW o \in Nat, NEW i \in Nat
  PROVE  \E K \in [Pages -> Kinds], O \in [Pages -> Nat], A \in [Pages -> Nat] :
           Given(S, K, O, A, c, o, i) /\ Elsewhere(S, kind, of, at, K, O, A)
<1> DEFINE K == [g \in Pages |-> IF g \in S THEN c ELSE kind[g]]
           O == [g \in Pages |-> IF g \in S THEN o ELSE of[g]]
           A == [g \in Pages |-> IF g \in S THEN i ELSE at[g]]
<1>1. K \in [Pages -> Kinds] /\ O \in [Pages -> Nat] /\ A \in [Pages -> Nat] OBVIOUS
<1>2. Given(S, K, O, A, c, o, i) /\ Elsewhere(S, kind, of, at, K, O, A) BY DEF Given, Elsewhere
<1> HIDE DEF K, O, A
<1> QED BY <1>1, <1>2, Zenon

Holdings == [SlotKinds -> [Procs -> MaybePage]]

(* A process takes a free page. *)
LEMMA GiveSlot ==
  ASSUME NEW fr, NEW h \in Holdings, NEW tabs, NEW maps, Exact(fr, h, tabs, maps),
         NEW k \in fr, k \in Pages, NEW c \in SlotKinds, NEW p \in Procs, h[c][p] = NoPage
  PROVE  Exact(fr \ {k}, [h EXCEPT ![c][p] = k], tabs, maps)
<1> USE NoPageIsNone
<1>1. PICK kind \in [Pages -> Kinds], of \in [Pages -> Nat], at \in [Pages -> Nat] :
        Owned(fr, h, tabs, maps, kind, of, at)
  BY DEF Exact
<1>2. kind[k] = "free" BY <1>1 DEF Owned, FreePart
<1>3. c \in Kinds /\ p \in Nat /\ 0 \in Nat /\ {k} \in SUBSET Pages BY DEF Kinds
<1>4. PICK K \in [Pages -> Kinds], O \in [Pages -> Nat], A \in [Pages -> Nat] :
           Given({k}, K, O, A, c, p, 0) /\ Elsewhere({k}, kind, of, at, K, O, A)
  BY <1>3, Reuse
<1>41. /\ K[k] = c /\ O[k] = p /\ A[k] = 0
     /\ \A g \in Pages \ {k} : K[g] = kind[g] /\ O[g] = of[g] /\ A[g] = at[g]
  BY <1>4 DEF Given, Elsewhere
<1>5. PICK h2 : h2 = [h EXCEPT ![c][p] = k] OBVIOUS
<1>6. h2[c][p] = k /\ \A e \in SlotKinds, q \in Procs : e # c \/ q # p => h2[e][q] = h[e][q]
  BY <1>5 DEF Holdings
<1>7. c # "free" /\ c # "table" /\ c # "mapped" /\ "free" \notin SlotKinds BY DEF SlotKinds
<1>8. FreePart(fr \ {k}, K) BY <1>1, <1>2, <1>41, <1>7 DEF Owned, FreePart
<1>9. SlotPart(h2, K, O)
  <2> SUFFICES ASSUME NEW g \in Pages
             PROVE  /\ \A e \in SlotKinds, q \in Procs : h2[e][q] = g <=> K[g] = e /\ O[g] = q
                    /\ K[g] \in SlotKinds => O[g] \in Procs
    BY DEF SlotPart
  <2>0. /\ \A e \in SlotKinds, q \in Procs : h[e][q] = g <=> kind[g] = e /\ of[g] = q
        /\ kind[g] \in SlotKinds => of[g] \in Procs
    BY <1>1 DEF Owned, SlotPart
  <2>1. CASE g = k BY <2>0, <2>1, <1>2, <1>41, <1>6, <1>7
  <2>2. CASE g # k BY <2>0, <2>2, <1>41, <1>6
  <2> QED BY <2>1, <2>2
<1>10. EntryPart("table", tabs, K, O, A) /\ EntryPart("mapped", maps, K, O, A)
  <2>1. NotOf({k}, "table", kind, K) /\ NotOf({k}, "mapped", kind, K) BY <1>2, <1>41, <1>7 DEF NotOf
  <2>2. EntryPart("table", tabs, kind, of, at) /\ EntryPart("mapped", maps, kind, of, at) BY <1>1 DEF Owned
  <2>3. EntryPart("table", tabs, K, O, A) BY <1>4, <2>1, <2>2, KeepEntries
  <2>4. EntryPart("mapped", maps, K, O, A) BY <1>4, <2>1, <2>2, KeepEntries
  <2> QED BY <2>3, <2>4
<1>11. Owned(fr \ {k}, h2, tabs, maps, K, O, A) BY <1>8, <1>9, <1>10 DEF Owned
<1> QED BY <1>5, <1>11 DEF Exact

(* A process gives its page back. *)
LEMMA TakeSlot ==
  ASSUME NEW fr, NEW h \in Holdings, NEW tabs, NEW maps, Exact(fr, h, tabs, maps),
         NEW c \in SlotKinds, NEW p \in Procs, NEW k \in Pages, h[c][p] = k
  PROVE  Exact(fr \cup {k}, [h EXCEPT ![c][p] = NoPage], tabs, maps) /\ k \notin fr
<1> USE NoPageIsNone
<1>1. PICK kind \in [Pages -> Kinds], of \in [Pages -> Nat], at \in [Pages -> Nat] :
        Owned(fr, h, tabs, maps, kind, of, at)
  BY DEF Exact
<1>2. kind[k] = c /\ of[k] = p BY <1>1 DEF Owned, SlotPart
<1>3. "free" \in Kinds /\ 0 \in Nat /\ {k} \in SUBSET Pages BY DEF Kinds
<1>4. PICK K \in [Pages -> Kinds], O \in [Pages -> Nat], A \in [Pages -> Nat] :
           Given({k}, K, O, A, "free", 0, 0) /\ Elsewhere({k}, kind, of, at, K, O, A)
  BY <1>3, Reuse
<1>41. /\ K[k] = "free" /\ O[k] = 0 /\ A[k] = 0
     /\ \A g \in Pages \ {k} : K[g] = kind[g] /\ O[g] = of[g] /\ A[g] = at[g]
  BY <1>4 DEF Given, Elsewhere
<1>5. PICK h2 : h2 = [h EXCEPT ![c][p] = NoPage] OBVIOUS
<1>6. h2[c][p] = NoPage /\ \A e \in SlotKinds, q \in Procs : e # c \/ q # p => h2[e][q] = h[e][q]
  BY <1>5 DEF Holdings
<1>7. c # "free" /\ c # "table" /\ c # "mapped" /\ "free" \notin SlotKinds BY DEF SlotKinds
<1>8. FreePart(fr \cup {k}, K) BY <1>1, <1>2, <1>41, <1>7 DEF Owned, FreePart
<1>9. SlotPart(h2, K, O)
  <2> SUFFICES ASSUME NEW g \in Pages
             PROVE  /\ \A e \in SlotKinds, q \in Procs : h2[e][q] = g <=> K[g] = e /\ O[g] = q
                    /\ K[g] \in SlotKinds => O[g] \in Procs
    BY DEF SlotPart
  <2>0. /\ \A e \in SlotKinds, q \in Procs : h[e][q] = g <=> kind[g] = e /\ of[g] = q
        /\ kind[g] \in SlotKinds => of[g] \in Procs
    BY <1>1 DEF Owned, SlotPart
  <2>1. CASE g = k BY <2>0, <2>1, <1>2, <1>41, <1>6, <1>7
  <2>2. CASE g # k BY <2>0, <2>2, <1>41, <1>6
  <2> QED BY <2>1, <2>2
<1>10. EntryPart("table", tabs, K, O, A) /\ EntryPart("mapped", maps, K, O, A)
  <2>1. NotOf({k}, "table", kind, K) /\ NotOf({k}, "mapped", kind, K) BY <1>2, <1>41, <1>7 DEF NotOf
  <2>2. EntryPart("table", tabs, kind, of, at) /\ EntryPart("mapped", maps, kind, of, at) BY <1>1 DEF Owned
  <2>3. EntryPart("table", tabs, K, O, A) BY <1>4, <2>1, <2>2, KeepEntries
  <2>4. EntryPart("mapped", maps, K, O, A) BY <1>4, <2>1, <2>2, KeepEntries
  <2> QED BY <2>3, <2>4
<1>11. Owned(fr \cup {k}, h2, tabs, maps, K, O, A) BY <1>8, <1>9, <1>10 DEF Owned
<1>12. k \notin fr BY <1>1, <1>2, <1>7 DEF Owned, FreePart
<1> QED BY <1>5, <1>11, <1>12 DEF Exact

(* Directory d gets entry i, page k. *)
Adds(f, f2, d, i, k) ==
    /\ DOMAIN f2 = DOMAIN f /\ \A e \in DOMAIN f \ {d} : f2[e] = f[e]
    /\ DOMAIN f2[d] = DOMAIN f[d] \cup {i} /\ f2[d][i] = k /\ \A j \in DOMAIN f[d] : f2[d][j] = f[d][j]

(* Its new entry is held by it. *)
LEMMA AddEntry ==
  ASSUME NEW c, NEW f, NEW f2, NEW d \in DOMAIN f, NEW i, i \notin DOMAIN f[d], NEW k \in Pages,
         Adds(f, f2, d, i, k), NEW kind, NEW of, NEW at, NEW K, NEW O, NEW A, EntryPart(c, f, kind, of, at),
         kind[k] # c, Given({k}, K, O, A, c, d, i), Elsewhere({k}, kind, of, at, K, O, A)
  PROVE  EntryPart(c, f2, K, O, A)
<1> SUFFICES ASSUME NEW g \in Pages
             PROVE  /\ \A e \in DOMAIN f2 : \A j \in DOMAIN f2[e] : f2[e][j] = g <=> K[g] = c /\ O[g] = e /\ A[g] = j
                    /\ K[g] = c => O[g] \in DOMAIN f2 /\ A[g] \in DOMAIN f2[O[g]]
  BY DEF EntryPart
<1>1. /\ \A e \in DOMAIN f : \A j \in DOMAIN f[e] : f[e][j] = g <=> kind[g] = c /\ of[g] = e /\ at[g] = j
      /\ kind[g] = c => of[g] \in DOMAIN f /\ at[g] \in DOMAIN f[of[g]]
  BY DEF EntryPart
<1>2. CASE g = k BY <1>1, <1>2 DEF Given, Adds
<1>3. CASE g # k
  <2>1. K[g] = kind[g] /\ O[g] = of[g] /\ A[g] = at[g] BY <1>3 DEF Elsewhere
  <2> QED BY <1>1, <1>3, <2>1 DEF Adds
<1> QED BY <1>2, <1>3

(* A free page becomes a page table. *)
LEMMA GiveTable ==
  ASSUME NEW fr, NEW h \in Holdings, NEW tabs, NEW maps, Exact(fr, h, tabs, maps),
         NEW k \in fr, k \in Pages, NEW d \in DOMAIN tabs, d \in Pages, NEW i \in Nat, i \notin DOMAIN tabs[d],
         NEW f2, Adds(tabs, f2, d, i, k)
  PROVE  Exact(fr \ {k}, h, f2, maps)
<1>1. PICK kind \in [Pages -> Kinds], of \in [Pages -> Nat], at \in [Pages -> Nat] :
        Owned(fr, h, tabs, maps, kind, of, at)
  BY DEF Exact
<1>2. kind[k] = "free" BY <1>1 DEF Owned, FreePart
<1>3. "table" \in Kinds /\ d \in Nat /\ {k} \in SUBSET Pages BY NoPageIsNone DEF Kinds
<1>4. PICK K \in [Pages -> Kinds], O \in [Pages -> Nat], A \in [Pages -> Nat] :
           Given({k}, K, O, A, "table", d, i) /\ Elsewhere({k}, kind, of, at, K, O, A)
  BY <1>3, Reuse
<1>5. K[k] = "table" BY <1>4 DEF Given
<1>6. FreePart(fr \ {k}, K) BY <1>1, <1>2, <1>4, <1>5 DEF Owned, FreePart, Elsewhere
<1>7. SlotPart(h, K, O)
  <2>1. \A c \in SlotKinds : NotOf({k}, c, kind, K) BY <1>2, <1>5 DEF NotOf, SlotKinds
  <2>2. SlotPart(h, kind, of) BY <1>1 DEF Owned
  <2> QED BY <1>4, <2>1, <2>2, KeepSlots
<1>8. EntryPart("mapped", maps, K, O, A)
  <2>1. NotOf({k}, "mapped", kind, K) BY <1>2, <1>5 DEF NotOf
  <2>2. EntryPart("mapped", maps, kind, of, at) BY <1>1 DEF Owned
  <2> QED BY <1>4, <2>1, <2>2, KeepEntries
<1>9. EntryPart("table", f2, K, O, A)
  <2>1. EntryPart("table", tabs, kind, of, at) /\ kind[k] # "table" BY <1>1, <1>2 DEF Owned
  <2> QED BY <1>4, <2>1, AddEntry
<1>10. Owned(fr \ {k}, h, f2, maps, K, O, A) BY <1>6, <1>7, <1>8, <1>9 DEF Owned
<1> QED BY <1>10 DEF Exact

(* A free page is mapped. *)
LEMMA GiveMapped ==
  ASSUME NEW fr, NEW h \in Holdings, NEW tabs, NEW maps, Exact(fr, h, tabs, maps),
         NEW k \in fr, k \in Pages, NEW d \in DOMAIN maps, d \in Pages, NEW i \in Nat, i \notin DOMAIN maps[d],
         NEW f2, Adds(maps, f2, d, i, k)
  PROVE  Exact(fr \ {k}, h, tabs, f2)
<1>1. PICK kind \in [Pages -> Kinds], of \in [Pages -> Nat], at \in [Pages -> Nat] :
        Owned(fr, h, tabs, maps, kind, of, at)
  BY DEF Exact
<1>2. kind[k] = "free" BY <1>1 DEF Owned, FreePart
<1>3. "mapped" \in Kinds /\ d \in Nat /\ {k} \in SUBSET Pages BY NoPageIsNone DEF Kinds
<1>4. PICK K \in [Pages -> Kinds], O \in [Pages -> Nat], A \in [Pages -> Nat] :
           Given({k}, K, O, A, "mapped", d, i) /\ Elsewhere({k}, kind, of, at, K, O, A)
  BY <1>3, Reuse
<1>5. K[k] = "mapped" BY <1>4 DEF Given
<1>6. FreePart(fr \ {k}, K) BY <1>1, <1>2, <1>4, <1>5 DEF Owned, FreePart, Elsewhere
<1>7. SlotPart(h, K, O)
  <2>1. \A c \in SlotKinds : NotOf({k}, c, kind, K) BY <1>2, <1>5 DEF NotOf, SlotKinds
  <2>2. SlotPart(h, kind, of) BY <1>1 DEF Owned
  <2> QED BY <1>4, <2>1, <2>2, KeepSlots
<1>8. EntryPart("table", tabs, K, O, A)
  <2>1. NotOf({k}, "table", kind, K) BY <1>2, <1>5 DEF NotOf
  <2>2. EntryPart("table", tabs, kind, of, at) BY <1>1 DEF Owned
  <2> QED BY <1>4, <2>1, <2>2, KeepEntries
<1>9. EntryPart("mapped", f2, K, O, A)
  <2>1. EntryPart("mapped", maps, kind, of, at) /\ kind[k] # "mapped" BY <1>1, <1>2 DEF Owned
  <2> QED BY <1>4, <2>1, AddEntry
<1>10. Owned(fr \ {k}, h, tabs, f2, K, O, A) BY <1>6, <1>7, <1>8, <1>9 DEF Owned
<1> QED BY <1>10 DEF Exact

(* Directory d loses the entries X, or itself (with all entries). *)
Loses(f, f2, d, X) ==
    /\ DOMAIN f2 \cup {d} = DOMAIN f /\ \A e \in DOMAIN f \ {d} : f2[e] = f[e]
    /\ d \in DOMAIN f2 => DOMAIN f2[d] = DOMAIN f[d] \ X /\ \A j \in DOMAIN f2[d] : f2[d][j] = f[d][j]
    /\ X \subseteq DOMAIN f[d] /\ (d \notin DOMAIN f2 => X = DOMAIN f[d]) /\ \A j \in X : f[d][j] \in Pages
Lost(f, d, X) == {f[d][j] : j \in X}

(* The pages of these entries become free. *)
LEMMA LoseEntries ==
  ASSUME NEW c, NEW f, NEW f2, NEW d \in DOMAIN f, NEW X, Loses(f, f2, d, X),
         NEW kind, NEW of, NEW at, NEW K, NEW O, NEW A, EntryPart(c, f, kind, of, at),
         NEW u, u # c, NEW o, NEW i, Given(Lost(f, d, X), K, O, A, u, o, i), Elsewhere(Lost(f, d, X), kind, of, at, K, O, A)
  PROVE  EntryPart(c, f2, K, O, A) /\ AllOf(Lost(f, d, X), c, kind)
<1>1. ASSUME NEW g \in Pages
      PROVE  /\ \A e \in DOMAIN f : \A j \in DOMAIN f[e] : f[e][j] = g <=> kind[g] = c /\ of[g] = e /\ at[g] = j
             /\ kind[g] = c => of[g] \in DOMAIN f /\ at[g] \in DOMAIN f[of[g]]
  BY DEF EntryPart
<1>2. \A g \in Lost(f, d, X) : kind[g] = c /\ of[g] = d /\ at[g] \in X /\ K[g] # c
  <2> SUFFICES ASSUME NEW g \in Lost(f, d, X) PROVE kind[g] = c /\ of[g] = d /\ at[g] \in X /\ K[g] # c
    OBVIOUS
  <2>1. PICK j \in X : g = f[d][j] BY DEF Lost
  <2>2. j \in DOMAIN f[d] /\ g \in Pages BY <2>1 DEF Loses
  <2>3. kind[g] = c /\ of[g] = d /\ at[g] = j BY <1>1, <2>1, <2>2
  <2> QED BY <2>3 DEF Given
<1>3. ASSUME NEW g \in Pages \ Lost(f, d, X)
      PROVE  K[g] = kind[g] /\ O[g] = of[g] /\ A[g] = at[g] /\ \A j \in X : f[d][j] # g
  BY DEF Elsewhere, Lost
<1>4. ASSUME NEW g \in Pages
      PROVE  /\ \A e \in DOMAIN f2 : \A j \in DOMAIN f2[e] : f2[e][j] = g <=> K[g] = c /\ O[g] = e /\ A[g] = j
             /\ K[g] = c => O[g] \in DOMAIN f2 /\ A[g] \in DOMAIN f2[O[g]]
  <2>1. CASE g \in Lost(f, d, X)
    <3>1. ASSUME NEW e \in DOMAIN f2, NEW j \in DOMAIN f2[e] PROVE f2[e][j] # g
      <4>1. kind[g] = c /\ of[g] = d /\ at[g] \in X BY <1>2, <2>1
      <4>2. CASE e = d BY <1>1, <4>1, <4>2 DEF Loses
      <4>3. CASE e # d BY <1>1, <4>1, <4>3 DEF Loses
      <4> QED BY <4>2, <4>3
    <3> QED BY <1>2, <2>1, <3>1
  <2>2. CASE g \notin Lost(f, d, X)
    <3>1. K[g] = kind[g] /\ O[g] = of[g] /\ A[g] = at[g] /\ \A j \in X : f[d][j] # g BY <1>3, <2>2
    <3>2. ASSUME NEW e \in DOMAIN f2, NEW j \in DOMAIN f2[e]
          PROVE f2[e][j] = g <=> K[g] = c /\ O[g] = e /\ A[g] = j
      <4>1. e \in DOMAIN f /\ j \in DOMAIN f[e] /\ f2[e][j] = f[e][j] BY DEF Loses
      <4> QED BY <1>1, <3>1, <4>1
    <3>3. ASSUME K[g] = c PROVE O[g] \in DOMAIN f2 /\ A[g] \in DOMAIN f2[O[g]]
      <4>0. kind[g] = c BY <3>1, <3>3
      <4>1. of[g] \in DOMAIN f /\ at[g] \in DOMAIN f[of[g]] /\ f[of[g]][at[g]] = g BY <1>1, <4>0
      <4>2. CASE of[g] = d
        <5>1. at[g] \notin X BY <3>1, <4>1, <4>2
        <5> QED BY <3>1, <4>1, <4>2, <5>1 DEF Loses
      <4>3. CASE of[g] # d BY <3>1, <4>1, <4>3 DEF Loses
      <4> QED BY <4>2, <4>3
    <3> QED BY <3>2, <3>3
  <2> QED BY <2>1, <2>2
<1> QED BY <1>2, <1>4 DEF EntryPart, AllOf

(* Mapped pages are freed. *)
LEMMA TakeMapped ==
  ASSUME NEW fr, NEW h \in Holdings, NEW tabs, NEW maps, Exact(fr, h, tabs, maps),
         NEW d \in DOMAIN maps, NEW X, NEW f2, Loses(maps, f2, d, X)
  PROVE  Exact(fr \cup Lost(maps, d, X), h, tabs, f2)
<1>1. PICK kind \in [Pages -> Kinds], of \in [Pages -> Nat], at \in [Pages -> Nat] :
        Owned(fr, h, tabs, maps, kind, of, at)
  BY DEF Exact
<1>2. PICK S : S = Lost(maps, d, X) OBVIOUS
<1>3. "free" \in Kinds /\ 0 \in Nat /\ S \in SUBSET Pages BY <1>2 DEF Kinds, Loses, Lost
<1>4. PICK K \in [Pages -> Kinds], O \in [Pages -> Nat], A \in [Pages -> Nat] :
           Given(S, K, O, A, "free", 0, 0) /\ Elsewhere(S, kind, of, at, K, O, A)
  BY <1>3, Reuse
<1>5. EntryPart("mapped", maps, kind, of, at) /\ EntryPart("table", tabs, kind, of, at) /\ SlotPart(h, kind, of)
  BY <1>1 DEF Owned
<1>6. EntryPart("mapped", f2, K, O, A) /\ \A g \in S : kind[g] = "mapped"
  <2>0. PICK c, u : c = "mapped" /\ u = "free" OBVIOUS
  <2>1. Given(Lost(maps, d, X), K, O, A, u, 0, 0) /\ Elsewhere(Lost(maps, d, X), kind, of, at, K, O, A)
    BY <1>2, <1>4, <2>0
  <2>2. u # c /\ EntryPart(c, maps, kind, of, at) BY <1>5, <2>0
  <2>3. EntryPart(c, f2, K, O, A) /\ AllOf(Lost(maps, d, X), c, kind) BY <2>1, <2>2, LoseEntries
  <2> QED BY <1>2, <2>0, <2>3 DEF AllOf
<1>7. \A g \in S : K[g] = "free" BY <1>4 DEF Given
<1>8. FreePart(fr \cup S, K) BY <1>1, <1>3, <1>4, <1>6, <1>7 DEF Owned, FreePart, Elsewhere
<1>9. SlotPart(h, K, O)
  <2>1. \A c \in SlotKinds : NotOf(S, c, kind, K) BY <1>6, <1>7 DEF NotOf, SlotKinds
  <2> QED BY <1>4, <1>5, <2>1, KeepSlots
<1>10. EntryPart("table", tabs, K, O, A)
  <2>1. NotOf(S, "table", kind, K) BY <1>6, <1>7 DEF NotOf
  <2> QED BY <1>4, <1>5, <2>1, KeepEntries
<1>11. Owned(fr \cup S, h, tabs, f2, K, O, A) BY <1>6, <1>8, <1>9, <1>10 DEF Owned
<1> QED BY <1>2, <1>11 DEF Exact

(* Page tables are freed. *)
LEMMA TakeTables ==
  ASSUME NEW fr, NEW h \in Holdings, NEW tabs, NEW maps, Exact(fr, h, tabs, maps),
         NEW d \in DOMAIN tabs, NEW X, NEW f2, Loses(tabs, f2, d, X)
  PROVE  Exact(fr \cup Lost(tabs, d, X), h, f2, maps)
<1>1. PICK kind \in [Pages -> Kinds], of \in [Pages -> Nat], at \in [Pages -> Nat] :
        Owned(fr, h, tabs, maps, kind, of, at)
  BY DEF Exact
<1>2. PICK S : S = Lost(tabs, d, X) OBVIOUS
<1>3. "free" \in Kinds /\ 0 \in Nat /\ S \in SUBSET Pages BY <1>2 DEF Kinds, Loses, Lost
<1>4. PICK K \in [Pages -> Kinds], O \in [Pages -> Nat], A \in [Pages -> Nat] :
           Given(S, K, O, A, "free", 0, 0) /\ Elsewhere(S, kind, of, at, K, O, A)
  BY <1>3, Reuse
<1>5. EntryPart("mapped", maps, kind, of, at) /\ EntryPart("table", tabs, kind, of, at) /\ SlotPart(h, kind, of)
  BY <1>1 DEF Owned
<1>6. EntryPart("table", f2, K, O, A) /\ \A g \in S : kind[g] = "table"
  <2>0. PICK c, u : c = "table" /\ u = "free" OBVIOUS
  <2>1. Given(Lost(tabs, d, X), K, O, A, u, 0, 0) /\ Elsewhere(Lost(tabs, d, X), kind, of, at, K, O, A)
    BY <1>2, <1>4, <2>0
  <2>2. u # c /\ EntryPart(c, tabs, kind, of, at) BY <1>5, <2>0
  <2>3. EntryPart(c, f2, K, O, A) /\ AllOf(Lost(tabs, d, X), c, kind) BY <2>1, <2>2, LoseEntries
  <2> QED BY <1>2, <2>0, <2>3 DEF AllOf
<1>7. \A g \in S : K[g] = "free" BY <1>4 DEF Given
<1>8. FreePart(fr \cup S, K) BY <1>1, <1>3, <1>4, <1>6, <1>7 DEF Owned, FreePart, Elsewhere
<1>9. SlotPart(h, K, O)
  <2>1. \A c \in SlotKinds : NotOf(S, c, kind, K) BY <1>6, <1>7 DEF NotOf, SlotKinds
  <2> QED BY <1>4, <1>5, <2>1, KeepSlots
<1>10. EntryPart("mapped", maps, K, O, A)
  <2>1. NotOf(S, "mapped", kind, K) BY <1>6, <1>7 DEF NotOf
  <2> QED BY <1>4, <1>5, <2>1, KeepEntries
<1>11. Owned(fr \cup S, h, f2, maps, K, O, A) BY <1>6, <1>8, <1>9, <1>10 DEF Owned
<1> QED BY <1>2, <1>11 DEF Exact

(* An empty directory holds nothing. *)
LEMMA AddDirectory ==
  ASSUME NEW fr, NEW h, NEW tabs, NEW maps, Exact(fr, h, tabs, maps), NEW d, d \notin DOMAIN tabs, d \notin DOMAIN maps,
         NEW t2, NEW m2, DOMAIN t2 = DOMAIN tabs \cup {d}, DOMAIN m2 = DOMAIN maps \cup {d},
         DOMAIN t2[d] = {}, DOMAIN m2[d] = {},
         \A e \in DOMAIN tabs : t2[e] = tabs[e], \A e \in DOMAIN maps : m2[e] = maps[e]
  PROVE  Exact(fr, h, t2, m2)
<1>1. PICK kind \in [Pages -> Kinds], of \in [Pages -> Nat], at \in [Pages -> Nat] :
        Owned(fr, h, tabs, maps, kind, of, at)
  BY DEF Exact
<1>2. EntryPart("table", t2, kind, of, at) BY <1>1 DEF Owned, EntryPart
<1>3. EntryPart("mapped", m2, kind, of, at) BY <1>1 DEF Owned, EntryPart
<1> QED BY <1>1, <1>2, <1>3 DEF Owned, Exact

-----------------------------------------------------------------------------
(* The state as slots and entries.                                         *)

(* The slots. *)
LEMMA SlotIs ==
  ASSUME NEW p
  PROVE  /\ Slot("stack", p) = proc[p].kstack /\ Slot("pgdir", p) = proc[p].pgdir
         /\ Slot("mem", p) = Spare(p) /\ Slot("newdir", p) = Building(p)
         /\ Slot("stack", p)' = proc'[p].kstack /\ Slot("pgdir", p)' = proc'[p].pgdir
         /\ Slot("mem", p)' = Spare(p)' /\ Slot("newdir", p)' = Building(p)'
BY DEF Slot

(* Their types. *)
LEMMA SlotTypes ==
  ASSUME VmTypeOK
  PROVE  Slots \in Holdings /\ \A c \in SlotKinds, p \in Procs : Slots[c][p] = Slot(c, p) /\ Slot(c, p) \in MaybePage
<1>1. ASSUME NEW c \in SlotKinds, NEW p \in Procs PROVE Slot(c, p) \in MaybePage
  BY SlotIs, TaskKinds, ProcFields DEF SlotKinds
<1> QED BY <1>1 DEF Slots, Holdings

(* One slot changes. *)
LEMMA SlotSet ==
  ASSUME VmTypeOK, VmTypeOK', NEW h \in Holdings, NEW c \in SlotKinds, NEW p \in Procs, NEW k,
         \A e \in SlotKinds, q \in Procs : Slot(e, q)' = IF e = c /\ q = p THEN k ELSE h[e][q]
  PROVE  Slots' = [h EXCEPT ![c][p] = k]
<1>1. \A e \in SlotKinds, q \in Procs : Slots'[e][q] = [h EXCEPT ![c][p] = k][e][q] BY DEF Slots, Holdings
<1>2. Slots' = [e \in SlotKinds |-> [q \in Procs |-> Slots'[e][q]]] BY DEF Slots
<1>3. [h EXCEPT ![c][p] = k] = [e \in SlotKinds |-> [q \in Procs |-> [h EXCEPT ![c][p] = k][e][q]]]
  BY DEF Holdings
<1> HIDE DEF Slots
<1> QED BY <1>1, <1>2, <1>3

(* None does. *)
LEMMA SlotsSame ==
  ASSUME VmTypeOK, \A q \in Procs : /\ proc'[q].kstack = proc[q].kstack /\ proc'[q].pgdir = proc[q].pgdir
                                      /\ Spare(q)' = Spare(q) /\ Building(q)' = Building(q)
  PROVE  Slots' = Slots
<1>1. ASSUME NEW c \in SlotKinds, NEW p \in Procs PROVE Slot(c, p)' = Slot(c, p)
  BY SlotIs DEF SlotKinds
<1> QED BY <1>1 DEF Slots

(* A process allocates a page it does not map yet, or is rid of it. *)
LEMMA SpareSet ==
  ASSUME VmTypeOK, VmTypeOK', NEW p \in Procs,
         \A q \in Procs : /\ proc'[q].kstack = proc[q].kstack /\ proc'[q].pgdir = proc[q].pgdir
                          /\ Building(q)' = Building(q),
         \A q \in Procs \ {p} : Spare(q)' = Spare(q)
  PROVE  Slots' = [Slots EXCEPT !["mem"][p] = Spare(p)']
<1>1. PICK k : k = Spare(p)' OBVIOUS
<1>2. "mem" \in SlotKinds BY DEF SlotKinds
<1>3. Slots \in Holdings BY SlotTypes
<1>4. ASSUME NEW e \in SlotKinds, NEW q \in Procs
      PROVE  Slot(e, q)' = IF e = "mem" /\ q = p THEN k ELSE Slots[e][q]
  BY <1>1, SlotIs, SlotTypes DEF SlotKinds
<1>5. Slots' = [Slots EXCEPT !["mem"][p] = k] BY <1>2, <1>3, <1>4, SlotSet
<1> QED BY <1>1, <1>5

(* A page is held by one, and then not free; a directory is held. *)
LEMMA Distinct ==
  ASSUME VmTypeOK, PageInv, DirInv
  PROVE  /\ \A c, e \in SlotKinds, p, q \in Procs : Slot(c, p) # NoPage /\ Slot(c, p) = Slot(e, q) => c = e /\ p = q
         /\ \A c \in SlotKinds, p \in Procs : Slot(c, p) \notin freelist
         /\ \A g \in freelist : g \in Pages /\ g \notin DOMAIN space
<1>1. PICK kind \in [Pages -> Kinds], of \in [Pages -> Nat], at \in [Pages -> Nat] :
        Owned(freelist, Slots, Tabs, Maps, kind, of, at)
  BY DEF PageInv, Exact
<1>2. \A g \in Pages : g \in freelist <=> kind[g] = "free" BY <1>1 DEF Owned, FreePart
<1>3. \A g \in Pages, c \in SlotKinds, p \in Procs : Slot(c, p) = g => kind[g] = c /\ of[g] = p
  BY <1>1, SlotTypes DEF Owned, SlotPart
<1>4. \A c \in SlotKinds, p \in Procs : Slot(c, p) \in Pages \cup {NoPage} BY SlotTypes DEF MaybePage
<1>5. freelist \subseteq Pages /\ NoPage \notin Pages /\ "free" \notin SlotKinds
  BY NoPageIsNone DEF VmTypeOK, SlotKinds
<1>6. \A c, e \in SlotKinds, p, q \in Procs : Slot(c, p) # NoPage /\ Slot(c, p) = Slot(e, q) => c = e /\ p = q
  BY <1>3, <1>4
<1>7. \A c \in SlotKinds, p \in Procs : Slot(c, p) \notin freelist BY <1>2, <1>3, <1>5
<1>8. ASSUME NEW g \in freelist PROVE g \notin DOMAIN space
  <2>1. ASSUME NEW p \in Procs PROVE proc[p].pgdir # g /\ Building(p) # g
    BY <1>7, SlotIs DEF SlotKinds
  <2> QED BY <1>5, <2>1 DEF DirInv
<1> QED BY <1>5, <1>6, <1>7, <1>8

(* What tells a process from the others. *)
LEMMA OwnDirs ==
  ASSUME VmTypeOK, PageInv, DirInv, NEW p \in Procs
  PROVE  /\ proc[p].pgdir # NoPage => proc[p].pgdir \in DOMAIN space /\ proc[p].pgdir # Building(p)
         /\ Building(p) # NoPage => Building(p) \in DOMAIN space
         /\ \A q \in Procs \ {p} :
              /\ proc[p].pgdir # NoPage => proc[p].pgdir # proc[q].pgdir /\ proc[p].pgdir # Building(q)
              /\ Building(p) # NoPage => Building(p) # proc[q].pgdir /\ Building(p) # Building(q)
<1>1. "pgdir" \in SlotKinds /\ "newdir" \in SlotKinds /\ "pgdir" # "newdir" BY DEF SlotKinds
<1>2. \A q \in Procs : Slot("pgdir", q) = proc[q].pgdir /\ Slot("newdir", q) = Building(q) BY SlotIs
<1>3. proc[p].pgdir \in Pages \cup {NoPage} /\ Building(p) \in Pages \cup {NoPage}
  BY ProcFields, TaskKinds DEF MaybePage
<1> QED BY <1>1, <1>2, <1>3, Distinct DEF DirInv

(* The entries of the directories. *)
LEMMA TabsAre ==
  /\ DOMAIN Tabs = DOMAIN space /\ DOMAIN Maps = DOMAIN space
  /\ \A d \in DOMAIN space : /\ Tabs[d] = space[d].tab /\ DOMAIN Maps[d] = DOMAIN space[d].map
                              /\ \A v \in DOMAIN space[d].map : Maps[d][v] = space[d].map[v].page
  /\ DOMAIN Tabs' = DOMAIN space' /\ DOMAIN Maps' = DOMAIN space'
  /\ \A d \in DOMAIN space' : /\ Tabs'[d] = space'[d].tab /\ DOMAIN Maps'[d] = DOMAIN space'[d].map
                               /\ \A v \in DOMAIN space'[d].map : Maps'[d][v] = space'[d].map[v].page
BY DEF Tabs, Maps

(* No directory's tables change, *)
LEMMA TabsSame ==
  ASSUME DOMAIN space' = DOMAIN space, \A e \in DOMAIN space : space'[e].tab = space[e].tab
  PROVE  Tabs' = Tabs
BY DEF Tabs

(* or none of the pages it maps. *)
LEMMA MapsSame ==
  ASSUME DOMAIN space' = DOMAIN space,
         \A e \in DOMAIN space : /\ DOMAIN space'[e].map = DOMAIN space[e].map
                                 /\ \A v \in DOMAIN space[e].map : space'[e].map[v].page = space[e].map[v].page
  PROVE  Maps' = Maps
<1>1. \A e \in DOMAIN space : [v \in DOMAIN space'[e].map |-> space'[e].map[v].page]
                              = [v \in DOMAIN space[e].map |-> space[e].map[v].page]
  OBVIOUS
<1> QED BY <1>1 DEF Maps

(* One gets a page, *)
LEMMA MapsAdd ==
  ASSUME NEW d \in DOMAIN space, NEW v, v \notin DOMAIN space[d].map, NEW y,
         DOMAIN space' = DOMAIN space, \A e \in DOMAIN space \ {d} : space'[e].map = space[e].map,
         space'[d].map = Put(space[d].map, v, y)
  PROVE  Adds(Maps, Maps', d, v, y.page)
<1>1. DOMAIN space'[d].map = DOMAIN space[d].map \cup {v} /\ space'[d].map[v] = y
      /\ \A w \in DOMAIN space[d].map : space'[d].map[w] = space[d].map[w]
  BY DEF Put
<1>2. \A e \in DOMAIN space \ {d} : Maps'[e] = Maps[e] BY DEF Maps
<1> QED BY <1>1, <1>2, TabsAre DEF Adds

(* one gets a page table. *)
LEMMA TabsAdd ==
  ASSUME NEW d \in DOMAIN space, NEW i, i \notin DOMAIN space[d].tab, NEW k,
         DOMAIN space' = DOMAIN space, \A e \in DOMAIN space \ {d} : space'[e].tab = space[e].tab,
         space'[d].tab = Put(space[d].tab, i, k)
  PROVE  Adds(Tabs, Tabs', d, i, k)
<1>1. DOMAIN space'[d].tab = DOMAIN space[d].tab \cup {i} /\ space'[d].tab[i] = k
      /\ \A w \in DOMAIN space[d].tab : space'[d].tab[w] = space[d].tab[w]
  BY DEF Put
<1> QED BY <1>1, TabsAre DEF Adds

(* One loses pages. *)
LEMMA MapsLose ==
  ASSUME VmTypeOK, NEW d \in DOMAIN space, NEW X, X \subseteq DOMAIN space[d].map,
         DOMAIN space' = DOMAIN space, \A e \in DOMAIN space \ {d} : space'[e].map = space[e].map,
         space'[d].map = Drop(space[d].map, X)
  PROVE  Loses(Maps, Maps', d, X) /\ Lost(Maps, d, X) = {space[d].map[v].page : v \in X}
<1>1. DOMAIN space'[d].map = DOMAIN space[d].map \ X
      /\ \A w \in DOMAIN space'[d].map : space'[d].map[w] = space[d].map[w]
  BY DEF Drop
<1>2. \A e \in DOMAIN space \ {d} : Maps'[e] = Maps[e] BY DEF Maps
<1>3. \A v \in X : Maps[d][v] \in Pages BY SpaceFields, TabsAre
<1>4. DOMAIN Maps' = DOMAIN Maps /\ DOMAIN Maps'[d] = DOMAIN Maps[d] \ X
      /\ \A w \in DOMAIN Maps'[d] : Maps'[d][w] = Maps[d][w]
  BY <1>1, TabsAre
<1>5. \A e \in DOMAIN Maps \ {d} : Maps'[e] = Maps[e] BY <1>2, TabsAre
<1>6. X \subseteq DOMAIN Maps[d] /\ d \in DOMAIN Maps' BY TabsAre
<1>7. Loses(Maps, Maps', d, X) BY <1>3, <1>4, <1>5, <1>6 DEF Loses
<1>8. Lost(Maps, d, X) = {space[d].map[v].page : v \in X} BY TabsAre DEF Lost
<1> QED BY <1>7, <1>8

(* An address space is freed with its directory. *)
LEMMA FreeSpace ==
  ASSUME VmTypeOK, NEW fr, NEW h \in Holdings, Exact(fr, h, Tabs, Maps), NEW c \in SlotKinds, NEW p \in Procs,
         NEW d \in DOMAIN space, h[c][p] = d, space' = Drop(space, {d})
  PROVE  Exact(fr \cup PagesOf(d), [h EXCEPT ![c][p] = NoPage], Tabs', Maps')
<1>1. d \in Pages BY DEF VmTypeOK
<1>2. PICK h2 \in Holdings : h2 = [h EXCEPT ![c][p] = NoPage] BY NoPageIsNone DEF Holdings, MaybePage
<1>3. PICK F : F = fr \cup {d} OBVIOUS
<1>4. Exact(F, h2, Tabs, Maps) BY <1>1, <1>2, <1>3, TakeSlot
<1>5. DOMAIN space' = DOMAIN space \ {d} /\ \A e \in DOMAIN space' : space'[e] = space[e] BY DEF Drop
<1>6. Loses(Maps, Maps', d, DOMAIN Maps[d])
  <2>1. \A v \in DOMAIN Maps[d] : Maps[d][v] \in Pages BY SpaceFields, TabsAre
  <2>2. \A e \in DOMAIN space' : Maps'[e] = Maps[e] BY <1>5 DEF Maps
  <2> QED BY <1>5, <2>1, <2>2, TabsAre, ZenonT(60) DEF Loses
<1>7. Loses(Tabs, Tabs', d, DOMAIN Tabs[d])
  <2>1. \A v \in DOMAIN Tabs[d] : Tabs[d][v] \in Pages BY SpaceFields, TabsAre
  <2>2. \A e \in DOMAIN space' : Tabs'[e] = Tabs[e] BY <1>5 DEF Tabs
  <2> QED BY <1>5, <2>1, <2>2, TabsAre, ZenonT(60) DEF Loses
<1>8. d \in DOMAIN Maps /\ d \in DOMAIN Tabs BY TabsAre
<1>9. PICK F2 : F2 = F \cup Lost(Maps, d, DOMAIN Maps[d]) OBVIOUS
<1>10. Exact(F2, h2, Tabs, Maps') BY <1>4, <1>6, <1>8, <1>9, TakeMapped
<1>11. Exact(F2 \cup Lost(Tabs, d, DOMAIN Tabs[d]), h2, Tabs', Maps') BY <1>7, <1>8, <1>10, TakeTables
<1>12. Lost(Maps, d, DOMAIN Maps[d]) = Mapped(space[d]) BY TabsAre DEF Lost, Mapped
<1>13. Lost(Tabs, d, DOMAIN Tabs[d]) = Tables(space[d]) BY TabsAre DEF Lost, Tables
<1>14. F2 \cup Lost(Tabs, d, DOMAIN Tabs[d]) = fr \cup PagesOf(d) BY <1>3, <1>9, <1>12, <1>13 DEF PagesOf
<1> QED BY <1>2, <1>11, <1>14

-----------------------------------------------------------------------------
(* What a step leaves alone.                                               *)

SpaceOK == DOMAIN space \in SUBSET Pages /\ space \in [DOMAIN space -> Spaces]
TabSet  == Partial(0 .. KTable, Pages)
MapSet  == Partial(0 .. Vpn(KERNBASE), Entries)

(* A page is mapped. *)
LEMMA MapPut ==
  ASSUME NEW m \in MapSet, NEW v \in 0 .. Vpn(KERNBASE), NEW y \in Entries
  PROVE  /\ Put(m, v, y) \in MapSet /\ DOMAIN Put(m, v, y) = DOMAIN m \cup {v}
         /\ Put(m, v, y)[v] = y /\ \A w \in DOMAIN m \ {v} : Put(m, v, y)[w] = m[w]
<1>1. PICK S : S = 0 .. Vpn(KERNBASE) OBVIOUS
<1>2. m \in Partial(S, Entries) /\ v \in S /\ MapSet = Partial(S, Entries) BY <1>1 DEF MapSet
<1>3. Put(m, v, y) \in Partial(S, Entries) BY <1>2, PutPartial
<1>4. DOMAIN Put(m, v, y) = DOMAIN m \cup {v} /\ Put(m, v, y)[v] = y /\ \A w \in DOMAIN m \ {v} : Put(m, v, y)[w] = m[w]
  BY DEF Put
<1> QED BY <1>2, <1>3, <1>4

(* A page table is added. *)
LEMMA TabPut ==
  ASSUME NEW t \in TabSet, NEW i \in 0 .. KTable, NEW k \in Pages
  PROVE  /\ Put(t, i, k) \in TabSet /\ DOMAIN Put(t, i, k) = DOMAIN t \cup {i}
         /\ Put(t, i, k)[i] = k /\ \A j \in DOMAIN t \ {i} : Put(t, i, k)[j] = t[j]
<1>1. PICK S : S = 0 .. KTable OBVIOUS
<1>2. t \in Partial(S, Pages) /\ i \in S /\ TabSet = Partial(S, Pages) BY <1>1 DEF TabSet
<1> QED BY <1>2, PutPartial

(* Pages are unmapped. *)
LEMMA MapDrop ==
  ASSUME NEW m \in MapSet, NEW D
  PROVE  Drop(m, D) \in MapSet /\ DOMAIN Drop(m, D) = DOMAIN m \ D
<1>1. PICK S : S = 0 .. Vpn(KERNBASE) OBVIOUS
<1>2. m \in Partial(S, Entries) /\ MapSet = Partial(S, Entries) BY <1>1 DEF MapSet
<1>3. Drop(m, D) \in Partial(S, Entries) BY <1>2, DropPartial
<1>4. DOMAIN Drop(m, D) = DOMAIN m \ D BY DEF Drop
<1> QED BY <1>2, <1>3, <1>4

(* One address space changes. *)
LEMMA SpaceSet ==
  ASSUME VmTypeOK, NEW d \in DOMAIN space, NEW s \in Spaces, space' = [space EXCEPT ![d] = s]
  PROVE  /\ SpaceOK' /\ DOMAIN space' = DOMAIN space /\ space'[d] = s
         /\ \A e \in DOMAIN space \ {d} : space'[e] = space[e]
<1>2. DOMAIN space \in SUBSET Pages /\ space \in [DOMAIN space -> Spaces] BY DEF VmTypeOK
<1>4. DOMAIN space' = DOMAIN space /\ space'[d] = s /\ \A e \in DOMAIN space \ {d} : space'[e] = space[e]
  OBVIOUS
<1>5. space' \in [DOMAIN space -> Spaces] BY <1>2
<1> QED BY <1>2, <1>4, <1>5 DEF SpaceOK

(* Its tables and pages do. *)
LEMMA SpaceEdit ==
  ASSUME VmTypeOK, NEW d \in DOMAIN space, NEW t \in TabSet, NEW m \in MapSet,
         NEW s, s = [tab |-> t, map |-> m], space' = [space EXCEPT ![d] = s]
  PROVE  /\ SpaceOK' /\ DOMAIN space' = DOMAIN space /\ space'[d].tab = t /\ space'[d].map = m
         /\ \A e \in DOMAIN space \ {d} : space'[e] = space[e]
<1>1. s \in Spaces BY DEF Spaces, TabSet, MapSet
<1>2. SpaceOK' /\ DOMAIN space' = DOMAIN space /\ space'[d] = s /\ \A e \in DOMAIN space \ {d} : space'[e] = space[e]
  BY <1>1, SpaceSet
<1> QED BY <1>2

(* Its pages do. *)
LEMMA MapEdit ==
  ASSUME VmTypeOK, NEW d \in DOMAIN space, NEW m \in MapSet, space' = [space EXCEPT ![d].map = m]
  PROVE  /\ SpaceOK' /\ DOMAIN space' = DOMAIN space /\ space'[d].tab = space[d].tab /\ space'[d].map = m
         /\ \A e \in DOMAIN space \ {d} : space'[e] = space[e]
<1>1. PICK s : s = [space[d] EXCEPT !.map = m] OBVIOUS
<1>2. s = [tab |-> space[d].tab, map |-> m] BY <1>1, SpaceFields
<1>3. s \in Spaces BY <1>2, SpaceFields DEF Spaces, MapSet
<1>4. space' = [space EXCEPT ![d] = s] BY <1>1
<1> QED BY <1>2, <1>3, <1>4, SpaceSet, ZenonT(60)

(* Its tables do. *)
LEMMA TabEdit ==
  ASSUME VmTypeOK, NEW d \in DOMAIN space, NEW t \in TabSet, space' = [space EXCEPT ![d].tab = t]
  PROVE  /\ SpaceOK' /\ DOMAIN space' = DOMAIN space /\ space'[d].tab = t /\ space'[d].map = space[d].map
         /\ \A e \in DOMAIN space \ {d} : space'[e] = space[e]
<1>1. PICK s : s = [space[d] EXCEPT !.tab = t] OBVIOUS
<1>2. s = [tab |-> t, map |-> space[d].map] BY <1>1, SpaceFields
<1>3. s \in Spaces BY <1>2, SpaceFields DEF Spaces, TabSet
<1>4. space' = [space EXCEPT ![d] = s] BY <1>1
<1> QED BY <1>2, <1>3, <1>4, SpaceSet, ZenonT(60)

(* One is freed. *)
LEMMA SpaceDrop ==
  ASSUME VmTypeOK, NEW d, space' = Drop(space, {d})
  PROVE  SpaceOK' /\ DOMAIN space' = DOMAIN space \ {d} /\ \A e \in DOMAIN space' : space'[e] = space[e]
<1>1. DOMAIN space \in SUBSET Pages /\ space \in [DOMAIN space -> Spaces] BY DEF VmTypeOK
<1>2. DOMAIN space' = DOMAIN space \ {d} /\ \A e \in DOMAIN space' : space'[e] = space[e] BY DEF Drop
<1>3. space' \in [DOMAIN space \ {d} -> Spaces] BY <1>1 DEF Drop
<1> QED BY <1>1, <1>2, <1>3 DEF SpaceOK

(* None does. *)
LEMMA SpaceSame ==
  ASSUME VmTypeOK, UNCHANGED space
  PROVE  SpaceOK'
BY DEF VmTypeOK, SpaceOK

(* The directories stay with their processes. *)
LEMMA DirsStay ==
  ASSUME DirInv, DOMAIN space' = DOMAIN space,
         \A q \in Procs : proc'[q].pgdir = proc[q].pgdir /\ Building(q)' = Building(q)
  PROVE  DirInv'
BY DEF DirInv

(* The children of fork() stay so. *)
LEMMA ChildrenStay ==
  ASSUME VmTypeOK, ChildInv,
         \A q \in Procs : task'[q].op = "fork" =>
           task[q].op = "fork" /\ task'[q].child = task[q].child
           /\ proc'[task[q].child].state = proc[task[q].child].state
  PROVE  ChildInv'
BY DEF ChildInv

(* A step of the processes in X on the directories in Y. *)
Aside(X, Y) ==
    /\ \A q \in Procs \ X : /\ proc'[q] = proc[q] /\ cr3'[q] = cr3[q] /\ task'[q] = task[q]
                            /\ q \in emptied' <=> q \in emptied
                            /\ proc[q].pgdir \notin Y /\ Building(q) \notin Y
    /\ \A e \in DOMAIN space \ Y : e \in DOMAIN space' /\ space'[e] = space[e]
Kept(X, Y) == (\A q \in Procs \ X : Own(q)') /\ \A e \in DOMAIN space \ Y : Tabled(space'[e])

(* A process that takes no part, and the other directories. *)
LEMMA Others ==
  ASSUME VmInv, NEW X, NEW Y, Aside(X, Y)
  PROVE  Kept(X, Y)
<1> USE DEF Aside
<1>1. ASSUME NEW q \in Procs \ X PROVE Own(q)'
  <2>0. Own(q) /\ VmTypeOK /\ PageInv /\ DirInv BY DEF VmInv
  <2>1. /\ proc'[q] = proc[q] /\ cr3'[q] = cr3[q] /\ task'[q] = task[q]
        /\ q \in emptied' <=> q \in emptied
    OBVIOUS
  <2>2. ProcInv(q)' BY <2>0, <2>1 DEF Own, ProcInv
  <2>3. proc[q].pgdir # NoPage => space'[proc[q].pgdir] = space[proc[q].pgdir] BY <2>0, OwnDirs
  <2>4. Building(q) # NoPage => space'[Building(q)] = space[Building(q)] BY <2>0, OwnDirs
  <2>5. proc[q].state = "LIVE" => proc[q].pgdir # NoPage BY <2>0 DEF Own, ProcInv
  <2>6. task[q].op # "none" => proc[q].state = "LIVE" BY <2>0 DEF Own, ProcInv
  <2>7. ImageInv(q)' BY <2>0, <2>1, <2>3, <2>5 DEF Own, ImageInv
  <2>8. ASSUME task[q].op = "sbrk" PROVE SbrkInv(q)'
    <3>1. SbrkInv(q) /\ space'[task[q].dir] = space[task[q].dir] BY <2>0, <2>3, <2>5, <2>6, <2>8 DEF Own, SbrkInv
    <3>2. AllocInv(task[q]) => AllocInv(task[q])' BY <2>1, <3>1 DEF AllocInv, NoTable
    <3> QED BY <2>1, <3>1, <3>2 DEF SbrkInv
  <2>9. ASSUME task[q].op = "fork" PROVE ForkInv(q)'
    <3>1. ForkInv(q) BY <2>0, <2>9 DEF Own
    <3>2. task[q].dir # NoPage => space'[task[q].dir] = space[task[q].dir] BY <2>4, <2>9 DEF Building
    <3> QED BY <2>1, <3>1, <3>2 DEF ForkInv, NoTable
  <2>10. ASSUME task[q].op = "exec" PROVE ExecInv(q)'
    <3>1. ExecInv(q) BY <2>0, <2>10 DEF Own
    <3>2. task[q].dir # NoPage => space'[task[q].dir] = space[task[q].dir] BY <2>4, <2>10 DEF Building
    <3>3. task[q].dir # NoPage /\ AllocInv(task[q]) => AllocInv(task[q])' BY <2>1, <3>2 DEF AllocInv, NoTable
    <3> QED BY <2>1, <3>1, <3>2, <3>3 DEF ExecInv
  <2> QED BY <2>1, <2>2, <2>7, <2>8, <2>9, <2>10 DEF Own
<1>2. \A e \in DOMAIN space \ Y : Tabled(space'[e]) BY DEF VmInv
<1> QED BY <1>1, <1>2 DEF Kept

(* Process p moves on in its call. *)
LEMMA Moves ==
  ASSUME VmTypeOK, NEW p \in Procs, NEW t \in Calls, Goto(p, t)
  PROVE  /\ task' \in [Procs -> Calls]
         /\ task'[p] = t /\ \A q \in Procs \ {p} : task'[q] = task[q] /\ Spare(q)' = Spare(q) /\ Building(q)' = Building(q)
         /\ Spare(p)' = (IF t.op # "none" THEN t.mem ELSE NoPage)
         /\ Building(p)' = (IF t.op \in {"fork", "exec"} THEN t.dir ELSE NoPage)
<1> PICK TT : TT = Calls OBVIOUS
<1>1. task \in [Procs -> TT] /\ t \in TT BY DEF VmTypeOK
<1>2. task' = [task EXCEPT ![p] = t] BY DEF Goto
<1>3. task' \in [Procs -> TT] /\ task'[p] = t /\ \A q \in Procs \ {p} : task'[q] = task[q] BY <1>1, <1>2
<1> QED BY <1>3 DEF Spare, Building

(* The types, put together. *)
LEMMA Types ==
  ASSUME freelist' \subseteq Pages, SpaceOK',
         proc' \in [Procs -> [state : {"UNUSED", "EMBRYO", "LIVE", "ZOMBIE"}, kstack : MaybePage,
                              pgdir : MaybePage, sz : Nat]],
         cr3' \in [Procs -> MaybePage],
         task' \in [Procs -> Calls],
         emptied' \in SUBSET Procs, panic' \in BOOLEAN
  PROVE  VmTypeOK'
BY DEF VmTypeOK, SpaceOK

(* The page kalloc() gives. *)
LEMMA FreePage ==
  ASSUME VmInv, freelist # {}
  PROVE  /\ Kalloc \in freelist /\ Kalloc \in Pages /\ Kalloc # NoPage /\ Kalloc \notin DOMAIN space
         /\ \A c \in SlotKinds, p \in Procs : Slot(c, p) # Kalloc
<1>1. Kalloc \in freelist BY DEF Kalloc
<1>2. VmTypeOK /\ PageInv /\ DirInv BY DEF VmInv
<1> HIDE DEF Kalloc
<1> QED BY <1>1, <1>2, Distinct, NoPageIsNone

-----------------------------------------------------------------------------
(* allocuvm().                                                             *)

(* What its loop relies on. *)
LEMMA LoopFacts ==
  ASSUME VmInv, NEW p \in Procs, Loop(p), NEW t, t = task[p]
  PROVE  /\ t.op = "sbrk" => t \in SbrkTasks /\ t.dir = proc[p].pgdir /\ SbrkInv(p) /\ Building(p) = NoPage
         /\ t.op = "exec" => t \in ExecTasks /\ t.dir = Building(p) /\ ExecInv(p)
         /\ t.op \in {"sbrk", "exec"} /\ t.stage = "alloc"
         /\ AllocInv(t) /\ t.dir # NoPage /\ t.dir \in Pages /\ t.dir \in DOMAIN space /\ Tabled(space[t.dir])
         /\ proc[p].state = "LIVE" /\ Own(p) /\ p \notin emptied
         /\ t.old \in Nat /\ t.new \in Nat /\ t.a \in Nat /\ t.mem \in MaybePage /\ Spare(p) = t.mem
         /\ \A q \in Procs \ {p} : proc[q].pgdir # t.dir /\ Building(q) # t.dir
         /\ ~TooLarge(t) /\ ~AllDone(t) => t.a < t.new /\ t.a < KERNBASE /\ t.new < KERNBASE /\ t.old <= t.new
<1>1. VmTypeOK /\ PageInv /\ DirInv /\ Own(p) BY DEF VmInv
<1>2. t.op \in {"sbrk", "exec"} /\ t.stage = "alloc" BY DEF Loop
<1>3. t.op = "sbrk" => t \in SbrkTasks /\ SbrkInv(p) /\ Building(p) = NoPage
  BY <1>1, TaskKinds DEF Own, Building
<1>4. t.op = "exec" => t \in ExecTasks /\ ExecInv(p) /\ t.dir = Building(p)
  BY <1>1, TaskKinds DEF Own, Building
<1>5. proc[p].state = "LIVE" /\ p \notin emptied /\ proc[p].pgdir # NoPage
  BY <1>1, <1>2 DEF Own, ProcInv
<1>6. t.op = "sbrk" => t.dir = proc[p].pgdir /\ AllocInv(t) BY <1>2, <1>3 DEF SbrkInv
<1>7. t.op = "exec" => t.dir # NoPage /\ AllocInv(t) BY <1>2, <1>4 DEF ExecInv
<1>8. t.dir # NoPage /\ AllocInv(t) /\ t.dir \in {proc[p].pgdir, Building(p)}
  BY <1>2, <1>4, <1>5, <1>6, <1>7
<1>9. t.dir \in DOMAIN space /\ \A q \in Procs \ {p} : proc[q].pgdir # t.dir /\ Building(q) # t.dir
  BY <1>1, <1>8, OwnDirs
<1>10. t.dir \in Pages BY <1>1, <1>9 DEF VmTypeOK
<1>11. Tabled(space[t.dir]) BY <1>9 DEF VmInv
<1>12. t.old \in Nat /\ t.new \in Nat /\ t.a \in Nat /\ t.mem \in MaybePage
  <2>1. CASE t.op = "sbrk" BY <1>3, <2>1 DEF SbrkTasks
  <2>2. CASE t.op = "exec" BY <1>4, <2>2 DEF ExecTasks
  <2> QED BY <1>2, <2>1, <2>2
<1>13. Spare(p) = t.mem BY <1>2 DEF Spare
<1>14. ~TooLarge(t) /\ ~AllDone(t) => t.a < t.new /\ t.a < KERNBASE /\ t.new < KERNBASE /\ t.old <= t.new
  BY <1>12, Constants DEF TooLarge, AllDone
<1> QED BY <1>1, <1>2, <1>3, <1>4, <1>5, <1>6, <1>8, <1>9, <1>10, <1>11, <1>12, <1>13, <1>14

(* The next turn of the loop. *)
Turn(t, b, m) == [t EXCEPT !.a = b, !.mem = m]
LEMMA LoopTask ==
  ASSUME NEW t, t \in SbrkTasks \/ t \in ExecTasks, NEW b \in Nat, NEW m \in MaybePage
  PROVE  /\ Turn(t, b, m) \in Calls
         /\ Turn(t, b, m).op = t.op /\ Turn(t, b, m).stage = t.stage /\ Turn(t, b, m).dir = t.dir
         /\ Turn(t, b, m).old = t.old /\ Turn(t, b, m).new = t.new
         /\ Turn(t, b, m).a = b /\ Turn(t, b, m).mem = m
         /\ t \in SbrkTasks => Turn(t, b, m) \in SbrkTasks
         /\ t \in ExecTasks => Turn(t, b, m) \in ExecTasks /\ Turn(t, b, m).segs = t.segs /\ Turn(t, b, m).sz = t.sz
<1>1. CASE t \in SbrkTasks
  <2>1. t.op = "sbrk" /\ Turn(t, b, m) \in SbrkTasks BY <1>1 DEF SbrkTasks, Turn
  <2>2. t \notin ExecTasks BY <2>1 DEF ExecTasks
  <2> QED BY <1>1, <2>1, <2>2 DEF SbrkTasks, Turn, Calls
<1>2. CASE t \in ExecTasks
  <2>1. t.op = "exec" /\ Turn(t, b, m) \in ExecTasks BY <1>2 DEF ExecTasks, Turn
  <2>2. t \notin SbrkTasks BY <2>1 DEF SbrkTasks
  <2> QED BY <1>2, <2>1, <2>2 DEF ExecTasks, Turn, Calls
<1> QED BY <1>1, <1>2

(* The invariant after one. *)
LEMMA LoopKeeps ==
  ASSUME VmInv, NEW p \in Procs, Loop(p), NEW t, t = task[p], NEW b \in Nat, NEW m \in MaybePage,
         NEW t2, t2 = Turn(t, b, m), Goto(p, t2),
         UNCHANGED <<proc, cr3, emptied, panic>>,
         freelist' \subseteq Pages, SpaceOK', DOMAIN space' = DOMAIN space,
         \A e \in DOMAIN space \ {t.dir} : space'[e] = space[e],
         AllocInv(t2)', Tabled(space'[t.dir])
  PROVE  /\ VmTypeOK' /\ (\A q \in Procs : Building(q)' = Building(q))
         /\ (\A q \in Procs \ {p} : Spare(q)' = Spare(q)) /\ Spare(p)' = m
         /\ (PageInv' => VmInv')
<1>1. /\ t.op = "sbrk" => t \in SbrkTasks /\ t.dir = proc[p].pgdir /\ SbrkInv(p) /\ Building(p) = NoPage
      /\ t.op = "exec" => t \in ExecTasks /\ t.dir = Building(p) /\ ExecInv(p)
      /\ t.op \in {"sbrk", "exec"} /\ t.stage = "alloc"
      /\ AllocInv(t) /\ t.dir # NoPage /\ t.dir \in Pages /\ t.dir \in DOMAIN space
      /\ proc[p].state = "LIVE" /\ Own(p) /\ p \notin emptied
      /\ \A q \in Procs \ {p} : proc[q].pgdir # t.dir /\ Building(q) # t.dir
  BY LoopFacts
<1>2. /\ t2 \in Calls
      /\ t2.op = t.op /\ t2.stage = t.stage /\ t2.dir = t.dir /\ t2.old = t.old /\ t2.new = t.new
      /\ t2.mem = m
      /\ t.op = "exec" => t2 \in ExecTasks /\ t2.segs = t.segs /\ t2.sz = t.sz
  <2>1. t \in SbrkTasks \/ t \in ExecTasks BY <1>1
  <2> QED BY <1>1, <2>1, LoopTask
<1>3. VmTypeOK /\ PageInv /\ DirInv /\ ChildInv /\ (panic => emptied # {}) BY DEF VmInv
<1>4. /\ task' \in [Procs -> Calls]
      /\ task'[p] = t2 /\ \A q \in Procs \ {p} : task'[q] = task[q] /\ Spare(q)' = Spare(q) /\ Building(q)' = Building(q)
      /\ Spare(p)' = (IF t2.op # "none" THEN t2.mem ELSE NoPage)
      /\ Building(p)' = (IF t2.op \in {"fork", "exec"} THEN t2.dir ELSE NoPage)
  BY <1>2, <1>3, Moves
<1>5. VmTypeOK' BY <1>3, <1>4, Types DEF VmTypeOK
<1>6. Spare(p)' = m /\ Building(p)' = Building(p) BY <1>1, <1>2, <1>4
<1>7. DirInv' BY <1>3, <1>4, <1>6, DirsStay
<1>8. ChildInv'
  <2>0. task'[p].op # "fork" BY <1>1, <1>2, <1>4
  <2>1. \A q \in Procs : task'[q].op = "fork" => task'[q] = task[q] BY <1>4, <2>0
  <2> QED BY <1>3, <2>1, ChildrenStay
<1>9. /\ \A q \in Procs \ {p} : Own(q)'
      /\ \A e \in DOMAIN space \ {t.dir} : Tabled(space'[e])
  <2>1. Aside({p}, {t.dir}) BY <1>1, <1>4 DEF Aside
  <2>2. Kept({p}, {t.dir}) BY <2>1, Others
  <2> QED BY <2>2 DEF Kept
<1>10. Own(p)'
  <2>1. ProcInv(p)' BY <1>1, <1>2, <1>4 DEF Own, ProcInv
  <2>2. CASE t.op = "sbrk"
    <3>1. ImageInv(p)' BY <1>1, <1>2, <1>4, <2>2 DEF ImageInv
    <3>2. SbrkInv(p)' BY <1>1, <1>2, <1>4, <2>2 DEF SbrkInv
    <3> QED BY <1>2, <1>4, <2>1, <2>2, <3>1, <3>2 DEF Own
  <2>3. CASE t.op = "exec"
    <3>1. proc[p].pgdir \in DOMAIN space /\ proc[p].pgdir # t.dir
      <4>1. proc[p].pgdir # NoPage BY <1>1 DEF Own, ProcInv
      <4> QED BY <1>1, <1>3, <2>3, <4>1, OwnDirs
    <3>2. ImageInv(p)' BY <1>1, <1>2, <1>4, <2>3, <3>1 DEF Own, ImageInv
    <3>3. ExecInv(p)' BY <1>1, <1>2, <1>4, <2>3 DEF ExecInv
    <3> QED BY <1>2, <1>4, <2>1, <2>3, <3>2, <3>3 DEF Own
  <2> QED BY <1>1, <2>2, <2>3
<1>11. \A q \in Procs : Own(q)' BY <1>9, <1>10
<1>12. \A e \in DOMAIN space' : Tabled(space'[e]) BY <1>9
<1>13. PageInv' => VmInv' BY <1>3, <1>5, <1>7, <1>8, <1>11, <1>12 DEF VmInv
<1>14. \A q \in Procs : Building(q)' = Building(q) BY <1>4, <1>6
<1> QED BY <1>4, <1>5, <1>6, <1>13, <1>14

(* The page at t.a comes next. *)
LEMMA LoopPage ==
  ASSUME VmInv, NEW p \in Procs, Loop(p), NEW t, t = task[p], t.a < t.new, t.a < KERNBASE, NEW v, v = Vpn(t.a)
  PROVE  /\ v \in 0 .. Vpn(KERNBASE) /\ v \in Nat /\ v \notin DOMAIN space[t.dir].map
         /\ PDX(v) \in 0 .. KTable /\ PDX(v) \in Nat
         /\ (t.a + PGSIZE) % PGSIZE = 0 /\ t.a + PGSIZE \in Nat /\ t.a + PGSIZE < t.new + PGSIZE
         /\ t.old <= KERNBASE /\ PGROUNDUP(t.old) <= t.a + PGSIZE
         /\ Below(t.a + PGSIZE) = DOMAIN space[t.dir].map \cup {v}
<1> USE Constants
<1>1. AllocInv(t) /\ t.a \in Nat /\ t.new \in Nat /\ t.old \in Nat BY LoopFacts
<1>2. t.a % PGSIZE = 0 /\ t.old <= KERNBASE /\ PGROUNDUP(t.old) <= t.a /\ DOMAIN space[t.dir].map = Below(t.a)
  BY <1>1 DEF AllocInv
<1>3. PICK a \in Nat : a = t.a BY <1>1
<1>4. /\ Vpn(a) \in 0 .. Vpn(KERNBASE)
      /\ Vpn(a) \notin Below(a) /\ Below(a + PGSIZE) = Below(a) \cup {Vpn(a)}
      /\ PDX(Vpn(a)) \in 0 .. KTable
      /\ (a + PGSIZE) % PGSIZE = 0
  BY <1>2, <1>3, NextPage
<1>5. PGROUNDUP(t.old) \in Nat BY <1>1, RoundUp
<1>6. v = Vpn(a) BY <1>3
<1>7. v \in 0 .. Vpn(KERNBASE) /\ v \in Nat /\ v \notin DOMAIN space[t.dir].map
      /\ Below(t.a + PGSIZE) = DOMAIN space[t.dir].map \cup {v}
  BY <1>2, <1>3, <1>4, <1>6
<1>8. PDX(v) \in 0 .. KTable /\ PDX(v) \in Nat BY <1>4, <1>6
<1> QED BY <1>1, <1>2, <1>3, <1>4, <1>5, <1>7, <1>8

(* kalloc() for the loop. *)
LEMMA AllocPageKeeps ==
  ASSUME VmInv, NEW p \in Procs, AllocPage(p)
  PROVE  VmInv'
<1>0. PICK t, k, d, v : t = task[p] /\ k = Kalloc /\ d = t.dir /\ v = Vpn(t.a) OBVIOUS
<1>1. Loop(p) /\ ~TooLarge(t) /\ ~AllDone(t) /\ t.mem = NoPage /\ freelist # {}
      /\ UNCHANGED <<proc, cr3, emptied, panic>> /\ freelist' = freelist \ {k}
  BY <1>0 DEF AllocPage
<1>2. /\ AllocInv(t) /\ d # NoPage /\ d \in Pages /\ d \in DOMAIN space /\ Tabled(space[d])
      /\ t.old \in Nat /\ t.new \in Nat /\ t.a \in Nat /\ Spare(p) = NoPage
      /\ t.a < t.new /\ t.a < KERNBASE /\ t.new < KERNBASE
      /\ t \in SbrkTasks \/ t \in ExecTasks
  BY <1>0, <1>1, LoopFacts
<1>3. /\ v \in 0 .. Vpn(KERNBASE) /\ v \in Nat /\ v \notin DOMAIN space[d].map
      /\ PDX(v) \in 0 .. KTable
      /\ (t.a + PGSIZE) % PGSIZE = 0 /\ t.a + PGSIZE \in Nat /\ t.a + PGSIZE < t.new + PGSIZE
      /\ t.old <= KERNBASE /\ PGROUNDUP(t.old) <= t.a + PGSIZE
      /\ Below(t.a + PGSIZE) = DOMAIN space[d].map \cup {v}
  BY <1>0, <1>1, <1>2, LoopPage
<1>4. k \in freelist /\ k \in Pages /\ k # NoPage /\ k \in MaybePage BY <1>0, <1>1, FreePage DEF MaybePage
<1>5. VmTypeOK /\ PageInv /\ freelist' \subseteq Pages /\ NoPage \in MaybePage BY <1>1 DEF VmInv, VmTypeOK, MaybePage
<1>6. Slots \in Holdings /\ DOMAIN Maps = DOMAIN space /\ DOMAIN Maps[d] = DOMAIN space[d].map
  BY <1>2, <1>5, SlotTypes, TabsAre
<1>7. CASE PDX(v) \in DOMAIN space[d].tab
  <2>1. PICK m, b, y : m = Put(space[d].map, v, y) /\ b = t.a + PGSIZE /\ y = [page |-> k, user |-> TRUE] OBVIOUS
  <2>2. y \in Entries /\ y.page = k BY <1>4, <2>1 DEF Entries
  <2>3. space[d].map \in MapSet BY <1>2, <1>5, SpaceFields DEF MapSet
  <2>4. m \in MapSet /\ DOMAIN m = DOMAIN space[d].map \cup {v} BY <1>3, <2>1, <2>2, <2>3, MapPut
  <2>5. space' = [space EXCEPT ![d].map = m] BY <1>0, <1>7, <2>1 DEF AllocPage
  <2>6. /\ SpaceOK' /\ DOMAIN space' = DOMAIN space /\ space'[d].tab = space[d].tab /\ space'[d].map = m
        /\ \A e \in DOMAIN space \ {d} : space'[e] = space[e]
    BY <1>2, <1>5, <2>4, <2>5, MapEdit
  <2>7. Goto(p, Turn(t, b, NoPage))
    <3>1. Goto(p, [t EXCEPT !.a = b]) BY <1>0, <1>7, <2>1 DEF AllocPage
    <3>2. [t EXCEPT !.a = b] = Turn(t, b, NoPage)
      <4>1. CASE t \in SbrkTasks BY <1>1, <4>1 DEF Turn, SbrkTasks
      <4>2. CASE t \in ExecTasks BY <1>1, <4>2 DEF Turn, ExecTasks
      <4> QED BY <1>2, <4>1, <4>2
    <3> QED BY <3>1, <3>2
  <2>8. PICK t2 : t2 = Turn(t, b, NoPage) OBVIOUS
  <2>9. t2.a = b /\ t2.mem = NoPage /\ t2.dir = d /\ t2.old = t.old /\ t2.new = t.new
    <3>1. b \in Nat BY <1>3, <2>1
    <3> QED BY <1>0, <1>2, <1>5, <2>8, <3>1, LoopTask
  <2>10. AllocInv(t2)' BY <1>2, <1>3, <2>1, <2>4, <2>6, <2>9 DEF AllocInv
  <2>11. Tabled(space'[d]) BY <1>2, <1>7, <2>4, <2>6 DEF Tabled
  <2>12. /\ VmTypeOK' /\ (\A q \in Procs : Building(q)' = Building(q))
         /\ (\A q \in Procs \ {p} : Spare(q)' = Spare(q)) /\ Spare(p)' = NoPage
         /\ (PageInv' => VmInv')
    BY <1>0, <1>1, <1>3, <1>5, <2>1, <2>6, <2>7, <2>8, <2>10, <2>11, LoopKeeps
  <2>13. Slots' = Slots BY <1>1, <1>2, <1>5, <2>12, SlotsSame
  <2>14. Tabs' = Tabs BY <2>6, TabsSame
  <2>15. Adds(Maps, Maps', d, v, k) BY <1>2, <1>3, <2>1, <2>2, <2>6, MapsAdd
  <2>16. Exact(freelist \ {k}, Slots, Tabs, Maps') BY <1>2, <1>3, <1>4, <1>5, <1>6, <2>15, GiveMapped DEF PageInv
  <2> QED BY <1>1, <2>12, <2>13, <2>14, <2>16 DEF PageInv
<1>8. CASE PDX(v) \notin DOMAIN space[d].tab
  <2>1. UNCHANGED space BY <1>0, <1>8 DEF AllocPage
  <2>2. Goto(p, Turn(t, t.a, k))
    <3>1. Goto(p, [t EXCEPT !.mem = k]) BY <1>0, <1>8 DEF AllocPage
    <3>2. [t EXCEPT !.mem = k] = Turn(t, t.a, k)
      <4>1. CASE t \in SbrkTasks BY <4>1 DEF Turn, SbrkTasks
      <4>2. CASE t \in ExecTasks BY <4>2 DEF Turn, ExecTasks
      <4> QED BY <1>2, <4>1, <4>2
    <3> QED BY <3>1, <3>2
  <2>3. PICK t2 : t2 = Turn(t, t.a, k) OBVIOUS
  <2>4. t2.a = t.a /\ t2.mem = k /\ t2.dir = d /\ t2.old = t.old /\ t2.new = t.new
    BY <1>0, <1>2, <1>4, <2>3, LoopTask
  <2>5. AllocInv(t2)' BY <1>0, <1>2, <1>8, <2>1, <2>4 DEF AllocInv, NoTable
  <2>6. /\ VmTypeOK' /\ (\A q \in Procs : Building(q)' = Building(q))
        /\ (\A q \in Procs \ {p} : Spare(q)' = Spare(q)) /\ Spare(p)' = k
        /\ (PageInv' => VmInv')
    BY <1>0, <1>1, <1>2, <1>4, <1>5, <2>1, <2>2, <2>3, <2>5, LoopKeeps, SpaceSame
  <2>7. Slots' = [Slots EXCEPT !["mem"][p] = k] BY <1>1, <1>5, <2>6, SpareSet
  <2>8. Tabs' = Tabs /\ Maps' = Maps BY <2>1 DEF Tabs, Maps
  <2>9. "mem" \in SlotKinds /\ Slots["mem"][p] = NoPage BY <1>2, <1>5, SlotTypes, SlotIs DEF SlotKinds
  <2>10. Exact(freelist \ {k}, [Slots EXCEPT !["mem"][p] = k], Tabs, Maps) BY <1>4, <1>5, <1>6, <2>9, GiveSlot DEF PageInv
  <2> QED BY <1>1, <2>6, <2>7, <2>8, <2>10 DEF PageInv
<1> QED BY <1>7, <1>8

(* kalloc() for the page table. *)
LEMMA AllocTableKeeps ==
  ASSUME VmInv, NEW p \in Procs, AllocTable(p)
  PROVE  VmInv'
<1>0. PICK t, k, d, v, g : t = task[p] /\ k = Kalloc /\ d = t.dir /\ v = Vpn(t.a) /\ g = t.mem OBVIOUS
<1>1. Loop(p) /\ g # NoPage /\ freelist # {}
      /\ UNCHANGED <<proc, cr3, emptied, panic>> /\ freelist' = freelist \ {k}
  BY <1>0 DEF AllocTable
<1>2. /\ AllocInv(t) /\ d # NoPage /\ d \in Pages /\ d \in DOMAIN space /\ Tabled(space[d])
      /\ t.old \in Nat /\ t.new \in Nat /\ t.a \in Nat /\ Spare(p) = g /\ g \in MaybePage
      /\ t \in SbrkTasks \/ t \in ExecTasks
  BY <1>0, <1>1, LoopFacts
<1>21. t.a < t.new /\ t.new < KERNBASE /\ t.a < KERNBASE /\ NoTable(t) BY <1>0, <1>1, <1>2, Constants DEF AllocInv
<1>3. /\ v \in 0 .. Vpn(KERNBASE) /\ v \in Nat /\ v \notin DOMAIN space[d].map
      /\ PDX(v) \in 0 .. KTable /\ PDX(v) \in Nat
      /\ (t.a + PGSIZE) % PGSIZE = 0 /\ t.a + PGSIZE \in Nat /\ t.a + PGSIZE < t.new + PGSIZE
      /\ t.old <= KERNBASE /\ PGROUNDUP(t.old) <= t.a + PGSIZE
      /\ Below(t.a + PGSIZE) = DOMAIN space[d].map \cup {v}
  BY <1>0, <1>1, <1>2, <1>21, LoopPage
<1>4. k \in freelist /\ k \in Pages /\ k # NoPage /\ g \in Pages BY <1>0, <1>1, <1>2, FreePage DEF MaybePage
<1>5. VmTypeOK /\ PageInv /\ freelist' \subseteq Pages /\ NoPage \in MaybePage BY <1>1 DEF VmInv, VmTypeOK, MaybePage
<1>6. Slots \in Holdings /\ DOMAIN Maps = DOMAIN space /\ DOMAIN Maps[d] = DOMAIN space[d].map
      /\ DOMAIN Tabs = DOMAIN space /\ Tabs[d] = space[d].tab
  BY <1>2, <1>5, SlotTypes, TabsAre
<1>7. PICK i, m, b, y, tb, s : /\ i = PDX(v) /\ m = Put(space[d].map, v, y) /\ b = t.a + PGSIZE
                               /\ y = [page |-> g, user |-> TRUE] /\ tb = Put(space[d].tab, i, k)
                               /\ s = [tab |-> tb, map |-> m]
  OBVIOUS
<1>8. i \notin DOMAIN space[d].tab BY <1>0, <1>7, <1>21 DEF NoTable
<1>9. y \in Entries /\ y.page = g BY <1>4, <1>7 DEF Entries
<1>10. space[d].map \in MapSet /\ space[d].tab \in TabSet BY <1>2, <1>5, SpaceFields DEF MapSet, TabSet
<1>11. m \in MapSet /\ DOMAIN m = DOMAIN space[d].map \cup {v} BY <1>3, <1>7, <1>9, <1>10, MapPut
<1>12. tb \in TabSet /\ DOMAIN tb = DOMAIN space[d].tab \cup {i} BY <1>3, <1>4, <1>7, <1>10, TabPut
<1>13. space' = [space EXCEPT ![d] = s] BY <1>0, <1>7 DEF AllocTable
<1>14. /\ SpaceOK' /\ DOMAIN space' = DOMAIN space /\ space'[d].tab = tb /\ space'[d].map = m
       /\ \A e \in DOMAIN space \ {d} : space'[e] = space[e]
  BY <1>2, <1>5, <1>7, <1>11, <1>12, <1>13, SpaceEdit
<1>15. Goto(p, Turn(t, b, NoPage)) BY <1>0, <1>7 DEF AllocTable, Turn
<1>16. PICK t2 : t2 = Turn(t, b, NoPage) OBVIOUS
<1>17. b \in Nat BY <1>3, <1>7
<1>18. t2.a = b /\ t2.mem = NoPage /\ t2.dir = d /\ t2.old = t.old /\ t2.new = t.new
  <2>1. (t \in SbrkTasks \/ t \in ExecTasks) /\ NoPage \in MaybePage BY <1>2, <1>5
  <2>2. t2.a = b /\ t2.mem = NoPage /\ t2.dir = t.dir /\ t2.old = t.old /\ t2.new = t.new
    BY <1>16, <1>17, <2>1, LoopTask
  <2> QED BY <1>0, <2>2
<1>19. AllocInv(t2)' BY <1>3, <1>7, <1>11, <1>14, <1>18, <1>21 DEF AllocInv
<1>20. Tabled(space'[d]) BY <1>2, <1>7, <1>11, <1>12, <1>14 DEF Tabled
<1>22. /\ VmTypeOK' /\ (\A q \in Procs : Building(q)' = Building(q))
       /\ (\A q \in Procs \ {p} : Spare(q)' = Spare(q)) /\ Spare(p)' = NoPage
       /\ (PageInv' => VmInv')
  BY <1>0, <1>1, <1>5, <1>14, <1>15, <1>16, <1>17, <1>19, <1>20, LoopKeeps
<1>23. PICK h : h = [Slots EXCEPT !["mem"][p] = NoPage] OBVIOUS
<1>24. Slots' = h /\ h \in Holdings
  <2>1. Slots' = h BY <1>1, <1>5, <1>22, <1>23, SpareSet
  <2>2. h \in Holdings BY <1>5, <1>6, <1>23 DEF Holdings
  <2> QED BY <2>1, <2>2
<1>25. "mem" \in SlotKinds /\ Slots["mem"][p] = g BY <1>2, <1>5, SlotTypes, SlotIs DEF SlotKinds
<1>26. Exact(freelist \cup {g}, h, Tabs, Maps) /\ g \notin freelist
  BY <1>4, <1>5, <1>6, <1>23, <1>25, TakeSlot DEF PageInv
<1>27. Adds(Maps, Maps', d, v, g) /\ Adds(Tabs, Tabs', d, i, k)
  BY <1>2, <1>3, <1>7, <1>8, <1>9, <1>14, MapsAdd, TabsAdd
<1>28. PICK F : F = freelist \cup {g} OBVIOUS
<1>29. g \in F /\ F \ {g} = freelist BY <1>26, <1>28
<1>30. Exact(freelist, h, Tabs, Maps') BY <1>2, <1>3, <1>4, <1>6, <1>24, <1>26, <1>27, <1>28, <1>29, GiveMapped
<1>31. i \in Nat /\ i \notin DOMAIN Tabs[d] BY <1>3, <1>6, <1>7, <1>8
<1>32. Exact(freelist \ {k}, h, Tabs', Maps') BY <1>2, <1>4, <1>6, <1>24, <1>27, <1>30, <1>31, GiveTable
<1> QED BY <1>1, <1>22, <1>24, <1>32 DEF PageInv

(* The call fails. *)
Failed(t) == [t EXCEPT !.stage = "failed", !.mem = NoPage]

(* Its fields. *)
LEMMA FailedTask ==
  ASSUME NEW t, t \in SbrkTasks \/ t \in ExecTasks
  PROVE  /\ Failed(t) \in Calls /\ Failed(t).op = t.op /\ Failed(t).stage = "failed" /\ Failed(t).dir = t.dir
         /\ Failed(t).mem = NoPage
         /\ t \in SbrkTasks => Failed(t).old = t.old
<1>0. NoPage \in MaybePage BY DEF MaybePage
<1>1. CASE t \in SbrkTasks BY <1>0, <1>1 DEF SbrkTasks, Failed, Calls
<1>2. CASE t \in ExecTasks
  <2>1. t.op = "exec" /\ Failed(t) \in ExecTasks BY <1>0, <1>2 DEF ExecTasks, Failed
  <2>2. t \notin SbrkTasks BY <2>1 DEF SbrkTasks
  <2> QED BY <1>0, <1>2, <2>1, <2>2 DEF ExecTasks, Failed, Calls
<1> QED BY <1>1, <1>2

(* The invariant when the loop fails. *)
LEMMA LoopFails ==
  ASSUME VmInv, NEW p \in Procs, Loop(p), NEW t, t = task[p], Goto(p, Failed(t)),
         UNCHANGED <<proc, cr3, emptied, panic>>,
         freelist' \subseteq Pages, SpaceOK', DOMAIN space' = DOMAIN space,
         \A e \in DOMAIN space \ {t.dir} : space'[e] = space[e],
         t.op = "sbrk" => DOMAIN space'[t.dir].map = Below(t.old), Tabled(space'[t.dir])
  PROVE  /\ VmTypeOK' /\ (\A q \in Procs : Building(q)' = Building(q))
         /\ (\A q \in Procs \ {p} : Spare(q)' = Spare(q)) /\ Spare(p)' = NoPage
         /\ (PageInv' => VmInv')
<1>1. /\ t.op = "sbrk" => t \in SbrkTasks /\ t.dir = proc[p].pgdir /\ SbrkInv(p) /\ Building(p) = NoPage
      /\ t.op = "exec" => t \in ExecTasks /\ t.dir = Building(p) /\ ExecInv(p)
      /\ t.op \in {"sbrk", "exec"} /\ t.stage = "alloc"
      /\ t.dir # NoPage /\ t.dir \in Pages /\ t.dir \in DOMAIN space
      /\ proc[p].state = "LIVE" /\ Own(p) /\ p \notin emptied
      /\ \A q \in Procs \ {p} : proc[q].pgdir # t.dir /\ Building(q) # t.dir
  BY LoopFacts
<1>20. PICK t2 : t2 = Failed(t) OBVIOUS
<1>2. /\ t2 \in Calls /\ t2.op = t.op /\ t2.stage = "failed" /\ t2.dir = t.dir /\ t2.mem = NoPage
      /\ t.op = "sbrk" => t2.old = t.old
  <2>1. t \in SbrkTasks \/ t \in ExecTasks BY <1>1
  <2> QED BY <1>1, <1>20, <2>1, FailedTask
<1>3. VmTypeOK /\ PageInv /\ DirInv /\ ChildInv /\ (panic => emptied # {}) BY DEF VmInv
<1>4. /\ task' \in [Procs -> Calls]
      /\ task'[p] = t2 /\ \A q \in Procs \ {p} : task'[q] = task[q] /\ Spare(q)' = Spare(q) /\ Building(q)' = Building(q)
      /\ Spare(p)' = (IF t2.op # "none" THEN t2.mem ELSE NoPage)
      /\ Building(p)' = (IF t2.op \in {"fork", "exec"} THEN t2.dir ELSE NoPage)
  BY <1>2, <1>3, <1>20, Moves
<1>5. VmTypeOK' BY <1>3, <1>4, Types DEF VmTypeOK
<1>6. Spare(p)' = NoPage /\ Building(p)' = Building(p) BY <1>1, <1>2, <1>4
<1>7. DirInv' BY <1>3, <1>4, <1>6, DirsStay
<1>8. ChildInv'
  <2>0. task'[p].op # "fork" BY <1>1, <1>2, <1>4
  <2>1. \A q \in Procs : task'[q].op = "fork" => task'[q] = task[q] BY <1>4, <2>0
  <2> QED BY <1>3, <2>1, ChildrenStay
<1>9. /\ \A q \in Procs \ {p} : Own(q)'
      /\ \A e \in DOMAIN space \ {t.dir} : Tabled(space'[e])
  <2>1. Aside({p}, {t.dir}) BY <1>1, <1>4 DEF Aside
  <2>2. Kept({p}, {t.dir}) BY <2>1, Others
  <2> QED BY <2>2 DEF Kept
<1>10. Own(p)'
  <2>1. ProcInv(p)' BY <1>1, <1>2, <1>4 DEF Own, ProcInv
  <2>2. CASE t.op = "sbrk"
    <3>1. SbrkInv(p)' BY <1>1, <1>2, <1>4, <2>2 DEF SbrkInv
    <3>2. t.old = proc[p].sz BY <1>1, <2>2 DEF SbrkInv
    <3>3. ImageInv(p)' BY <1>1, <1>2, <1>4, <2>2, <3>2 DEF ImageInv
    <3> QED BY <1>2, <1>4, <2>1, <2>2, <3>1, <3>3 DEF Own
  <2>3. CASE t.op = "exec"
    <3>1. proc[p].pgdir \in DOMAIN space /\ proc[p].pgdir # t.dir
      <4>1. proc[p].pgdir # NoPage BY <1>1 DEF Own, ProcInv
      <4> QED BY <1>1, <1>3, <2>3, <4>1, OwnDirs
    <3>2. ImageInv(p)' BY <1>1, <1>2, <1>4, <2>3, <3>1 DEF Own, ImageInv
    <3>3. ExecInv(p)' BY <1>1, <1>2, <1>4, <2>3 DEF ExecInv
    <3> QED BY <1>2, <1>4, <2>1, <2>3, <3>2, <3>3 DEF Own
  <2> QED BY <1>1, <2>2, <2>3
<1>11. \A q \in Procs : Own(q)' BY <1>9, <1>10
<1>12. \A e \in DOMAIN space' : Tabled(space'[e]) BY <1>9
<1>13. PageInv' => VmInv' BY <1>3, <1>5, <1>7, <1>8, <1>11, <1>12 DEF VmInv
<1>14. \A q \in Procs : Building(q)' = Building(q) BY <1>4, <1>6
<1> QED BY <1>4, <1>5, <1>6, <1>13, <1>14

(* deallocuvm() from o to n bytes leaves the pages below n. *)
LEMMA DoomedRest ==
  ASSUME NEW s, NEW x \in Nat, NEW o \in Nat, NEW n \in Nat, n <= x, x <= o, DOMAIN s.map = Below(x)
  PROVE  DOMAIN s.map \ Doomed(s, o, n) = Below(n)
<1> USE Constants, KernelBase
<1>1. PICK r \in Nat : r = PGROUNDUP(n) BY RoundUp
<1>2. Below(r) = Below(n) BY <1>1, RoundUp, SamePages
<1>3. PICK T : T = 0 .. Vpn(KERNBASE) /\ T \subseteq Nat OBVIOUS
<1>4. \A v \in T : v * PGSIZE \in Nat BY <1>3
<1>5. \A v \in T : v * PGSIZE < n => v * PGSIZE < x BY <1>4
<1>6. \A v \in T : v * PGSIZE < x => v * PGSIZE < o BY <1>4
<1>7. \A v \in T : v * PGSIZE >= r <=> ~(v * PGSIZE < r) BY <1>4
<1>8. \A v \in T : v * PGSIZE < r <=> v * PGSIZE < n BY <1>2, <1>3 DEF Below
<1>9. Doomed(s, o, n) = {v \in Below(x) : v * PGSIZE >= r /\ v * PGSIZE < o} BY <1>1 DEF Doomed
<1>10. \A v : v \in Below(x) <=> v \in T /\ v * PGSIZE < x BY <1>3 DEF Below
<1>11. \A v : v \in Below(n) <=> v \in T /\ v * PGSIZE < n BY <1>3 DEF Below
<1> QED BY <1>5, <1>6, <1>7, <1>8, <1>9, <1>10, <1>11, Zenon

(* What deallocuvm() does. *)
Gone(s, o, n) == IF n >= o THEN {} ELSE Doomed(s, o, n)
LEMMA Dealloc ==
  ASSUME VmTypeOK, NEW d \in DOMAIN space, NEW o, NEW n, NEW E, deallocuvm(d, o, n, E),
         NEW D, D = Gone(space[d], o, n)
  PROVE  /\ SpaceOK' /\ DOMAIN space' = DOMAIN space /\ DOMAIN space'[d].map = DOMAIN space[d].map \ D
         /\ \A e \in DOMAIN space \ {d} : space'[e] = space[e]
         /\ freelist' = freelist \cup Lost(Maps, d, D) \cup E /\ Lost(Maps, d, D) \subseteq Pages
         /\ Loses(Maps, Maps', d, D) /\ Tabs' = Tabs /\ (Tabled(space[d]) => Tabled(space'[d]))
<1>0. D = IF n >= o THEN {} ELSE Doomed(space[d], o, n) BY DEF Gone
<1>1. D \subseteq DOMAIN space[d].map BY <1>0 DEF Doomed
<1>2. PICK m : m = Drop(space[d].map, D) OBVIOUS
<1>3. m \in MapSet /\ DOMAIN m = DOMAIN space[d].map \ D
  <2>1. space[d].map \in MapSet BY SpaceFields DEF MapSet
  <2> QED BY <1>2, <2>1, MapDrop
<1>4. space' = [space EXCEPT ![d].map = m] BY <1>0, <1>2 DEF deallocuvm
<1>5. /\ SpaceOK' /\ DOMAIN space' = DOMAIN space /\ space'[d].tab = space[d].tab /\ space'[d].map = m
      /\ \A e \in DOMAIN space \ {d} : space'[e] = space[e]
  BY <1>3, <1>4, MapEdit
<1>6. Loses(Maps, Maps', d, D) /\ Lost(Maps, d, D) = {space[d].map[v].page : v \in D}
  BY <1>1, <1>2, <1>5, MapsLose
<1>7. freelist' = freelist \cup {space[d].map[v].page : v \in D} \cup E BY <1>0 DEF deallocuvm
<1>8. Lost(Maps, d, D) \subseteq Pages BY <1>1, <1>6, SpaceFields
<1>9. Tabs' = Tabs BY <1>5, TabsSame
<1>10. Tabled(space[d]) => Tabled(space'[d]) BY <1>3, <1>5 DEF Tabled
<1> QED BY <1>3, <1>5, <1>6, <1>7, <1>8, <1>9, <1>10

(* kalloc() fails for the loop. *)
LEMMA AllocFailsKeeps ==
  ASSUME VmInv, NEW p \in Procs, AllocFails(p)
  PROVE  VmInv'
<1>0. PICK t, d, g, D : /\ t = task[p] /\ d = t.dir /\ g = t.mem
                        /\ D = Gone(space[d], t.new, t.old)
  OBVIOUS
<1>1. Loop(p) /\ ~TooLarge(t) /\ ~AllDone(t) /\ UNCHANGED <<proc, cr3, emptied, panic>>
      /\ deallocuvm(d, t.new, t.old, {g} \ {NoPage}) /\ Goto(p, Failed(t))
  BY <1>0 DEF AllocFails, Undo, Failed
<1>2. /\ AllocInv(t) /\ d # NoPage /\ d \in DOMAIN space /\ Tabled(space[d])
      /\ t.old \in Nat /\ t.new \in Nat /\ t.a \in Nat /\ Spare(p) = g /\ g \in MaybePage
      /\ t.a < t.new
  BY <1>0, <1>1, LoopFacts
<1>3. VmTypeOK /\ PageInv BY DEF VmInv
<1>4. /\ SpaceOK' /\ DOMAIN space' = DOMAIN space /\ DOMAIN space'[d].map = DOMAIN space[d].map \ D
      /\ \A e \in DOMAIN space \ {d} : space'[e] = space[e]
      /\ freelist' = freelist \cup Lost(Maps, d, D) \cup ({g} \ {NoPage}) /\ Lost(Maps, d, D) \subseteq Pages
      /\ Loses(Maps, Maps', d, D) /\ Tabs' = Tabs /\ Tabled(space'[d])
  BY <1>0, <1>1, <1>2, <1>3, Dealloc
<1>5. DOMAIN space'[d].map = Below(t.old)
  <2>1. PGROUNDUP(t.old) <= t.a /\ DOMAIN space[d].map = Below(t.a) BY <1>0, <1>2 DEF AllocInv
  <2>2. t.old <= PGROUNDUP(t.old) /\ PGROUNDUP(t.old) \in Nat BY <1>2, RoundUp
  <2>3. t.old <= t.a /\ t.a <= t.new /\ ~(t.old >= t.new) BY <1>2, <2>1, <2>2
  <2>4. DOMAIN space[d].map \ Doomed(space[d], t.new, t.old) = Below(t.old) BY <1>2, <2>1, <2>3, DoomedRest
  <2> QED BY <1>0, <1>4, <2>3, <2>4 DEF Gone
<1>6. freelist' \subseteq Pages BY <1>2, <1>3, <1>4 DEF VmTypeOK, MaybePage
<1>7. /\ VmTypeOK' /\ (\A q \in Procs : Building(q)' = Building(q))
      /\ (\A q \in Procs \ {p} : Spare(q)' = Spare(q)) /\ Spare(p)' = NoPage
      /\ (PageInv' => VmInv')
  BY <1>0, <1>1, <1>4, <1>5, <1>6, LoopFails
<1>8. Slots \in Holdings /\ DOMAIN Maps = DOMAIN space BY <1>3, SlotTypes, TabsAre
<1>9. Slots' = [Slots EXCEPT !["mem"][p] = NoPage] BY <1>1, <1>3, <1>7, SpareSet
<1>10. "mem" \in SlotKinds /\ Slots["mem"][p] = g BY <1>2, <1>3, SlotTypes, SlotIs DEF SlotKinds
<1>11. PICK F : F = freelist \cup ({g} \ {NoPage}) OBVIOUS
<1>12. Exact(F, Slots', Tabs, Maps) /\ Slots' \in Holdings
  <2>1. CASE g = NoPage
    <3>1. Slots' = Slots BY <1>8, <1>9, <1>10, <2>1 DEF Holdings
    <3>2. F = freelist BY <1>11, <2>1
    <3> QED BY <1>3, <1>8, <3>1, <3>2 DEF PageInv
  <2>2. CASE g # NoPage
    <3>1. g \in Pages /\ F = freelist \cup {g} BY <1>2, <1>11, <2>2 DEF MaybePage
    <3>2. Exact(freelist \cup {g}, [Slots EXCEPT !["mem"][p] = NoPage], Tabs, Maps)
      BY <1>3, <1>8, <1>10, <3>1, TakeSlot DEF PageInv
    <3>3. NoPage \in MaybePage BY DEF MaybePage
    <3>4. [Slots EXCEPT !["mem"][p] = NoPage] \in Holdings BY <1>8, <3>3 DEF Holdings
    <3> QED BY <1>9, <3>1, <3>2, <3>4
  <2> QED BY <2>1, <2>2
<1>13. PICK h \in Holdings : h = Slots' BY <1>12
<1>14. Exact(F \cup Lost(Maps, d, D), h, Tabs, Maps') BY <1>2, <1>4, <1>8, <1>12, <1>13, TakeMapped
<1>15. freelist' = F \cup Lost(Maps, d, D) BY <1>4, <1>11
<1> QED BY <1>4, <1>7, <1>13, <1>14, <1>15 DEF PageInv

(* There is no room below KERNBASE. *)
LEMMA AllocTooLargeKeeps ==
  ASSUME VmInv, NEW p \in Procs, AllocTooLarge(p)
  PROVE  VmInv'
<1>0. PICK t, d : t = task[p] /\ d = t.dir OBVIOUS
<1>1. Loop(p) /\ TooLarge(t) /\ UNCHANGED <<proc, cr3, emptied, panic>> /\ UNCHANGED <<freelist, space>>
      /\ Goto(p, [t EXCEPT !.stage = "failed"])
  BY <1>0 DEF AllocTooLarge
<1>2. /\ AllocInv(t) /\ d # NoPage /\ d \in DOMAIN space /\ Tabled(space[d])
      /\ t.old \in Nat /\ t.new \in Nat /\ t.a \in Nat /\ Spare(p) = t.mem
      /\ (t.op = "sbrk" => t \in SbrkTasks) /\ (t.op = "exec" => t \in ExecTasks) /\ t.op \in {"sbrk", "exec"}
  BY <1>0, <1>1, LoopFacts
<1>3. VmTypeOK /\ PageInv BY DEF VmInv
<1>4. t.new >= KERNBASE /\ ~(t.new < KERNBASE) BY <1>1, <1>2, Constants DEF TooLarge
<1>5. t.mem = NoPage /\ t.a = PGROUNDUP(t.old) BY <1>2, <1>4 DEF AllocInv
<1>6. [t EXCEPT !.stage = "failed"] = Failed(t)
  <2>1. CASE t.op = "sbrk" BY <1>2, <1>5, <2>1 DEF Failed, SbrkTasks
  <2>2. CASE t.op = "exec" BY <1>2, <1>5, <2>2 DEF Failed, ExecTasks
  <2> QED BY <1>2, <2>1, <2>2
<1>7. DOMAIN space'[d].map = Below(t.old)
  <2>2. PGROUNDUP(t.old) % PGSIZE = 0 /\ t.old <= PGROUNDUP(t.old) /\ PGROUNDUP(t.old) < t.old + PGSIZE BY <1>2, RoundUp
  <2>3. Below(t.a) = Below(t.old) BY <1>2, <1>5, <2>2, SamePages
  <2> QED BY <1>0, <1>1, <1>2, <2>3 DEF AllocInv
<1>8. SpaceOK' /\ freelist' \subseteq Pages /\ Tabled(space'[d]) BY <1>1, <1>2, <1>3, SpaceSame DEF VmTypeOK
<1>9. /\ VmTypeOK' /\ (\A q \in Procs : Building(q)' = Building(q))
      /\ (\A q \in Procs \ {p} : Spare(q)' = Spare(q)) /\ Spare(p)' = NoPage
      /\ (PageInv' => VmInv')
  BY <1>0, <1>1, <1>6, <1>7, <1>8, LoopFails
<1>10. Slots' = Slots BY <1>1, <1>2, <1>3, <1>5, <1>9, SlotsSame
<1>11. Tabs' = Tabs /\ Maps' = Maps BY <1>1 DEF Tabs, Maps
<1> QED BY <1>1, <1>3, <1>9, <1>10, <1>11 DEF PageInv

-----------------------------------------------------------------------------
(* sbrk() and the other steps that leave the pages alone.                  *)

ProcSet == [state : {"UNUSED", "EMBRYO", "LIVE", "ZOMBIE"}, kstack : MaybePage, pgdir : MaybePage, sz : Nat]

(* The invariant after a step of p alone that moves no page. *)
LEMMA Quiet ==
  ASSUME VmInv, NEW p \in Procs, NEW t \in Calls, Goto(p, t), UNCHANGED <<freelist, space, cr3, emptied, panic>>,
         proc' \in [Procs -> ProcSet], \A q \in Procs \ {p} : proc'[q] = proc[q],
         proc'[p].kstack = proc[p].kstack, proc'[p].pgdir = proc[p].pgdir, proc'[p].state = proc[p].state,
         Spare(p)' = Spare(p), Building(p)' = Building(p),
         t.op = "fork" => task[p].op = "fork" /\ t.child = task[p].child,
         Own(p)'
  PROVE  VmInv'
<1>1. VmTypeOK /\ PageInv /\ DirInv /\ ChildInv /\ (panic => emptied # {}) BY DEF VmInv
<1>2. task' \in [Procs -> Calls] /\ task'[p] = t
      /\ \A q \in Procs \ {p} : task'[q] = task[q] /\ Spare(q)' = Spare(q) /\ Building(q)' = Building(q)
  BY <1>1, Moves
<1>3. SpaceOK' BY <1>1, SpaceSame
<1>4. VmTypeOK' BY <1>1, <1>2, <1>3, Types DEF VmTypeOK, ProcSet
<1>5. Slots' = Slots BY <1>1, <1>2, SlotsSame
<1>6. Tabs' = Tabs /\ Maps' = Maps BY DEF Tabs, Maps
<1>7. PageInv' BY <1>1, <1>5, <1>6 DEF PageInv
<1>8. DirInv'
  <2>1. \A q \in Procs : proc'[q].pgdir = proc[q].pgdir /\ Building(q)' = Building(q) BY <1>2
  <2> QED BY <1>1, <2>1, DirsStay
<1>9. ChildInv'
  <2>1. \A q \in Procs : proc'[q].state = proc[q].state OBVIOUS
  <2>2. \A q \in Procs : task'[q].op = "fork" => task[q].op = "fork" /\ task'[q].child = task[q].child BY <1>2
  <2>3. \A q \in Procs : task[q].op = "fork" => task[q].child \in Procs
    BY <1>1, TaskKinds DEF ForkTasks
  <2> QED BY <1>1, <2>1, <2>2, <2>3, ChildrenStay
<1>10. (\A q \in Procs \ {p} : Own(q)') /\ \A e \in DOMAIN space : Tabled(space'[e])
  <2>1. Aside({p}, {}) BY <1>2 DEF Aside
  <2>2. Kept({p}, {}) BY <2>1, Others
  <2> QED BY <2>2 DEF Kept
<1> QED BY <1>1, <1>4, <1>7, <1>8, <1>9, <1>10 DEF VmInv

(* A process that is in no call. *)
LEMMA Idle ==
  ASSUME VmInv, NEW p \in Procs, Running(p)
  PROVE  /\ task[p] = NoTask /\ task[p].op = "none" /\ Spare(p) = NoPage /\ Building(p) = NoPage
         /\ proc[p].state = "LIVE" /\ Own(p) /\ proc[p].sz \in Nat /\ proc[p].sz < KERNBASE
         /\ proc[p].pgdir # NoPage /\ proc[p].pgdir \in DOMAIN space /\ proc[p].pgdir \in Pages
         /\ proc[p].kstack # NoPage /\ proc[p].kstack \in Pages
         /\ DOMAIN space[proc[p].pgdir].map = IF p \in emptied THEN {} ELSE Below(proc[p].sz)
         /\ \A q \in Procs \ {p} : proc[q].pgdir # proc[p].pgdir /\ Building(q) # proc[p].pgdir
<1>1. VmTypeOK /\ PageInv /\ DirInv /\ Own(p) BY DEF VmInv
<1>2. task[p] = NoTask /\ proc[p].state = "LIVE" BY DEF Running
<1>3. task[p].op = "none" BY <1>2 DEF NoTask
<1>4. Spare(p) = NoPage /\ Building(p) = NoPage BY <1>3 DEF Spare, Building
<1>5. proc[p].pgdir # NoPage /\ proc[p].kstack # NoPage /\ proc[p].sz < KERNBASE BY <1>1, <1>2 DEF Own, ProcInv
<1>6. proc[p].pgdir \in DOMAIN space
      /\ \A q \in Procs \ {p} : proc[q].pgdir # proc[p].pgdir /\ Building(q) # proc[p].pgdir
  BY <1>1, <1>5, OwnDirs
<1>7. proc[p].pgdir \in Pages /\ proc[p].kstack \in Pages /\ proc[p].sz \in Nat
  BY <1>1, <1>5, ProcFields DEF MaybePage
<1>8. DOMAIN space[proc[p].pgdir].map = IF p \in emptied THEN {} ELSE Below(proc[p].sz)
  BY <1>1, <1>2, <1>3 DEF Own, ImageInv
<1> QED BY <1>1, <1>2, <1>3, <1>4, <1>5, <1>6, <1>7, <1>8

(* allocuvm() begins with the next boundary. *)
LEMMA AllocBegins ==
  ASSUME NEW t, NEW old \in Nat, old <= KERNBASE, NEW dir, DOMAIN space'[dir].map = Below(old),
         t.old = old, t.new \in Nat, t.a = PGROUNDUP(old), t.dir = dir, t.mem = NoPage
  PROVE  AllocInv(t)'
<1>1. PGROUNDUP(old) \in Nat /\ PGROUNDUP(old) % PGSIZE = 0 /\ old <= PGROUNDUP(old) /\ PGROUNDUP(old) < old + PGSIZE
  BY RoundUp
<1>2. Below(PGROUNDUP(old)) = Below(old) BY <1>1, SamePages
<1> QED BY <1>1, <1>2 DEF AllocInv

(* The unsigned sum. *)
LEMMA Wraps == \A x \in Int : x % WORD \in Nat /\ x % WORD < WORD
<1>1. ASSUME NEW x \in Int PROVE x % WORD \in 0 .. WORD - 1
  <2>1. WORD \in Nat \ {0} BY Constants
  <2> QED BY <2>1, DivMod
<1> QED BY <1>1, Constants

(* sbrk(n), n > 0. *)
LEMMA sbrkGrowKeeps ==
  ASSUME VmInv, NEW p \in Procs, NEW n \in Amounts, sbrkGrow(p, n)
  PROVE  VmInv'
<1>0. PICK sz, d, new, t : /\ sz = proc[p].sz /\ d = proc[p].pgdir /\ new = (sz + n) % WORD
             /\ t = [op |-> "sbrk", stage |-> "alloc", dir |-> d, old |-> sz, new |-> new, a |-> PGROUNDUP(sz),
                     mem |-> NoPage]
  OBVIOUS
<1>1. Running(p) /\ p \notin emptied /\ Goto(p, t) /\ UNCHANGED <<freelist, space, proc, cr3, emptied, panic>>
  <2>1. Alloc([op |-> "sbrk", stage |-> "", dir |-> d, old |-> 0, new |-> 0, a |-> 0, mem |-> NoPage], sz, new) = t
    <3>1. PICK r : r = [op |-> "sbrk", stage |-> "", dir |-> d, old |-> 0, new |-> 0, a |-> 0, mem |-> NoPage] OBVIOUS
    <3>2. r \in [op : {"sbrk"}, stage : {""}, dir : {d}, old : {0}, new : {0}, a : {0}, mem : {NoPage}] BY <3>1
    <3>3. PICK u : u = Alloc(r, sz, new) OBVIOUS
    <3>4. u \in [op : {"sbrk"}, stage : {"alloc"}, dir : {d}, old : {sz}, new : {new}, a : {PGROUNDUP(sz)}, mem : {NoPage}]
      BY <3>2, <3>3 DEF Alloc
    <3>5. u = t BY <1>0, <3>4
    <3> QED BY <3>1, <3>3, <3>5
  <2>2. Goto(p, Alloc([op |-> "sbrk", stage |-> "", dir |-> d, old |-> 0, new |-> 0, a |-> 0, mem |-> NoPage], sz, new))
    BY <1>0 DEF sbrkGrow
  <2> QED BY <2>1, <2>2 DEF sbrkGrow, Resizes
<1>2. VmTypeOK /\ n \in Int BY Constants DEF VmInv
<1>3. /\ task[p].op = "none" /\ Spare(p) = NoPage /\ Building(p) = NoPage
      /\ proc[p].state = "LIVE" /\ Own(p) /\ sz \in Nat /\ sz < KERNBASE
      /\ d # NoPage /\ d \in DOMAIN space /\ d \in Pages /\ DOMAIN space[d].map = Below(sz)
  BY <1>0, <1>1, Idle
<1>4. new \in Nat /\ PGROUNDUP(sz) \in Nat BY <1>0, <1>2, <1>3, Wraps, RoundUp
<1>5. t \in SbrkTasks /\ t \in Calls BY <1>0, <1>3, <1>4 DEF SbrkTasks, MaybePage, Calls
<1>6. /\ task' \in [Procs -> Calls] /\ task'[p] = t
      /\ Spare(p)' = (IF t.op # "none" THEN t.mem ELSE NoPage)
      /\ Building(p)' = (IF t.op \in {"fork", "exec"} THEN t.dir ELSE NoPage)
  BY <1>1, <1>2, <1>5, Moves
<1>7. t.op = "sbrk" /\ t.stage = "alloc" /\ t.old = sz /\ t.dir = d /\ t.mem = NoPage /\ t.new = new /\ t.a = PGROUNDUP(sz)
  BY <1>0
<1>8. AllocInv(t)'
  <2>1. sz <= KERNBASE /\ DOMAIN space'[d].map = Below(sz) BY <1>1, <1>3, Constants
  <2> QED BY <1>3, <1>4, <1>7, <2>1, AllocBegins
<1>9. Own(p)'
  <2>1. ProcInv(p)' BY <1>1, <1>3, <1>6, <1>7 DEF Own, ProcInv
  <2>2. SbrkInv(p)' BY <1>0, <1>1, <1>6, <1>7, <1>8 DEF SbrkInv
  <2>3. ImageInv(p)' BY <1>6, <1>7 DEF ImageInv
  <2> QED BY <1>6, <1>7, <2>1, <2>2, <2>3 DEF Own
<1>10. Spare(p)' = Spare(p) /\ Building(p)' = Building(p) BY <1>3, <1>6, <1>7
<1> QED BY <1>1, <1>2, <1>5, <1>7, <1>9, <1>10, Quiet DEF VmTypeOK, ProcSet

(* The loop ends with the pages below the size it returns. *)
LEMMA LoopDone ==
  ASSUME VmInv, NEW p \in Procs, Loop(p), NEW t, t = task[p], AllDone(t)
  PROVE  /\ t.mem = NoPage /\ Result(t) \in Nat /\ DOMAIN space[t.dir].map = Below(Result(t))
         /\ Result(t) = t.old \/ (Result(t) = t.new /\ t.new < KERNBASE)
         /\ t.old <= KERNBASE
<1> USE Constants
<1>1. AllocInv(t) /\ t.old \in Nat /\ t.new \in Nat /\ t.a \in Nat BY LoopFacts
<1>2. t.new < KERNBASE /\ (t.new < t.old \/ t.a >= t.new) BY <1>1 DEF AllDone, TooLarge
<1>3. /\ t.a % PGSIZE = 0 /\ t.old <= KERNBASE /\ PGROUNDUP(t.old) <= t.a
      /\ t.a = PGROUNDUP(t.old) \/ t.a < t.new + PGSIZE
      /\ DOMAIN space[t.dir].map = Below(t.a)
      /\ t.mem # NoPage => t.a < t.new
  BY <1>1 DEF AllocInv
<1>4. PGROUNDUP(t.old) \in Nat /\ t.old <= PGROUNDUP(t.old) /\ PGROUNDUP(t.old) < t.old + PGSIZE BY <1>1, RoundUp
<1>5. PICK r : r = Result(t) OBVIOUS
<1>6. r = (IF t.new < t.old THEN t.old ELSE t.new) BY <1>5 DEF Result
<1>7. r \in Nat /\ r <= t.a /\ t.a < r + PGSIZE BY <1>1, <1>2, <1>3, <1>4, <1>6
<1>8. Below(t.a) = Below(r) BY <1>1, <1>3, <1>7, SamePages
<1>9. t.mem = NoPage BY <1>1, <1>2, <1>3, <1>4
<1> QED BY <1>2, <1>3, <1>5, <1>6, <1>7, <1>8, <1>9

(* The call is over. *)
LEMMA NoCall == NoTask \in Calls /\ NoTask.op = "none"
BY DEF Calls, NoTask

(* sbrk() has grown the process. *)
LEMMA sbrkGrownKeeps ==
  ASSUME VmInv, NEW p \in Procs, sbrkGrown(p)
  PROVE  VmInv'
<1>0. PICK t, r, d : t = task[p] /\ r = Result(t) /\ d = proc[p].pgdir OBVIOUS
<1>1. Loop(p) /\ t.op = "sbrk" /\ AllDone(t) /\ proc' = [proc EXCEPT ![p].sz = r] /\ Goto(p, NoTask)
      /\ UNCHANGED <<freelist, space, cr3, emptied, panic>>
  BY <1>0 DEF sbrkGrown
<1>2. /\ t.dir = d /\ SbrkInv(p) /\ Building(p) = NoPage /\ Spare(p) = t.mem
      /\ proc[p].state = "LIVE" /\ Own(p) /\ p \notin emptied
  BY <1>0, <1>1, LoopFacts
<1>3. /\ t.mem = NoPage /\ r \in Nat /\ DOMAIN space[d].map = Below(r)
      /\ r = t.old \/ (r = t.new /\ t.new < KERNBASE)
  BY <1>0, <1>1, <1>2, LoopDone
<1>4. VmTypeOK BY DEF VmInv
<1>5. t.old = proc[p].sz /\ proc[p].sz < KERNBASE BY <1>0, <1>2 DEF SbrkInv, Own, ProcInv
<1>6. r < KERNBASE BY <1>3, <1>5
<1>7. proc \in [Procs -> ProcSet] BY <1>4 DEF VmTypeOK, ProcSet
<1>8. PICK x : x = [proc[p] EXCEPT !.sz = r] OBVIOUS
<1>9. /\ x \in ProcSet /\ x.sz = r /\ x.state = proc[p].state /\ x.kstack = proc[p].kstack
      /\ x.pgdir = proc[p].pgdir
  BY <1>3, <1>7, <1>8 DEF ProcSet
<1>10. proc' = [proc EXCEPT ![p] = x] BY <1>1, <1>8
<1>11. proc' \in [Procs -> ProcSet] /\ proc'[p] = x /\ \A q \in Procs \ {p} : proc'[q] = proc[q]
  BY <1>7, <1>9, <1>10
<1>12. /\ task' \in [Procs -> Calls] /\ task'[p] = NoTask
       /\ Spare(p)' = NoPage /\ Building(p)' = NoPage
  <2> PICK n : n = NoTask OBVIOUS
  <2>1. n \in Calls /\ n.op = "none" /\ Goto(p, n) BY <1>1, NoCall
  <2>2. /\ task' \in [Procs -> Calls] /\ task'[p] = n
        /\ Spare(p)' = (IF n.op # "none" THEN n.mem ELSE NoPage)
        /\ Building(p)' = (IF n.op \in {"fork", "exec"} THEN n.dir ELSE NoPage)
    BY <1>4, <2>1, Moves
  <2> QED BY <2>1, <2>2
<1>13. Own(p)'
  <2>1. task'[p].op = "none" BY <1>12, NoCall
  <2>2. ProcInv(p)' BY <1>1, <1>2, <1>6, <1>9, <1>11, <2>1 DEF Own, ProcInv
  <2>3. ImageInv(p)' BY <1>0, <1>1, <1>2, <1>3, <1>9, <1>11 DEF ImageInv
  <2> QED BY <2>1, <2>2, <2>3 DEF Own
<1> QED BY <1>1, <1>2, <1>3, <1>9, <1>11, <1>12, <1>13, NoCall, Quiet

(* sbrk() returns -1. *)
LEMMA sbrkFailsKeeps ==
  ASSUME VmInv, NEW p \in Procs, sbrkFails(p)
  PROVE  VmInv'
<1>0. PICK t : t = task[p] OBVIOUS
<1>1. t.op = "sbrk" /\ t.stage = "failed" /\ Goto(p, NoTask) /\ UNCHANGED <<freelist, space, proc, cr3, emptied, panic>>
  BY <1>0 DEF sbrkFails
<1>2. VmTypeOK /\ Own(p) BY DEF VmInv
<1>3. Spare(p) = NoPage /\ Building(p) = NoPage BY <1>0, <1>1, <1>2 DEF Own, SbrkInv, Spare, Building
<1>4. proc \in [Procs -> ProcSet] BY <1>2 DEF VmTypeOK, ProcSet
<1>5. /\ task' \in [Procs -> Calls] /\ task'[p] = NoTask
      /\ Spare(p)' = NoPage /\ Building(p)' = NoPage
  <2> PICK n : n = NoTask OBVIOUS
  <2>1. n \in Calls /\ n.op = "none" /\ Goto(p, n) BY <1>1, NoCall
  <2>2. /\ task' \in [Procs -> Calls] /\ task'[p] = n
        /\ Spare(p)' = (IF n.op # "none" THEN n.mem ELSE NoPage)
        /\ Building(p)' = (IF n.op \in {"fork", "exec"} THEN n.dir ELSE NoPage)
    BY <1>2, <2>1, Moves
  <2> QED BY <2>1, <2>2
<1>6. Own(p)'
  <2>1. task'[p].op = "none" BY <1>5, NoCall
  <2>2. ProcInv(p)' BY <1>1, <1>2, <2>1 DEF Own, ProcInv
  <2>3. ImageInv(p)' BY <1>0, <1>1, <1>2 DEF Own, ImageInv
  <2> QED BY <2>1, <2>2, <2>3 DEF Own
<1> QED BY <1>1, <1>3, <1>4, <1>5, <1>6, NoCall, Quiet

(* sbrk(n), n < 0. *)
LEMMA sbrkShrinkKeeps ==
  ASSUME VmInv, NEW p \in Procs, NEW n \in Amounts, sbrkShrink(p, n)
  PROVE  VmInv'
<1>0. PICK sz, d, new, D, x : /\ sz = proc[p].sz /\ d = proc[p].pgdir /\ new = ShrunkSize(sz, n)
                              /\ D = Gone(space[d], sz, new)
                              /\ x = [proc[p] EXCEPT !.sz = IF new >= @ \/ new = 0 THEN @ ELSE new]
  OBVIOUS
<1>1. /\ Running(p) /\ p \notin emptied /\ deallocuvm(d, sz, new, {})
      /\ proc' = [proc EXCEPT ![p] = x]
      /\ emptied' = (IF new = 0 THEN emptied \cup {p} ELSE emptied) /\ UNCHANGED <<cr3, task, panic>>
  BY <1>0 DEF sbrkShrink, Resizes
<1>2. /\ VmTypeOK /\ PageInv /\ DirInv /\ ChildInv /\ (panic => emptied # {}) BY DEF VmInv
<1>3. /\ task[p].op = "none" /\ proc[p].state = "LIVE" /\ Own(p) /\ sz \in Nat /\ sz < KERNBASE
      /\ d # NoPage /\ d \in DOMAIN space /\ d \in Pages /\ DOMAIN space[d].map = Below(sz)
      /\ \A q \in Procs \ {p} : proc[q].pgdir # d /\ Building(q) # d
  BY <1>0, <1>1, Idle
<1>4. new \in Nat
  <2>1. sz + n \in Int BY <1>3, Constants
  <2> QED BY <1>0, <2>1, Wraps DEF ShrunkSize
<1>5. /\ SpaceOK' /\ DOMAIN space' = DOMAIN space /\ DOMAIN space'[d].map = DOMAIN space[d].map \ D
      /\ \A e \in DOMAIN space \ {d} : space'[e] = space[e]
      /\ freelist' = freelist \cup Lost(Maps, d, D) \cup {} /\ Lost(Maps, d, D) \subseteq Pages
      /\ Loses(Maps, Maps', d, D) /\ Tabs' = Tabs /\ (Tabled(space[d]) => Tabled(space'[d]))
  BY <1>0, <1>1, <1>2, <1>3, Dealloc
<1>6. DOMAIN space'[d].map = IF new >= sz THEN Below(sz) ELSE Below(new)
  <2>1. CASE new >= sz BY <1>0, <1>3, <1>5, <2>1 DEF Gone
  <2>2. CASE ~(new >= sz)
    <3>1. new <= sz /\ sz <= sz BY <1>3, <1>4, <2>2
    <3>2. DOMAIN space[d].map \ Doomed(space[d], sz, new) = Below(new) BY <1>3, <1>4, <3>1, DoomedRest
    <3> QED BY <1>0, <1>5, <2>2, <3>2 DEF Gone
  <2> QED BY <2>1, <2>2
<1>7. proc \in [Procs -> ProcSet] BY <1>2 DEF VmTypeOK, ProcSet
<1>8. /\ x \in ProcSet /\ x.sz = (IF new >= sz \/ new = 0 THEN sz ELSE new) /\ x.state = proc[p].state
      /\ x.kstack = proc[p].kstack /\ x.pgdir = d
  BY <1>0, <1>3, <1>4, <1>7 DEF ProcSet
<1>9. proc' \in [Procs -> ProcSet] /\ proc'[p] = x /\ \A q \in Procs \ {p} : proc'[q] = proc[q]
  BY <1>1, <1>7, <1>8
<1>10. VmTypeOK'
  <2>1. freelist' \subseteq Pages /\ emptied' \in SUBSET Procs BY <1>1, <1>2, <1>5 DEF VmTypeOK
  <2> QED BY <1>1, <1>2, <1>5, <1>9, <2>1, Types DEF VmTypeOK, ProcSet
<1>11. \A q \in Procs : /\ proc'[q].kstack = proc[q].kstack /\ proc'[q].pgdir = proc[q].pgdir
                        /\ proc'[q].state = proc[q].state
                        /\ Spare(q)' = Spare(q) /\ Building(q)' = Building(q)
  BY <1>0, <1>1, <1>8, <1>9 DEF Spare, Building
<1>12. PageInv'
  <2>1. Slots' = Slots BY <1>2, <1>11, SlotsSame
  <2>2. Slots \in Holdings /\ d \in DOMAIN Maps BY <1>2, <1>3, SlotTypes, TabsAre
  <2>3. Exact(freelist \cup Lost(Maps, d, D), Slots, Tabs, Maps') BY <1>2, <1>5, <2>2, TakeMapped DEF PageInv
  <2>4. freelist' = freelist \cup Lost(Maps, d, D) BY <1>5
  <2> QED BY <1>5, <2>1, <2>3, <2>4 DEF PageInv
<1>13. DirInv' BY <1>2, <1>5, <1>11, DirsStay
<1>14. ChildInv'
  <2>1. \A q \in Procs : task[q].op = "fork" => task[q].child \in Procs BY <1>2, TaskKinds DEF ForkTasks
  <2> QED BY <1>1, <1>2, <1>11, <2>1, ChildrenStay
<1>15. /\ \A q \in Procs \ {p} : Own(q)'
       /\ \A e \in DOMAIN space \ {d} : Tabled(space'[e])
  <2>1. \A q \in Procs \ {p} : q \in emptied' <=> q \in emptied BY <1>1
  <2>2. Aside({p}, {d}) BY <1>1, <1>3, <1>5, <1>9, <2>1 DEF Aside
  <2>3. Kept({p}, {d}) BY <2>2, Others
  <2> QED BY <2>3 DEF Kept
<1>16. Own(p)'
  <2>1. x.sz \in Nat /\ x.sz < KERNBASE BY <1>3, <1>4, <1>8, Constants
  <2>2. ProcInv(p)' BY <1>0, <1>1, <1>3, <1>8, <1>9, <2>1 DEF Own, ProcInv
  <2>3. DOMAIN space'[d].map = IF p \in emptied' THEN {} ELSE Below(x.sz)
    <3>1. CASE new = 0
      <4>1. p \in emptied' BY <1>1, <3>1
      <4>2. new >= sz => sz = 0 BY <1>3, <3>1
      <4>3. DOMAIN space'[d].map = Below(0) BY <1>6, <3>1, <4>2
      <4> QED BY <4>1, <4>3, BelowZero
    <3>2. CASE new # 0 BY <1>1, <1>6, <1>8, <3>2
    <3> QED BY <3>1, <3>2
  <2>4. ImageInv(p)' BY <1>8, <1>9, <2>3 DEF ImageInv
  <2> QED BY <1>1, <1>3, <2>2, <2>4 DEF Own
<1>17. panic' => emptied' # {} BY <1>1, <1>2
<1>18. Tabled(space'[d]) BY <1>3, <1>5 DEF VmInv
<1> QED BY <1>5, <1>10, <1>12, <1>13, <1>14, <1>15, <1>16, <1>17, <1>18 DEF VmInv

-----------------------------------------------------------------------------
(* setupkvm() and copyuvm().                                               *)

(* The invariant after a step of p on an address space it builds. *)
LEMMA Build ==
  ASSUME VmInv, NEW p \in Procs, NEW t \in Calls, Goto(p, t), UNCHANGED <<proc, cr3, emptied, panic>>,
         freelist' \subseteq Pages, SpaceOK', t.op = task[p].op, t.op \in {"fork", "exec"},
         t.op = "fork" => t.child = task[p].child,
         NEW Y, \A q \in Procs : proc[q].pgdir \notin Y /\ (q # p => Building(q) \notin Y),
         \A e \in DOMAIN space \ Y : e \in DOMAIN space' /\ space'[e] = space[e],
         \A e \in DOMAIN space' : e \in DOMAIN space \ Y \/ Tabled(space'[e]),
         t.op = "fork" => ForkInv(p)', t.op = "exec" => ExecInv(p)'
  PROVE  VmTypeOK' /\ (PageInv' /\ DirInv' => VmInv')
<1>1. VmTypeOK /\ PageInv /\ DirInv /\ ChildInv /\ Own(p) /\ (panic => emptied # {}) BY DEF VmInv
<1>2. task' \in [Procs -> Calls] /\ task'[p] = t /\ \A q \in Procs \ {p} : task'[q] = task[q]
  BY <1>1, Moves
<1>3. VmTypeOK' BY <1>1, <1>2, Types DEF VmTypeOK
<1>4. ChildInv'
  <2>1. \A q \in Procs : task'[q].op = "fork" => task[q].op = "fork" /\ task'[q].child = task[q].child BY <1>2
  <2> QED BY <1>1, <2>1, ChildrenStay
<1>5. (\A q \in Procs \ {p} : Own(q)') /\ \A e \in DOMAIN space \ Y : Tabled(space'[e])
  <2>1. Aside({p}, Y) BY <1>2 DEF Aside
  <2>2. Kept({p}, Y) BY <2>1, Others
  <2> QED BY <2>2 DEF Kept
<1>6. Own(p)'
  <2>1. proc[p].state = "LIVE" /\ proc[p].pgdir # NoPage BY <1>1 DEF Own, ProcInv
  <2>2. proc[p].pgdir \in DOMAIN space \ Y BY <1>1, <2>1, OwnDirs
  <2>3. ProcInv(p)' BY <1>1, <1>2 DEF Own, ProcInv
  <2>4. ImageInv(p)' BY <1>1, <1>2, <2>2 DEF Own, ImageInv
  <2> QED BY <1>2, <2>3, <2>4 DEF Own
<1>7. \A q \in Procs : Own(q)' BY <1>5, <1>6
<1>8. \A e \in DOMAIN space' : Tabled(space'[e]) BY <1>5
<1> QED BY <1>1, <1>3, <1>4, <1>7, <1>8 DEF VmInv

(* Process p holds page k as c. *)
Hold(h, c, p, k) == [h EXCEPT ![c][p] = k]

(* Its slots. *)
LEMMA HoldIs ==
  ASSUME NEW h \in Holdings, NEW c \in SlotKinds, NEW p \in Procs, NEW k \in MaybePage
  PROVE  /\ Hold(h, c, p, k) \in Holdings /\ Hold(h, c, p, k)[c][p] = k
         /\ \A e \in SlotKinds, q \in Procs : e # c \/ q # p => Hold(h, c, p, k)[e][q] = h[e][q]
BY DEF Hold, Holdings

(* It held it before. *)
LEMMA HoldSame ==
  ASSUME NEW h \in Holdings, NEW c \in SlotKinds, NEW p \in Procs, NEW k, h[c][p] = k
  PROVE  Hold(h, c, p, k) = h
BY DEF Hold, Holdings

(* The slots after a step. *)
LEMMA SlotsAre ==
  ASSUME NEW h \in Holdings, \A e \in SlotKinds, q \in Procs : Slot(e, q)' = h[e][q]
  PROVE  Slots' = h
<1>1. Slots' = [e \in SlotKinds |-> [q \in Procs |-> h[e][q]]] BY DEF Slots
<1>2. h = [e \in SlotKinds |-> [q \in Procs |-> h[e][q]]] BY DEF Holdings
<1> QED BY <1>1, <1>2

(* The slots after such a step. *)
LEMMA BuildSlots ==
  ASSUME VmTypeOK, VmTypeOK', NEW p \in Procs,
         \A q \in Procs : proc'[q].kstack = proc[q].kstack /\ proc'[q].pgdir = proc[q].pgdir,
         \A q \in Procs \ {p} : Spare(q)' = Spare(q) /\ Building(q)' = Building(q),
         NEW k \in MaybePage, NEW m \in MaybePage, k = Building(p)', m = Spare(p)'
  PROVE  Slots' = Hold(Hold(Slots, "mem", p, m), "newdir", p, k)
<1>2. "newdir" \in SlotKinds /\ "mem" \in SlotKinds BY DEF SlotKinds
<1>3. Slots \in Holdings BY SlotTypes
<1>4. PICK h : h = Hold(Slots, "mem", p, m) OBVIOUS
<1>5. PICK i : i = Hold(h, "newdir", p, k) OBVIOUS
<1>6. h \in Holdings /\ h["mem"][p] = m
      /\ \A e \in SlotKinds, q \in Procs : e # "mem" \/ q # p => h[e][q] = Slots[e][q]
  BY <1>2, <1>3, <1>4, HoldIs, SMTT(60)
<1>7. i \in Holdings /\ i["newdir"][p] = k
      /\ \A e \in SlotKinds, q \in Procs : e # "newdir" \/ q # p => i[e][q] = h[e][q]
  BY <1>2, <1>5, <1>6, HoldIs, SMTT(60)
<1>8. ASSUME NEW e \in SlotKinds, NEW q \in Procs PROVE Slot(e, q)' = i[e][q]
  <2>1. Slots[e][q] = Slot(e, q) BY SlotTypes
  <2>2. CASE e = "newdir" BY <1>6, <1>7, <2>1, <2>2, SlotIs
  <2>3. CASE e = "mem" BY <1>2, <1>6, <1>7, <2>1, <2>3, SlotIs
  <2>4. CASE e = "stack" BY <1>6, <1>7, <2>1, <2>4, SlotIs
  <2>5. CASE e = "pgdir" BY <1>6, <1>7, <2>1, <2>5, SlotIs
  <2> QED BY <2>2, <2>3, <2>4, <2>5 DEF SlotKinds
<1>9. Slots' = i BY <1>7, <1>8, SlotsAre
<1> QED BY <1>4, <1>5, <1>9

(* A directory more, *)
LEMMA DirsAdd ==
  ASSUME DirInv, NEW p \in Procs, NEW k \in Pages, Building(p) = NoPage, Building(p)' = k,
         DOMAIN space' = DOMAIN space \cup {k},
         \A q \in Procs : proc'[q].pgdir = proc[q].pgdir, \A q \in Procs \ {p} : Building(q)' = Building(q)
  PROVE  DirInv'
BY NoPageIsNone DEF DirInv

(* one less. *)
LEMMA DirsDrop ==
  ASSUME VmTypeOK, PageInv, DirInv, NEW p \in Procs, Building(p) # NoPage, Building(p)' = NoPage,
         DOMAIN space' = DOMAIN space \ {Building(p)},
         \A q \in Procs : proc'[q].pgdir = proc[q].pgdir, \A q \in Procs \ {p} : Building(q)' = Building(q)
  PROVE  DirInv'
<1>1. \A q \in Procs \ {p} : Building(p) # proc[q].pgdir /\ Building(p) # Building(q) BY OwnDirs
<1>2. Building(p) # proc[p].pgdir BY OwnDirs
<1>3. \A d \in Pages : d \in DOMAIN space <=> \E q \in Procs : proc[q].pgdir = d \/ Building(q) = d BY DEF DirInv
<1>4. NoPage \notin Pages BY NoPageIsNone
<1>5. ASSUME NEW d \in Pages
      PROVE  d \in DOMAIN space' <=> \E q \in Procs : proc'[q].pgdir = d \/ Building(q)' = d
  <2>1. CASE d = Building(p) BY <1>1, <1>2, <1>4, <2>1
  <2>2. CASE d # Building(p) BY <1>3, <1>4, <2>2
  <2> QED BY <2>1, <2>2
<1> QED BY <1>5 DEF DirInv

(* The pages of an address space. *)
LEMMA PagesOfType ==
  ASSUME VmTypeOK, NEW d \in DOMAIN space
  PROVE  PagesOf(d) \subseteq Pages
BY SpaceFields DEF PagesOf, Mapped, Tables

(* Another stage and directory. *)
Stage(t, s, d) == [t EXCEPT !.stage = s, !.dir = d]

(* Its fields. *)
LEMMA StageTask ==
  ASSUME NEW t, t \in ForkTasks \/ t \in ExecTasks, NEW s \in {"kernel", "load", "failed"}, NEW d \in MaybePage
  PROVE  /\ Stage(t, s, d) \in Calls /\ Stage(t, s, d).op = t.op /\ Stage(t, s, d).stage = s /\ Stage(t, s, d).dir = d
         /\ Stage(t, s, d).mem = t.mem
         /\ t \in ForkTasks => Stage(t, s, d).child = t.child /\ Stage(t, s, d).a = t.a
         /\ t \in ExecTasks => Stage(t, s, d).sz = t.sz
<1>1. CASE t \in ForkTasks
  <2>1. t.op = "fork" /\ Stage(t, s, d) \in ForkTasks BY <1>1 DEF ForkTasks, Stage
  <2>2. t \notin ExecTasks BY <2>1 DEF ExecTasks
  <2> QED BY <1>1, <2>1, <2>2 DEF ForkTasks, Stage, Calls
<1>2. CASE t \in ExecTasks
  <2>1. t.op = "exec" /\ Stage(t, s, d) \in ExecTasks BY <1>2 DEF ExecTasks, Stage
  <2>2. t \notin ForkTasks BY <2>1 DEF ForkTasks
  <2> QED BY <1>2, <2>1, <2>2 DEF ExecTasks, Stage, Calls
<1> QED BY <1>1, <1>2

(* What setupkvm() relies on. *)
LEMMA SetupFacts ==
  ASSUME VmInv, NEW p \in Procs, Setup(p), NEW t, t = task[p]
  PROVE  /\ t.op \in {"fork", "exec"} /\ (t.op = "fork" => t \in ForkTasks) /\ (t.op = "exec" => t \in ExecTasks)
         /\ t.stage \in {"setupkvm", "kernel"} /\ t.mem = NoPage /\ Spare(p) = NoPage /\ Building(p) = t.dir
         /\ t.op = "fork" => t.a = 0
         /\ t.op = "exec" => t.sz = 0
         /\ t.stage = "setupkvm" => t.dir = NoPage
         /\ t.stage = "kernel" => t.dir # NoPage /\ t.dir \in DOMAIN space /\ t.dir \in Pages /\ space[t.dir] = NoSpace
                                  /\ (\A q \in Procs : proc[q].pgdir # t.dir /\ (q # p => Building(q) # t.dir))
<1>1. VmTypeOK /\ PageInv /\ DirInv /\ Own(p) BY DEF VmInv
<1>2. t.op \in {"fork", "exec"} /\ t.stage \in {"setupkvm", "kernel"} BY DEF Setup
<1>3. (t.op = "fork" => t \in ForkTasks) /\ (t.op = "exec" => t \in ExecTasks) BY <1>1, TaskKinds
<1>4. Building(p) = t.dir /\ Spare(p) = t.mem BY <1>2 DEF Building, Spare
<1>5. CASE t.op = "fork"
  <2>1. ForkInv(p) BY <1>1, <1>5 DEF Own
  <2>2. t.mem = NoPage /\ t.a = 0 /\ (t.stage = "setupkvm" => t.dir = NoPage)
        /\ (t.stage = "kernel" => t.dir # NoPage /\ space[t.dir] = NoSpace)
    BY <1>2, <2>1 DEF ForkInv
  <2> QED BY <1>1, <1>2, <1>3, <1>4, <1>5, <2>2, OwnDirs DEF VmTypeOK
<1>6. CASE t.op = "exec"
  <2>1. ExecInv(p) BY <1>1, <1>6 DEF Own
  <2>2. t.mem = NoPage /\ t.sz = 0 /\ (t.stage = "setupkvm" => t.dir = NoPage)
        /\ (t.stage = "kernel" => t.dir # NoPage /\ space[t.dir] = NoSpace)
    BY <1>2, <2>1 DEF ExecInv
  <2> QED BY <1>1, <1>2, <1>3, <1>4, <1>6, <2>2, OwnDirs DEF VmTypeOK
<1> QED BY <1>2, <1>5, <1>6

(* An empty address space is added. *)
LEMMA SpaceAdd ==
  ASSUME VmTypeOK, NEW k \in Pages, k \notin DOMAIN space, space' = Put(space, k, NoSpace)
  PROVE  /\ SpaceOK' /\ DOMAIN space' = DOMAIN space \cup {k} /\ space'[k] = NoSpace
         /\ \A e \in DOMAIN space : space'[e] = space[e]
         /\ Tabled(space'[k])
         /\ \A fr, h : Exact(fr, h, Tabs, Maps) => Exact(fr, h, Tabs', Maps')
<1>1. DOMAIN space \in SUBSET Pages /\ space \in [DOMAIN space -> Spaces] BY DEF VmTypeOK
<1>2. NoSpace \in Spaces /\ DOMAIN NoSpace.map = {} /\ DOMAIN NoSpace.tab = {}
  <2>1. NoSpace.tab = [i \in {} |-> NoPage] /\ NoSpace.map = [v \in {} |-> NoPage] BY DEF NoSpace
  <2>2. DOMAIN NoSpace.map = {} /\ DOMAIN NoSpace.tab = {} BY <2>1
  <2>3. NoSpace.tab \in TabSet
    <3>1. PICK S, f : S = 0 .. KTable /\ f = NoSpace.tab OBVIOUS
    <3>2. f \in Partial(S, Pages)
      <4>1. DOMAIN f = {} /\ f = [i \in {} |-> NoPage] BY <2>1, <3>1
      <4>2. DOMAIN f \subseteq S /\ f \in [DOMAIN f -> Pages] BY <4>1
      <4> QED BY <4>2, PartialFun
    <3> QED BY <3>1, <3>2 DEF TabSet
  <2>4. NoSpace.map \in MapSet
    <3>1. PICK S, f : S = 0 .. Vpn(KERNBASE) /\ f = NoSpace.map OBVIOUS
    <3>2. f \in Partial(S, Entries)
      <4>1. DOMAIN f = {} /\ f = [v \in {} |-> NoPage] BY <2>1, <3>1
      <4>2. DOMAIN f \subseteq S /\ f \in [DOMAIN f -> Entries] BY <4>1
      <4> QED BY <4>2, PartialFun
    <3> QED BY <3>1, <3>2 DEF MapSet
  <2>5. NoSpace = [tab |-> NoSpace.tab, map |-> NoSpace.map] BY DEF NoSpace
  <2> HIDE DEF NoSpace
  <2> QED BY <2>2, <2>3, <2>4, <2>5 DEF Spaces, TabSet, MapSet
<1> HIDE DEF NoSpace
<1>3. DOMAIN space' = DOMAIN space \cup {k} /\ space'[k] = NoSpace /\ \A e \in DOMAIN space : space'[e] = space[e]
  BY DEF Put
<1>4. space' \in [DOMAIN space \cup {k} -> Spaces] BY <1>1, <1>2 DEF Put
<1>5. SpaceOK' BY <1>1, <1>3, <1>4 DEF SpaceOK
<1>6. Tabled(space'[k]) BY <1>2, <1>3 DEF Tabled
<1>7. ASSUME NEW fr, NEW h, Exact(fr, h, Tabs, Maps) PROVE Exact(fr, h, Tabs', Maps')
  <2>1. k \notin DOMAIN Tabs /\ k \notin DOMAIN Maps BY TabsAre
  <2>2. DOMAIN Tabs' = DOMAIN Tabs \cup {k} /\ DOMAIN Maps' = DOMAIN Maps \cup {k} BY <1>3, TabsAre
  <2>3. DOMAIN Tabs'[k] = {} /\ DOMAIN Maps'[k] = {} BY <1>2, <1>3, TabsAre
  <2>4. \A e \in DOMAIN Tabs : Tabs'[e] = Tabs[e] BY <1>3, TabsAre
  <2>5. \A e \in DOMAIN Maps : Maps'[e] = Maps[e] BY <1>3 DEF Maps
  <2> QED BY <1>7, <2>1, <2>2, <2>3, <2>4, <2>5, AddDirectory
<1> QED BY <1>3, <1>5, <1>6, <1>7

(* What a step of setupkvm() comes to. *)
LEMMA SetupStage ==
  ASSUME VmInv, NEW p \in Procs, Setup(p), NEW s \in {"kernel", "load", "failed"}, NEW d \in MaybePage,
         NEW t, t = Stage(task[p], s, d), Goto(p, t)
  PROVE  /\ t \in Calls /\ task'[p] = t /\ t.op = task[p].op /\ t.op \in {"fork", "exec"}
         /\ t.op = "fork" => t.child = task[p].child /\ t.a = 0
         /\ t.op = "exec" => t.sz = 0
         /\ t.stage = s /\ t.dir = d /\ t.mem = NoPage
         /\ \A q \in Procs \ {p} : Spare(q)' = Spare(q) /\ Building(q)' = Building(q)
         /\ Spare(p)' = NoPage /\ Building(p)' = d
<1>1. PICK u : u = task[p] OBVIOUS
<1>2. /\ u.op \in {"fork", "exec"} /\ (u.op = "fork" => u \in ForkTasks) /\ (u.op = "exec" => u \in ExecTasks)
      /\ u.mem = NoPage /\ (u.op = "fork" => u.a = 0) /\ (u.op = "exec" => u.sz = 0)
  BY <1>1, SetupFacts
<1>3. /\ t \in Calls /\ t.op = u.op /\ t.stage = s /\ t.dir = d /\ t.mem = u.mem
      /\ u \in ForkTasks => t.child = u.child /\ t.a = u.a
      /\ u \in ExecTasks => t.sz = u.sz
  <2>1. u \in ForkTasks \/ u \in ExecTasks BY <1>2
  <2> QED BY <1>1, <2>1, StageTask
<1>4. /\ task'[p] = t /\ \A q \in Procs \ {p} : Spare(q)' = Spare(q) /\ Building(q)' = Building(q)
      /\ Spare(p)' = (IF t.op # "none" THEN t.mem ELSE NoPage)
      /\ Building(p)' = (IF t.op \in {"fork", "exec"} THEN t.dir ELSE NoPage)
  BY <1>3, Moves DEF VmInv
<1>5. t.op # "none" /\ t.op \in {"fork", "exec"} /\ t.mem = NoPage BY <1>2, <1>3
<1> QED BY <1>1, <1>2, <1>3, <1>4, <1>5

(* kalloc() for the directory. *)
LEMMA NewDirectoryKeeps ==
  ASSUME VmInv, NEW p \in Procs, NewDirectory(p)
  PROVE  VmInv'
<1>0. PICK t, k, u : t = task[p] /\ k = Kalloc /\ u = Stage(t, "kernel", k) OBVIOUS
<1>1. /\ Setup(p) /\ t.stage = "setupkvm" /\ freelist # {} /\ freelist' = freelist \ {k}
      /\ space' = Put(space, k, NoSpace) /\ Goto(p, u) /\ UNCHANGED <<proc, cr3, emptied, panic>>
  BY <1>0 DEF NewDirectory, Stage
<1>2. VmTypeOK /\ PageInv /\ DirInv /\ freelist' \subseteq Pages BY <1>1 DEF VmInv, VmTypeOK
<1>3. /\ k \in freelist /\ k \in Pages /\ k # NoPage /\ k \in MaybePage /\ k \notin DOMAIN space
      /\ \A q \in Procs : proc[q].pgdir # k /\ Building(q) # k
  <2>1. "pgdir" \in SlotKinds /\ "newdir" \in SlotKinds BY DEF SlotKinds
  <2> QED BY <1>0, <1>1, <2>1, FreePage, SlotIs DEF MaybePage
<1>4. Spare(p) = NoPage /\ Building(p) = NoPage /\ (t.op = "fork" \/ t.op = "exec") BY <1>0, <1>1, SetupFacts
<1>5. /\ u \in Calls /\ task'[p] = u /\ u.op = t.op /\ u.op \in {"fork", "exec"}
      /\ u.op = "fork" => u.child = t.child /\ u.a = 0
      /\ u.op = "exec" => u.sz = 0
      /\ u.stage = "kernel" /\ u.dir = k /\ u.mem = NoPage
      /\ \A q \in Procs \ {p} : Spare(q)' = Spare(q) /\ Building(q)' = Building(q)
      /\ Spare(p)' = NoPage /\ Building(p)' = k
  BY <1>0, <1>1, <1>3, SetupStage
<1>6. /\ SpaceOK' /\ DOMAIN space' = DOMAIN space \cup {k} /\ space'[k] = NoSpace
      /\ \A e \in DOMAIN space : space'[e] = space[e]
      /\ Tabled(space'[k]) /\ \A fr, h : Exact(fr, h, Tabs, Maps) => Exact(fr, h, Tabs', Maps')
  BY <1>1, <1>2, <1>3, SpaceAdd
<1>7. VmTypeOK' /\ (PageInv' /\ DirInv' => VmInv')
  <2>1. u.op = "fork" => ForkInv(p)' BY <1>3, <1>5, <1>6 DEF ForkInv
  <2>2. u.op = "exec" => ExecInv(p)' BY <1>3, <1>5, <1>6 DEF ExecInv
  <2>3. PICK Y : Y = {k} OBVIOUS
  <2>4. \A q \in Procs : proc[q].pgdir \notin Y /\ (q # p => Building(q) \notin Y) BY <1>3, <2>3
  <2>5. /\ \A e \in DOMAIN space \ Y : e \in DOMAIN space' /\ space'[e] = space[e]
        /\ \A e \in DOMAIN space' : e \in DOMAIN space \ Y \/ Tabled(space'[e])
    BY <1>6, <2>3
  <2> QED BY <1>0, <1>1, <1>2, <1>5, <1>6, <2>1, <2>2, <2>4, <2>5, Build
<1>8. DirInv' BY <1>1, <1>2, <1>3, <1>4, <1>5, <1>6, DirsAdd
<1>9. PageInv'
  <2>1. Slots \in Holdings /\ Slots["newdir"][p] = NoPage /\ Slots["mem"][p] = NoPage
        /\ "newdir" \in SlotKinds /\ "mem" \in SlotKinds /\ NoPage \in MaybePage
    BY <1>2, <1>4, SlotTypes, SlotIs DEF SlotKinds, MaybePage
  <2>2. Slots' = Hold(Hold(Slots, "mem", p, NoPage), "newdir", p, k) BY <1>1, <1>2, <1>3, <1>5, <1>7, <2>1, BuildSlots
  <2>3. Slots' = Hold(Slots, "newdir", p, k) BY <2>1, <2>2, HoldSame
  <2>4. Exact(freelist \ {k}, Slots', Tabs, Maps) BY <1>2, <1>3, <2>1, <2>3, GiveSlot DEF Hold, PageInv
  <2> QED BY <1>1, <1>6, <2>4 DEF PageInv
<1> QED BY <1>7, <1>8, <1>9

(* kalloc() for the table of the kernel's part. *)
LEMMA KernelPartKeeps ==
  ASSUME VmInv, NEW p \in Procs, KernelPart(p)
  PROVE  VmInv'
<1>0. PICK t, k, d, u, tb : /\ t = task[p] /\ k = Kalloc /\ d = t.dir /\ u = Stage(t, "load", d)
                            /\ tb = Put(space[d].tab, KTable, k)
  OBVIOUS
<1>1. /\ Setup(p) /\ t.stage = "kernel" /\ freelist # {} /\ freelist' = freelist \ {k}
      /\ space' = [space EXCEPT ![d].tab = tb] /\ Goto(p, [t EXCEPT !.stage = "load"])
      /\ UNCHANGED <<proc, cr3, emptied, panic>>
  BY <1>0 DEF KernelPart
<1>2. VmTypeOK /\ PageInv /\ DirInv /\ freelist' \subseteq Pages BY <1>1 DEF VmInv, VmTypeOK
<1>3. k \in freelist /\ k \in Pages /\ k # NoPage BY <1>0, <1>1, FreePage
<1>4. /\ Spare(p) = NoPage /\ Building(p) = d /\ (t.op = "fork" \/ t.op = "exec")
      /\ (t.op = "fork" => t \in ForkTasks) /\ (t.op = "exec" => t \in ExecTasks)
      /\ d # NoPage /\ d \in DOMAIN space /\ d \in Pages /\ space[d] = NoSpace
      /\ (\A q \in Procs : proc[q].pgdir # d /\ (q # p => Building(q) # d))
  BY <1>0, <1>1, SetupFacts
<1>5. Goto(p, u)
  <2>1. [t EXCEPT !.stage = "load"] = Stage(t, "load", d)
    <3>1. CASE t \in ForkTasks BY <1>0, <3>1 DEF Stage, ForkTasks
    <3>2. CASE t \in ExecTasks BY <1>0, <3>2 DEF Stage, ExecTasks
    <3> QED BY <1>4, <3>1, <3>2
  <2> QED BY <1>0, <1>1, <2>1
<1>6. d \in MaybePage /\ NoPage \in MaybePage BY <1>4 DEF MaybePage
<1>7. /\ u \in Calls /\ task'[p] = u /\ u.op = t.op /\ u.op \in {"fork", "exec"}
      /\ u.op = "fork" => u.child = t.child /\ u.a = 0
      /\ u.op = "exec" => u.sz = 0
      /\ u.stage = "load" /\ u.dir = d /\ u.mem = NoPage
      /\ \A q \in Procs \ {p} : Spare(q)' = Spare(q) /\ Building(q)' = Building(q)
      /\ Spare(p)' = NoPage /\ Building(p)' = d
  BY <1>0, <1>1, <1>5, <1>6, SetupStage
<1>8. space[d].tab \in TabSet /\ DOMAIN space[d].tab = {} /\ DOMAIN space[d].map = {}
  <2>1. DOMAIN NoSpace.tab = {} /\ DOMAIN NoSpace.map = {} BY DEF NoSpace
  <2> QED BY <1>2, <1>4, <2>1, SpaceFields DEF TabSet
<1>9. KTable \in 0 .. KTable /\ KTable \in Nat BY KernelBase
<1>10. tb \in TabSet BY <1>0, <1>3, <1>8, <1>9, TabPut
<1>11. /\ SpaceOK' /\ DOMAIN space' = DOMAIN space /\ space'[d].tab = tb /\ space'[d].map = space[d].map
       /\ \A e \in DOMAIN space \ {d} : space'[e] = space[e]
  BY <1>1, <1>2, <1>4, <1>10, TabEdit
<1>12. DOMAIN space'[d].map = Below(0) BY <1>8, <1>11, BelowZero
<1>13. VmTypeOK' /\ (PageInv' /\ DirInv' => VmInv')
  <2>1. u.op = "fork" => ForkInv(p)'
    <3>1. 0 % PGSIZE = 0 BY Constants
    <3> QED BY <1>4, <1>7, <1>12, <3>1 DEF ForkInv
  <2>2. u.op = "exec" => ExecInv(p)' BY <1>4, <1>7, <1>12, Constants DEF ExecInv
  <2>3. PICK Y : Y = {d} OBVIOUS
  <2>4. \A q \in Procs : proc[q].pgdir \notin Y /\ (q # p => Building(q) \notin Y) BY <1>4, <2>3
  <2>5. Tabled(space'[d]) BY <1>8, <1>11 DEF Tabled
  <2>6. /\ \A e \in DOMAIN space \ Y : e \in DOMAIN space' /\ space'[e] = space[e]
        /\ \A e \in DOMAIN space' : e \in DOMAIN space \ Y \/ Tabled(space'[e])
    BY <1>11, <2>3, <2>5
  <2> QED BY <1>0, <1>1, <1>2, <1>5, <1>7, <1>11, <2>1, <2>2, <2>4, <2>6, Build
<1>14. DirInv'
  <2>1. \A q \in Procs : proc'[q].pgdir = proc[q].pgdir /\ Building(q)' = Building(q) BY <1>1, <1>4, <1>7
  <2> QED BY <1>2, <1>11, <2>1, DirsStay
<1>15. PageInv'
  <2>1. Slots' = Slots BY <1>1, <1>2, <1>4, <1>7, SlotsSame
  <2>2. Slots \in Holdings /\ d \in DOMAIN Tabs /\ Tabs[d] = space[d].tab BY <1>2, <1>4, SlotTypes, TabsAre
  <2>3. Adds(Tabs, Tabs', d, KTable, k) BY <1>0, <1>4, <1>8, <1>11, TabsAdd
  <2>4. Maps' = Maps BY <1>11, MapsSame
  <2>5. KTable \notin DOMAIN Tabs[d] BY <1>8, <2>2
  <2>6. Exact(freelist \ {k}, Slots, Tabs', Maps) BY <1>2, <1>3, <1>4, <1>9, <2>2, <2>3, <2>5, GiveTable DEF PageInv
  <2> QED BY <1>1, <2>1, <2>4, <2>6 DEF PageInv
<1> QED BY <1>13, <1>14, <1>15

(* kalloc() fails in setupkvm(). *)
LEMMA SetupFailsKeeps ==
  ASSUME VmInv, NEW p \in Procs, SetupFails(p)
  PROVE  VmInv'
<1>0. PICK t, d, u : t = task[p] /\ d = t.dir /\ u = Stage(t, "failed", NoPage) OBVIOUS
<1>1. /\ Setup(p) /\ Goto(p, u) /\ UNCHANGED <<proc, cr3, emptied, panic>>
      /\ IF t.stage = "kernel" THEN freevm(d, {}) ELSE UNCHANGED <<space, freelist>>
  BY <1>0 DEF SetupFails, Stage
<1>2. VmTypeOK /\ PageInv /\ DirInv /\ NoPage \in MaybePage BY DEF VmInv, MaybePage
<1>3. /\ Spare(p) = NoPage /\ Building(p) = d /\ (t.op = "fork" \/ t.op = "exec")
      /\ t.stage \in {"setupkvm", "kernel"} /\ (t.stage = "setupkvm" => d = NoPage)
      /\ t.stage = "kernel" => d # NoPage /\ d \in DOMAIN space /\ d \in Pages
                               /\ (\A q \in Procs : proc[q].pgdir # d /\ (q # p => Building(q) # d))
  BY <1>0, <1>1, SetupFacts
<1>4. /\ u \in Calls /\ task'[p] = u /\ u.op = t.op /\ u.op \in {"fork", "exec"}
      /\ u.op = "fork" => u.child = t.child /\ u.a = 0
      /\ u.op = "exec" => u.sz = 0
      /\ u.stage = "failed" /\ u.dir = NoPage /\ u.mem = NoPage
      /\ \A q \in Procs \ {p} : Spare(q)' = Spare(q) /\ Building(q)' = Building(q)
      /\ Spare(p)' = NoPage /\ Building(p)' = NoPage
  BY <1>0, <1>1, <1>2, SetupStage
<1>5. u.op = "fork" => ForkInv(p)' BY <1>4 DEF ForkInv
<1>6. u.op = "exec" => ExecInv(p)' BY <1>4 DEF ExecInv
<1>7. CASE t.stage = "kernel"
  <2>0. d # NoPage /\ d \in DOMAIN space /\ d \in Pages
        /\ (\A q \in Procs : proc[q].pgdir # d /\ (q # p => Building(q) # d))
    BY <1>3, <1>7
  <2>1. space' = Drop(space, {d}) /\ freelist' = freelist \cup PagesOf(d) BY <1>1, <1>7 DEF freevm
  <2>2. SpaceOK' /\ DOMAIN space' = DOMAIN space \ {d} /\ \A e \in DOMAIN space' : space'[e] = space[e]
    BY <1>2, <2>1, SpaceDrop
  <2>3. freelist' \subseteq Pages BY <1>2, <2>0, <2>1, PagesOfType DEF VmTypeOK
  <2>4. VmTypeOK' /\ (PageInv' /\ DirInv' => VmInv')
    <3>1. PICK Y : Y = {d} OBVIOUS
    <3>2. \A q \in Procs : proc[q].pgdir \notin Y /\ (q # p => Building(q) \notin Y) BY <2>0, <3>1
    <3>3. /\ \A e \in DOMAIN space \ Y : e \in DOMAIN space' /\ space'[e] = space[e]
          /\ \A e \in DOMAIN space' : e \in DOMAIN space \ Y \/ Tabled(space'[e])
      BY <2>2, <3>1
    <3> QED BY <1>0, <1>1, <1>2, <1>4, <1>5, <1>6, <2>2, <2>3, <3>2, <3>3, Build
  <2>5. DirInv' BY <1>1, <1>2, <1>3, <1>4, <2>0, <2>2, DirsDrop
  <2>6. PageInv'
    <3>1. Slots \in Holdings /\ Slots["newdir"][p] = d /\ Slots["mem"][p] = NoPage
          /\ "newdir" \in SlotKinds /\ "mem" \in SlotKinds
      BY <1>2, <1>3, SlotTypes, SlotIs DEF SlotKinds
    <3>2. Slots' = Hold(Hold(Slots, "mem", p, NoPage), "newdir", p, NoPage) BY <1>1, <1>2, <1>4, <2>4, BuildSlots
    <3>3. Slots' = Hold(Slots, "newdir", p, NoPage) BY <3>1, <3>2, HoldSame
    <3>4. Exact(freelist \cup PagesOf(d), Slots', Tabs', Maps')
      BY <1>2, <2>0, <2>1, <3>1, <3>3, FreeSpace DEF Hold, PageInv
    <3> QED BY <2>1, <3>4 DEF PageInv
  <2> QED BY <2>4, <2>5, <2>6
<1>8. CASE t.stage = "setupkvm"
  <2>1. UNCHANGED <<space, freelist>> /\ d = NoPage BY <1>1, <1>3, <1>8
  <2>2. SpaceOK' /\ freelist' \subseteq Pages BY <1>2, <2>1, SpaceSame DEF VmTypeOK
  <2>3. VmTypeOK' /\ (PageInv' /\ DirInv' => VmInv')
    <3>1. PICK Y : Y = {} OBVIOUS
    <3>2. \A q \in Procs : proc[q].pgdir \notin Y /\ (q # p => Building(q) \notin Y) BY <3>1
    <3>3. /\ \A e \in DOMAIN space \ Y : e \in DOMAIN space' /\ space'[e] = space[e]
          /\ \A e \in DOMAIN space' : e \in DOMAIN space \ Y \/ Tabled(space'[e])
      BY <2>1, <3>1
    <3> QED BY <1>0, <1>1, <1>2, <1>4, <1>5, <1>6, <2>2, <3>2, <3>3, Build
  <2>4. DirInv'
    <3>1. \A q \in Procs : proc'[q].pgdir = proc[q].pgdir /\ Building(q)' = Building(q) BY <1>1, <1>3, <1>4, <2>1
    <3> QED BY <1>2, <2>1, <3>1, DirsStay
  <2>5. Slots' = Slots BY <1>1, <1>2, <1>3, <1>4, <2>1, SlotsSame
  <2>6. Tabs' = Tabs /\ Maps' = Maps BY <2>1 DEF Tabs, Maps
  <2> QED BY <1>2, <2>1, <2>3, <2>4, <2>5, <2>6 DEF PageInv
<1> QED BY <1>3, <1>7, <1>8

-----------------------------------------------------------------------------
(* fork(), exit() and wait().                                              *)

(* The invariant after a step of the processes in X on the directories in Y. *)
LEMMA Assemble ==
  ASSUME VmInv, NEW X, NEW Y, Aside(X, Y), VmTypeOK', PageInv', DirInv', ChildInv',
         \A r \in Procs : r \in X => Own(r)',
         \A e \in DOMAIN space' : e \in DOMAIN space \ Y \/ Tabled(space'[e]), panic' => emptied' # {}
  PROVE  VmInv'
<1>1. (\A q \in Procs \ X : Own(q)') /\ \A e \in DOMAIN space \ Y : Tabled(space'[e])
  BY Others DEF Kept
<1>2. \A q \in Procs : Own(q)' BY <1>1
<1>3. \A e \in DOMAIN space' : Tabled(space'[e]) BY <1>1
<1> QED BY <1>2, <1>3 DEF VmInv

(* One process changes. *)
LEMMA OneProc ==
  ASSUME VmTypeOK, NEW q \in Procs, NEW x \in ProcSet, proc' = [proc EXCEPT ![q] = x]
  PROVE  proc' \in [Procs -> ProcSet] /\ proc'[q] = x /\ \A r \in Procs \ {q} : proc'[r] = proc[r]
<1>1. proc \in [Procs -> ProcSet] BY DEF VmTypeOK, ProcSet
<1> QED BY <1>1

(* A call is over. *)
LEMMA CallEnds ==
  ASSUME VmTypeOK, NEW p \in Procs, Goto(p, NoTask)
  PROVE  /\ task' \in [Procs -> Calls] /\ task'[p] = NoTask /\ task'[p].op = "none"
         /\ \A q \in Procs \ {p} : task'[q] = task[q] /\ Spare(q)' = Spare(q) /\ Building(q)' = Building(q)
         /\ Spare(p)' = NoPage /\ Building(p)' = NoPage
<1> PICK n : n = NoTask OBVIOUS
<1>1. n \in Calls /\ n.op = "none" /\ Goto(p, n) BY NoCall
<1>2. /\ task' \in [Procs -> Calls] /\ task'[p] = n
      /\ \A q \in Procs \ {p} : task'[q] = task[q] /\ Spare(q)' = Spare(q) /\ Building(q)' = Building(q)
      /\ Spare(p)' = (IF n.op # "none" THEN n.mem ELSE NoPage)
      /\ Building(p)' = (IF n.op \in {"fork", "exec"} THEN n.dir ELSE NoPage)
  BY <1>1, Moves
<1> QED BY <1>1, <1>2

(* A process in a call is live. *)
LEMMA InCall ==
  ASSUME VmInv, NEW q \in Procs, proc[q].state # "LIVE"
  PROVE  task[q].op = "none" /\ Spare(q) = NoPage /\ Building(q) = NoPage
<1>1. Own(q) BY DEF VmInv
<1>2. task[q].op = "none" BY <1>1 DEF Own, ProcInv
<1> QED BY <1>2 DEF Spare, Building

(* The child of a fork. *)
LEMMA Child ==
  ASSUME VmInv, NEW p \in Procs, task[p].op = "fork", NEW t, t = task[p], NEW q, q = t.child
  PROVE  /\ t \in ForkTasks /\ ForkInv(p) /\ q \in Procs /\ proc[q].state = "EMBRYO" /\ q # p
         /\ proc[q].kstack # NoPage /\ proc[q].kstack \in Pages /\ proc[q].pgdir = NoPage
         /\ task[q].op = "none" /\ Spare(q) = NoPage /\ Building(q) = NoPage /\ q \notin emptied
         /\ proc[p].state = "LIVE" /\ proc[p].sz \in Nat /\ proc[p].sz < KERNBASE /\ Own(p)
         /\ Spare(p) = t.mem /\ Building(p) = t.dir
         /\ proc[p].pgdir # NoPage /\ proc[p].pgdir \in DOMAIN space
         /\ \A r \in Procs \ {p} : task[r].op = "fork" => task[r].child # q
         /\ \A r \in Procs : task[r].op = "fork" => task[r].child \in Procs
<1>1. VmTypeOK /\ PageInv /\ DirInv /\ ChildInv /\ Own(p) BY DEF VmInv
<1>2. t \in ForkTasks BY <1>1, TaskKinds
<1>3. q \in Procs /\ ForkInv(p) BY <1>1, <1>2 DEF ForkTasks, Own
<1>4. proc[q].state = "EMBRYO" /\ \A r \in Procs \ {p} : task[r].op = "fork" => task[r].child # q
  BY <1>1 DEF ChildInv
<1>5. Own(q) BY <1>3 DEF VmInv
<1>6. proc[q].kstack # NoPage /\ proc[q].pgdir = NoPage /\ q \notin emptied BY <1>4, <1>5 DEF Own, ProcInv
<1>7. proc[p].state = "LIVE" /\ proc[p].sz < KERNBASE /\ proc[p].pgdir # NoPage BY <1>1 DEF Own, ProcInv
<1>8. proc[p].sz \in Nat /\ proc[q].kstack \in Pages BY <1>1, <1>3, <1>6, ProcFields DEF MaybePage
<1>9. proc[p].pgdir \in DOMAIN space BY <1>1, <1>7, OwnDirs
<1>10. task[q].op = "none" /\ Spare(q) = NoPage /\ Building(q) = NoPage BY <1>3, <1>4, InCall
<1>11. Spare(p) = t.mem /\ Building(p) = t.dir BY DEF Spare, Building
<1>12. \A r \in Procs : task[r].op = "fork" => task[r].child \in Procs BY <1>1, TaskKinds DEF ForkTasks
<1> QED BY <1>1, <1>2, <1>3, <1>4, <1>6, <1>7, <1>8, <1>9, <1>10, <1>11, <1>12

(* A page passes from one slot to another. *)
LEMMA PassSlot ==
  ASSUME NEW fr, NEW h \in Holdings, NEW tabs, NEW maps, Exact(fr, h, tabs, maps),
         NEW c \in SlotKinds, NEW p \in Procs, NEW k \in Pages, h[c][p] = k,
         NEW e \in SlotKinds, NEW q \in Procs, h[e][q] = NoPage
  PROVE  Exact(fr, Hold(Hold(h, c, p, NoPage), e, q, k), tabs, maps)
<1>1. NoPage \in MaybePage /\ NoPage # k BY NoPageIsNone DEF MaybePage
<1>2. PICK g : g = Hold(h, c, p, NoPage) OBVIOUS
<1>3. g \in Holdings /\ g[e][q] = NoPage BY <1>1, <1>2, HoldIs
<1>4. PICK F : F = fr \cup {k} OBVIOUS
<1>5. Exact(F, g, tabs, maps) /\ k \notin fr BY <1>2, <1>4, TakeSlot DEF Hold
<1>6. Exact(F \ {k}, Hold(g, e, q, k), tabs, maps) BY <1>3, <1>4, <1>5, GiveSlot DEF Hold
<1>7. F \ {k} = fr BY <1>4, <1>5
<1> QED BY <1>2, <1>6, <1>7

(* One slot after a step, *)
LEMMA OneSlot ==
  ASSUME VmTypeOK, NEW c \in SlotKinds, NEW p \in Procs, NEW k \in MaybePage, Slot(c, p)' = k,
         \A e \in SlotKinds, q \in Procs : e # c \/ q # p => Slot(e, q)' = Slot(e, q)
  PROVE  Slots' = Hold(Slots, c, p, k)
<1>1. PICK h : h = Hold(Slots, c, p, k) OBVIOUS
<1>2. Slots \in Holdings BY SlotTypes
<1>3. h \in Holdings /\ h[c][p] = k /\ \A e \in SlotKinds, q \in Procs : e # c \/ q # p => h[e][q] = Slots[e][q]
  BY <1>1, <1>2, HoldIs
<1>4. \A e \in SlotKinds, q \in Procs : Slot(e, q)' = h[e][q] BY <1>3, SlotTypes
<1> QED BY <1>1, <1>3, <1>4, SlotsAre

(* and two. *)
LEMMA HoldTwo ==
  ASSUME NEW h \in Holdings, NEW c \in SlotKinds, NEW p \in Procs, NEW k \in MaybePage,
         NEW d \in SlotKinds, NEW r \in Procs, NEW l \in MaybePage, c # d, NEW j, j = Hold(Hold(h, c, p, k), d, r, l)
  PROVE  /\ j \in Holdings /\ j[c][p] = k /\ j[d][r] = l
         /\ \A e \in SlotKinds, q \in Procs : (e # c \/ q # p) /\ (e # d \/ q # r) => j[e][q] = h[e][q]
BY DEF Hold, Holdings

(* What they are. *)
LEMMA TwoSlots ==
  ASSUME VmTypeOK, NEW c \in SlotKinds, NEW p \in Procs, NEW k \in MaybePage,
         NEW d \in SlotKinds, NEW r \in Procs, NEW l \in MaybePage, c # d,
         Slot(c, p)' = k, Slot(d, r)' = l,
         \A e \in SlotKinds, q \in Procs : (e # c \/ q # p) /\ (e # d \/ q # r) => Slot(e, q)' = Slot(e, q)
  PROVE  Slots' = Hold(Hold(Slots, c, p, k), d, r, l)
<1>1. PICK h : h = Slots OBVIOUS
<1>2. h \in Holdings /\ \A e \in SlotKinds, q \in Procs : h[e][q] = Slot(e, q) BY <1>1, SlotTypes
<1>3. PICK i : i = Hold(Hold(h, c, p, k), d, r, l) OBVIOUS
<1>4. /\ i \in Holdings /\ i[c][p] = k /\ i[d][r] = l
      /\ \A e \in SlotKinds, q \in Procs : (e # c \/ q # p) /\ (e # d \/ q # r) => i[e][q] = h[e][q]
  BY <1>2, <1>3, HoldTwo, SMTT(60)
<1>5. \A e \in SlotKinds, q \in Procs : Slot(e, q)' = i[e][q] BY <1>2, <1>4
<1> QED BY <1>1, <1>3, <1>4, <1>5, SlotsAre

(* fork() takes a slot and a stack. *)
LEMMA forkKeeps ==
  ASSUME VmInv, NEW p \in Procs, NEW q \in Procs, fork(p, q)
  PROVE  VmInv'
<1>0. PICK k, x, t : /\ k = Kalloc /\ x = [Unused EXCEPT !.state = "EMBRYO", !.kstack = k]
                     /\ t = [op |-> "fork", stage |-> "setupkvm", child |-> q, dir |-> NoPage, a |-> 0, mem |-> NoPage]
  OBVIOUS
<1>1. /\ Running(p) /\ proc[q].state = "UNUSED" /\ freelist # {} /\ freelist' = freelist \ {k}
      /\ proc' = [proc EXCEPT ![q] = x] /\ Goto(p, t) /\ UNCHANGED <<space, cr3, emptied, panic>>
  BY <1>0 DEF fork
<1>2. VmTypeOK /\ PageInv /\ DirInv /\ ChildInv /\ (panic => emptied # {}) /\ Own(q) /\ NoPage \in MaybePage
      /\ freelist' \subseteq Pages
  BY <1>1 DEF VmInv, VmTypeOK, MaybePage
<1>3. k \in freelist /\ k \in Pages /\ k # NoPage /\ k \in MaybePage BY <1>0, <1>1, FreePage DEF MaybePage
<1>4. /\ task[p].op = "none" /\ Spare(p) = NoPage /\ Building(p) = NoPage /\ proc[p].state = "LIVE" /\ Own(p)
  BY <1>1, Idle
<1>5. /\ p # q /\ proc[q].kstack = NoPage /\ proc[q].pgdir = NoPage /\ q \notin emptied
      /\ task[q].op = "none"
  BY <1>1, <1>2, <1>4 DEF Own, ProcInv
<1>6. x \in ProcSet /\ x.state = "EMBRYO" /\ x.kstack = k /\ x.pgdir = NoPage
  BY <1>0, <1>2, <1>3 DEF Unused, ProcSet
<1>7. proc' \in [Procs -> ProcSet] /\ proc'[q] = x /\ \A r \in Procs \ {q} : proc'[r] = proc[r]
  BY <1>1, <1>2, <1>6, OneProc
<1>8. t \in Calls /\ t.op = "fork" /\ t.stage = "setupkvm" /\ t.child = q /\ t.dir = NoPage /\ t.a = 0 /\ t.mem = NoPage
  BY <1>0, <1>2 DEF Calls, ForkTasks
<1>9. /\ task' \in [Procs -> Calls] /\ task'[p] = t
      /\ \A r \in Procs \ {p} : task'[r] = task[r] /\ Spare(r)' = Spare(r) /\ Building(r)' = Building(r)
      /\ Spare(p)' = (IF t.op # "none" THEN t.mem ELSE NoPage)
      /\ Building(p)' = (IF t.op \in {"fork", "exec"} THEN t.dir ELSE NoPage)
  BY <1>1, <1>2, <1>8, Moves
<1>10. \A r \in Procs : Spare(r)' = Spare(r) /\ Building(r)' = Building(r) BY <1>4, <1>8, <1>9
<1>11. VmTypeOK' BY <1>1, <1>2, <1>7, <1>9, SpaceSame, Types DEF VmTypeOK, ProcSet
<1>12. \A r \in Procs : proc'[r].pgdir = proc[r].pgdir BY <1>5, <1>6, <1>7
<1>13. DirInv' BY <1>1, <1>2, <1>10, <1>12, DirsStay
<1>14. ChildInv'
  <2>1. \A r \in Procs \ {p} : task[r].op = "fork" => task[r].child # q BY <1>1, <1>2 DEF ChildInv
  <2>2. \A r \in Procs : task[r].op = "fork" => task[r].child \in Procs BY <1>2, TaskKinds DEF ForkTasks
  <2>3. ASSUME NEW r \in Procs, task'[r].op = "fork"
        PROVE  /\ proc'[task'[r].child].state = "EMBRYO"
               /\ \A s \in Procs : task'[s].op = "fork" /\ task'[s].child = task'[r].child => r = s
    <3>1. CASE r = p BY <1>6, <1>7, <1>8, <1>9, <2>1, <3>1
    <3>2. CASE r # p
      <4>1. task'[r] = task[r] /\ task[r].child # q /\ task[r].child \in Procs BY <1>9, <2>1, <2>2, <2>3, <3>2
      <4>2. proc'[task[r].child].state = "EMBRYO" BY <1>2, <1>7, <2>3, <4>1 DEF ChildInv
      <4>3. ASSUME NEW s \in Procs, task'[s].op = "fork", task'[s].child = task'[r].child PROVE r = s
        <5>1. s # p BY <1>8, <1>9, <4>1, <4>3
        <5>2. task'[s] = task[s] BY <1>9, <5>1
        <5> QED BY <1>2, <2>3, <4>1, <4>3, <5>2 DEF ChildInv
      <4> QED BY <4>1, <4>2, <4>3
    <3> QED BY <3>1, <3>2
  <2> QED BY <2>3 DEF ChildInv
<1>15. PageInv'
  <2>1. "stack" \in SlotKinds /\ Slots \in Holdings /\ Slots["stack"][q] = NoPage
    BY <1>2, <1>5, SlotTypes, SlotIs DEF SlotKinds
  <2>2. \A e \in SlotKinds, r \in Procs : e # "stack" \/ r # q => Slot(e, r)' = Slot(e, r)
    BY <1>7, <1>10, <1>12, SlotIs DEF SlotKinds
  <2>3. Slot("stack", q)' = k BY <1>6, <1>7, SlotIs
  <2>4. Slots' = Hold(Slots, "stack", q, k) BY <1>2, <1>3, <2>1, <2>2, <2>3, OneSlot
  <2>5. Exact(freelist \ {k}, Slots', Tabs, Maps) BY <1>2, <1>3, <2>1, <2>4, GiveSlot DEF PageInv, Hold
  <2>6. Tabs' = Tabs /\ Maps' = Maps BY <1>1 DEF Tabs, Maps
  <2> QED BY <1>1, <2>5, <2>6 DEF PageInv
<1>16. Own(p)'
  <2>1. proc'[p] = proc[p] /\ task'[p] = t BY <1>5, <1>7, <1>9
  <2>2. ProcInv(p)' BY <1>1, <1>4, <1>8, <2>1 DEF Own, ProcInv
  <2>3. ImageInv(p)' BY <1>1, <1>4, <1>8, <2>1 DEF Own, ImageInv
  <2>4. ForkInv(p)' BY <1>8, <2>1 DEF ForkInv
  <2> QED BY <1>8, <2>1, <2>2, <2>3, <2>4 DEF Own
<1>17. Own(q)'
  <2>1. task'[q] = task[q] BY <1>5, <1>9
  <2>2. ProcInv(q)' BY <1>1, <1>3, <1>5, <1>6, <1>7, <2>1 DEF ProcInv
  <2>3. ImageInv(q)' BY <1>6, <1>7 DEF ImageInv
  <2> QED BY <1>5, <2>1, <2>2, <2>3 DEF Own
<1>18. Aside({p, q}, {}) BY <1>1, <1>7, <1>9 DEF Aside
<1> QED BY <1>1, <1>2, <1>11, <1>13, <1>14, <1>15, <1>16, <1>17, <1>18, Assemble

(* The other children of forks keep their parents. *)
LEMMA OtherChildren ==
  ASSUME VmInv, NEW p \in Procs, NEW q \in Procs, task'[p].op # "fork",
         \A r \in Procs \ {p} : task'[r] = task[r],
         \A r \in Procs \ {q} : proc'[r].state = proc[r].state,
         \A r \in Procs \ {p} : task[r].op = "fork" => task[r].child # q
  PROVE  ChildInv'
<1>1. VmTypeOK /\ ChildInv BY DEF VmInv
<1>2. ASSUME NEW r \in Procs, task'[r].op = "fork"
      PROVE task[r].op = "fork" /\ task'[r].child = task[r].child
            /\ proc'[task[r].child].state = proc[task[r].child].state
  <2>1. r # p /\ task'[r] = task[r] BY <1>2
  <2>2. task[r].child \in Procs BY <1>1, <1>2, <2>1, TaskKinds DEF ForkTasks
  <2> QED BY <1>2, <2>1, <2>2
<1> QED BY <1>1, <1>2, ChildrenStay

(* fork() is done: the child gets the copy. *)
LEMMA ForkDoneKeeps ==
  ASSUME VmInv, NEW p \in Procs, ForkDone(p)
  PROVE  VmInv'
<1>0. PICK t, q, d, sz, x : /\ t = task[p] /\ q = t.child /\ d = t.dir /\ sz = proc[p].sz
                            /\ x = [proc[q] EXCEPT !.state = "LIVE", !.pgdir = d, !.sz = sz]
  OBVIOUS
<1>1. /\ t.op = "fork" /\ t.stage = "load" /\ t.a >= sz /\ proc' = [proc EXCEPT ![q] = x]
      /\ cr3' = [cr3 EXCEPT ![q] = d] /\ Goto(p, NoTask) /\ UNCHANGED <<freelist, space, emptied, panic>>
  BY <1>0 DEF ForkDone
<1>2. VmTypeOK /\ PageInv /\ DirInv /\ ChildInv /\ (panic => emptied # {}) /\ NoPage \in MaybePage
  BY DEF VmInv, MaybePage
<1>3. /\ t \in ForkTasks /\ ForkInv(p) /\ q \in Procs /\ proc[q].state = "EMBRYO" /\ q # p
      /\ proc[q].kstack # NoPage /\ proc[q].pgdir = NoPage
      /\ task[q].op = "none" /\ Spare(q) = NoPage /\ Building(q) = NoPage /\ q \notin emptied
      /\ proc[p].state = "LIVE" /\ sz \in Nat /\ sz < KERNBASE /\ Own(p)
      /\ Spare(p) = t.mem /\ Building(p) = d
      /\ \A r \in Procs \ {p} : task[r].op = "fork" => task[r].child # q
  BY <1>0, <1>1, Child
<1>4. /\ d # NoPage /\ t.a % PGSIZE = 0 /\ (t.a = 0 \/ t.a < sz + PGSIZE) /\ DOMAIN space[d].map = Below(t.a)
      /\ (t.mem # NoPage => t.a < sz) /\ t.a \in Nat
  BY <1>0, <1>1, <1>3 DEF ForkInv, ForkTasks
<1>5. t.mem = NoPage BY <1>1, <1>3, <1>4
<1>6. DOMAIN space[d].map = Below(sz)
  <2>1. CASE t.a = 0
    <3>1. sz = t.a BY <1>1, <1>3, <2>1
    <3> QED BY <1>4, <3>1
  <2>2. CASE t.a < sz + PGSIZE
    <3>1. sz <= t.a BY <1>1, <1>3, <1>4
    <3>2. Below(t.a) = Below(sz) BY <1>3, <1>4, <2>2, <3>1, SamePages
    <3> QED BY <1>4, <3>2
  <2> QED BY <1>4, <2>1, <2>2
<1>7. d \in DOMAIN space /\ d \in Pages /\ d \in MaybePage
      /\ \A r \in Procs : proc[r].pgdir # d /\ (r # p => Building(r) # d)
  <2>1. d \in DOMAIN space /\ \A r \in Procs \ {p} : proc[r].pgdir # d /\ Building(r) # d
    BY <1>2, <1>3, <1>4, OwnDirs
  <2>2. proc[p].pgdir # d BY <1>2, <1>3, <1>4, OwnDirs
  <2> QED BY <1>2, <2>1, <2>2 DEF VmTypeOK, MaybePage
<1>8. proc[q] \in ProcSet BY <1>2, <1>3 DEF VmTypeOK, ProcSet
<1>9. /\ x \in ProcSet /\ x.state = "LIVE" /\ x.pgdir = d /\ x.sz = sz /\ x.kstack = proc[q].kstack
  BY <1>0, <1>3, <1>7, <1>8 DEF ProcSet
<1>10. proc' \in [Procs -> ProcSet] /\ proc'[q] = x /\ \A r \in Procs \ {q} : proc'[r] = proc[r]
  BY <1>1, <1>2, <1>3, <1>9, OneProc
<1>11. cr3' \in [Procs -> MaybePage] /\ cr3'[q] = d /\ \A r \in Procs \ {q} : cr3'[r] = cr3[r]
  BY <1>1, <1>2, <1>3, <1>7 DEF VmTypeOK
<1>12. /\ task' \in [Procs -> Calls] /\ task'[p] = NoTask /\ task'[p].op = "none"
       /\ \A r \in Procs \ {p} : task'[r] = task[r] /\ Spare(r)' = Spare(r) /\ Building(r)' = Building(r)
       /\ Spare(p)' = NoPage /\ Building(p)' = NoPage
  BY <1>1, <1>2, CallEnds
<1>13. VmTypeOK' BY <1>1, <1>2, <1>10, <1>11, <1>12, SpaceSame, Types DEF VmTypeOK, ProcSet
<1>14. DirInv'
  <2>1. \A e \in Pages : e \in DOMAIN space <=> \E r \in Procs : proc[r].pgdir = e \/ Building(r) = e BY <1>2 DEF DirInv
  <2>2. proc'[q].pgdir = d /\ \A r \in Procs \ {q} : proc'[r].pgdir = proc[r].pgdir BY <1>9, <1>10
  <2>3. Building(p)' = NoPage /\ \A r \in Procs \ {p} : Building(r)' = Building(r) BY <1>12
  <2>4. ASSUME NEW e \in Pages
        PROVE  e \in DOMAIN space <=> \E r \in Procs : proc'[r].pgdir = e \/ Building(r)' = e
    <3>1. e # NoPage BY NoPageIsNone
    <3>2. CASE e = d BY <1>3, <1>7, <2>2, <3>2
    <3>3. CASE e # d BY <1>3, <2>1, <2>2, <2>3, <3>1, <3>3
    <3> QED BY <3>2, <3>3
  <2> QED BY <1>1, <2>4 DEF DirInv
<1>15. ChildInv'
  <2>1. \A r \in Procs \ {p} : task'[r] = task[r] BY <1>12
  <2>2. \A r \in Procs \ {q} : proc'[r].state = proc[r].state BY <1>10
  <2>3. task'[p].op # "fork" BY <1>12
  <2> QED BY <1>3, <2>1, <2>2, <2>3, OtherChildren
<1>16. PageInv'
  <2>1. "pgdir" \in SlotKinds /\ "newdir" \in SlotKinds /\ Slots \in Holdings /\ Slots["pgdir"][q] = NoPage
        /\ Slots["newdir"][p] = d
    BY <1>2, <1>3, SlotTypes, SlotIs DEF SlotKinds
  <2>2. ASSUME NEW e \in SlotKinds, NEW r \in Procs, e # "newdir" \/ r # p, e # "pgdir" \/ r # q
        PROVE  Slot(e, r)' = Slot(e, r)
    <3>1. proc'[r].kstack = proc[r].kstack /\ Spare(r)' = Spare(r) BY <1>3, <1>5, <1>9, <1>10, <1>12
    <3>2. CASE e = "stack" BY <3>1, <3>2, SlotIs
    <3>3. CASE e = "mem" BY <3>1, <3>3, SlotIs
    <3>4. CASE e = "pgdir" BY <1>10, <2>2, <3>4, SlotIs
    <3>5. CASE e = "newdir" BY <1>12, <2>2, <3>5, SlotIs
    <3> QED BY <3>2, <3>3, <3>4, <3>5 DEF SlotKinds
  <2>3. Slot("newdir", p)' = NoPage /\ Slot("pgdir", q)' = d BY <1>9, <1>10, <1>12, SlotIs
  <2>4. "newdir" # "pgdir" OBVIOUS
  <2>5. Slots' = Hold(Hold(Slots, "newdir", p, NoPage), "pgdir", q, d)
    BY <1>2, <1>3, <1>7, <2>1, <2>2, <2>3, <2>4, TwoSlots
  <2>6. Exact(freelist, Slots', Tabs, Maps) BY <1>2, <1>3, <1>7, <2>1, <2>5, PassSlot DEF PageInv
  <2>7. Tabs' = Tabs /\ Maps' = Maps BY <1>1 DEF Tabs, Maps
  <2> QED BY <1>1, <2>6, <2>7 DEF PageInv
<1>17. Own(p)'
  <2>1. proc'[p] = proc[p] /\ cr3'[p] = cr3[p] BY <1>3, <1>10, <1>11
  <2>2. ProcInv(p)' BY <1>1, <1>3, <1>12, <2>1 DEF Own, ProcInv
  <2>3. ImageInv(p)' BY <1>0, <1>1, <1>3, <2>1 DEF Own, ImageInv
  <2> QED BY <1>12, <2>2, <2>3 DEF Own
<1>18. Own(q)'
  <2>1. task'[q] = task[q] BY <1>3, <1>12
  <2>2. ProcInv(q)' BY <1>1, <1>3, <1>4, <1>9, <1>10, <1>11, <2>1 DEF ProcInv
  <2>3. ImageInv(q)' BY <1>1, <1>3, <1>6, <1>9, <1>10 DEF ImageInv
  <2> QED BY <1>3, <2>1, <2>2, <2>3 DEF Own
<1>19. Aside({p, q}, {}) BY <1>1, <1>10, <1>11, <1>12 DEF Aside
<1> QED BY <1>1, <1>2, <1>13, <1>14, <1>15, <1>16, <1>17, <1>18, <1>19, Assemble

(* fork() gives the child's stack back. *)
LEMMA ForkFailsKeeps ==
  ASSUME VmInv, NEW p \in Procs, ForkFails(p)
  PROVE  VmInv'
<1>0. PICK t, q, k, x : t = task[p] /\ q = t.child /\ k = proc[q].kstack /\ x = Unused OBVIOUS
<1>1. /\ t.op = "fork" /\ t.stage = "failed" /\ freelist' = freelist \cup {k} /\ proc' = [proc EXCEPT ![q] = x]
      /\ Goto(p, NoTask) /\ UNCHANGED <<space, cr3, emptied, panic>>
  BY <1>0 DEF ForkFails
<1>2. VmTypeOK /\ PageInv /\ DirInv /\ ChildInv /\ (panic => emptied # {}) /\ NoPage \in MaybePage
  BY DEF VmInv, MaybePage
<1>3. /\ ForkInv(p) /\ q \in Procs /\ q # p
      /\ k # NoPage /\ k \in Pages /\ proc[q].pgdir = NoPage /\ proc[q].state = "EMBRYO"
      /\ task[q].op = "none" /\ q \notin emptied
      /\ Own(p) /\ Spare(p) = t.mem /\ Building(p) = t.dir
      /\ \A r \in Procs \ {p} : task[r].op = "fork" => task[r].child # q
  BY <1>0, <1>1, Child
<1>4. t.mem = NoPage /\ t.dir = NoPage BY <1>0, <1>1, <1>3 DEF ForkInv
<1>5. x \in ProcSet /\ x.state = "UNUSED" /\ x.kstack = NoPage /\ x.pgdir = NoPage
  BY <1>0, <1>2 DEF Unused, ProcSet
<1>6. proc' \in [Procs -> ProcSet] /\ proc'[q] = x /\ \A r \in Procs \ {q} : proc'[r] = proc[r]
  BY <1>1, <1>2, <1>3, <1>5, OneProc
<1>7. /\ task' \in [Procs -> Calls] /\ task'[p] = NoTask /\ task'[p].op = "none"
      /\ \A r \in Procs \ {p} : task'[r] = task[r] /\ Spare(r)' = Spare(r) /\ Building(r)' = Building(r)
      /\ Spare(p)' = NoPage /\ Building(p)' = NoPage
  BY <1>1, <1>2, CallEnds
<1>8. VmTypeOK'
  <2>1. freelist' \subseteq Pages BY <1>1, <1>2, <1>3 DEF VmTypeOK
  <2> QED BY <1>1, <1>2, <1>6, <1>7, <2>1, SpaceSame, Types DEF VmTypeOK, ProcSet
<1>9. \A r \in Procs : Spare(r)' = Spare(r) /\ Building(r)' = Building(r) /\ proc'[r].pgdir = proc[r].pgdir
  BY <1>3, <1>4, <1>5, <1>6, <1>7
<1>10. DirInv' BY <1>1, <1>2, <1>9, DirsStay
<1>11. ChildInv'
  <2>1. \A r \in Procs \ {p} : task'[r] = task[r] BY <1>7
  <2>2. \A r \in Procs \ {q} : proc'[r].state = proc[r].state BY <1>6
  <2>3. task'[p].op # "fork" BY <1>7
  <2> QED BY <1>3, <2>1, <2>2, <2>3, OtherChildren
<1>12. PageInv'
  <2>1. "stack" \in SlotKinds /\ Slots \in Holdings /\ Slots["stack"][q] = k
    BY <1>0, <1>2, <1>3, SlotTypes, SlotIs DEF SlotKinds
  <2>2. \A e \in SlotKinds, r \in Procs : e # "stack" \/ r # q => Slot(e, r)' = Slot(e, r)
    BY <1>6, <1>9, SlotIs DEF SlotKinds
  <2>3. Slot("stack", q)' = NoPage BY <1>5, <1>6, SlotIs
  <2>4. Slots' = Hold(Slots, "stack", q, NoPage) BY <1>2, <1>3, <2>1, <2>2, <2>3, OneSlot
  <2>5. Exact(freelist \cup {k}, Slots', Tabs, Maps) BY <1>2, <1>3, <2>1, <2>4, TakeSlot DEF PageInv, Hold
  <2>6. Tabs' = Tabs /\ Maps' = Maps BY <1>1 DEF Tabs, Maps
  <2> QED BY <1>1, <2>5, <2>6 DEF PageInv
<1>13. Own(p)'
  <2>1. proc'[p] = proc[p] BY <1>3, <1>6
  <2>2. ProcInv(p)' BY <1>1, <1>3, <1>7, <2>1 DEF Own, ProcInv
  <2>3. ImageInv(p)' BY <1>0, <1>1, <1>3, <2>1 DEF Own, ImageInv
  <2> QED BY <1>7, <2>2, <2>3 DEF Own
<1>14. Own(q)'
  <2>1. task'[q] = task[q] BY <1>3, <1>7
  <2>2. ProcInv(q)' BY <1>1, <1>3, <1>5, <1>6, <2>1 DEF ProcInv
  <2>3. ImageInv(q)' BY <1>5, <1>6 DEF ImageInv
  <2> QED BY <1>3, <2>1, <2>2, <2>3 DEF Own
<1>15. Aside({p, q}, {}) BY <1>1, <1>6, <1>7 DEF Aside
<1> QED BY <1>1, <1>2, <1>8, <1>10, <1>11, <1>12, <1>13, <1>14, <1>15, Assemble

(* exit() keeps stack and address space. *)
LEMMA exitKeeps ==
  ASSUME VmInv, NEW p \in Procs, exit(p)
  PROVE  VmInv'
<1>0. PICK x : x = [proc[p] EXCEPT !.state = "ZOMBIE"] OBVIOUS
<1>1. /\ Running(p) /\ proc' = [proc EXCEPT ![p] = x] /\ cr3' = [cr3 EXCEPT ![p] = NoPage]
      /\ UNCHANGED <<freelist, space, task, emptied, panic>>
  BY <1>0 DEF exit
<1>2. VmTypeOK /\ PageInv /\ DirInv /\ ChildInv /\ (panic => emptied # {}) /\ NoPage \in MaybePage
  BY DEF VmInv, MaybePage
<1>3. task[p].op = "none" /\ proc[p].state = "LIVE" /\ Own(p) /\ proc[p] \in ProcSet
  BY <1>1, <1>2, Idle DEF VmTypeOK, ProcSet
<1>4. /\ x \in ProcSet /\ x.state = "ZOMBIE" /\ x.kstack = proc[p].kstack /\ x.pgdir = proc[p].pgdir /\ x.sz = proc[p].sz
  BY <1>0, <1>3 DEF ProcSet
<1>5. proc' \in [Procs -> ProcSet] /\ proc'[p] = x /\ \A r \in Procs \ {p} : proc'[r] = proc[r]
  BY <1>1, <1>2, <1>4, OneProc
<1>6. cr3' \in [Procs -> MaybePage] /\ \A r \in Procs \ {p} : cr3'[r] = cr3[r] BY <1>1, <1>2 DEF VmTypeOK
<1>7. VmTypeOK' BY <1>1, <1>2, <1>5, <1>6, SpaceSame, Types DEF VmTypeOK, ProcSet
<1>8. \A r \in Procs : /\ Spare(r)' = Spare(r) /\ Building(r)' = Building(r)
                       /\ proc'[r].pgdir = proc[r].pgdir /\ proc'[r].kstack = proc[r].kstack
  BY <1>1, <1>4, <1>5 DEF Spare, Building
<1>9. DirInv' BY <1>1, <1>2, <1>8, DirsStay
<1>10. ChildInv'
  <2>1. \A r \in Procs \ {p} : task[r].op = "fork" => task[r].child # p BY <1>2, <1>3 DEF ChildInv
  <2>2. task'[p].op # "fork" BY <1>1, <1>3
  <2>3. \A r \in Procs \ {p} : task'[r] = task[r] /\ proc'[r].state = proc[r].state BY <1>1, <1>5
  <2> QED BY <2>1, <2>2, <2>3, OtherChildren
<1>11. PageInv'
  <2>1. Slots' = Slots BY <1>2, <1>8, SlotsSame
  <2>2. Tabs' = Tabs /\ Maps' = Maps BY <1>1 DEF Tabs, Maps
  <2> QED BY <1>1, <1>2, <2>1, <2>2 DEF PageInv
<1>12. Own(p)'
  <2>1. ProcInv(p)' BY <1>1, <1>3, <1>4, <1>5 DEF Own, ProcInv
  <2>2. ImageInv(p)' BY <1>4, <1>5 DEF ImageInv
  <2> QED BY <1>1, <1>3, <2>1, <2>2 DEF Own
<1>13. Aside({p}, {}) BY <1>1, <1>5, <1>6 DEF Aside
<1> QED BY <1>1, <1>2, <1>7, <1>9, <1>10, <1>11, <1>12, <1>13, Assemble

(* wait() frees them. *)
LEMMA waitKeeps ==
  ASSUME VmInv, ~panic, NEW q \in Procs, wait(q)
  PROVE  VmInv'
<1>0. PICK d, k, x : d = proc[q].pgdir /\ k = proc[q].kstack /\ x = Unused OBVIOUS
<1>1. /\ proc[q].state = "ZOMBIE" /\ space' = Drop(space, {d}) /\ freelist' = freelist \cup PagesOf(d) \cup {k}
      /\ proc' = [proc EXCEPT ![q] = x] /\ emptied' = emptied \ {q} /\ UNCHANGED <<cr3, task, panic>>
  BY <1>0 DEF wait, freevm
<1>2. VmTypeOK /\ PageInv /\ DirInv /\ ChildInv /\ Own(q) /\ NoPage \in MaybePage BY DEF VmInv, MaybePage
<1>3. d # NoPage /\ k # NoPage BY <1>0, <1>1, <1>2 DEF Own, ProcInv
<1>4. /\ d \in DOMAIN space /\ d \in Pages /\ k \in Pages
      /\ \A r \in Procs : (r # q => proc[r].pgdir # d) /\ Building(r) # d
  <2>1. d \in DOMAIN space /\ d # Building(q) /\ \A r \in Procs \ {q} : proc[r].pgdir # d /\ Building(r) # d
    BY <1>0, <1>2, <1>3, OwnDirs
  <2>2. k \in Pages BY <1>0, <1>2, <1>3, ProcFields DEF MaybePage
  <2> QED BY <1>2, <2>1, <2>2 DEF VmTypeOK
<1>5. task[q].op = "none" BY <1>1, InCall
<1>6. x \in ProcSet /\ x.state = "UNUSED" /\ x.kstack = NoPage /\ x.pgdir = NoPage
  BY <1>0, <1>2 DEF Unused, ProcSet
<1>7. proc' \in [Procs -> ProcSet] /\ proc'[q] = x /\ \A r \in Procs \ {q} : proc'[r] = proc[r]
  BY <1>1, <1>2, <1>6, OneProc
<1>8. SpaceOK' /\ DOMAIN space' = DOMAIN space \ {d} /\ \A e \in DOMAIN space' : space'[e] = space[e]
  BY <1>1, <1>2, SpaceDrop
<1>9. VmTypeOK'
  <2>1. freelist' \subseteq Pages /\ emptied' \in SUBSET Procs BY <1>1, <1>2, <1>4, PagesOfType DEF VmTypeOK
  <2> QED BY <1>1, <1>2, <1>7, <1>8, <2>1, Types DEF VmTypeOK, ProcSet
<1>10. \A r \in Procs : Spare(r)' = Spare(r) /\ Building(r)' = Building(r) BY <1>1 DEF Spare, Building
<1>11. DirInv'
  <2>1. \A e \in Pages : e \in DOMAIN space <=> \E r \in Procs : proc[r].pgdir = e \/ Building(r) = e BY <1>2 DEF DirInv
  <2>2. proc'[q].pgdir = NoPage /\ \A r \in Procs \ {q} : proc'[r].pgdir = proc[r].pgdir BY <1>6, <1>7
  <2>3. ASSUME NEW e \in Pages
        PROVE  e \in DOMAIN space' <=> \E r \in Procs : proc'[r].pgdir = e \/ Building(r)' = e
    <3>1. e # NoPage BY NoPageIsNone
    <3>2. CASE e = d BY <1>4, <1>8, <1>10, <2>2, <3>1, <3>2
    <3>3. CASE e # d BY <1>0, <1>8, <1>10, <2>1, <2>2, <3>1, <3>3
    <3> QED BY <3>2, <3>3
  <2> QED BY <2>3 DEF DirInv
<1>12. ChildInv'
  <2>1. \A r \in Procs \ {q} : task[r].op = "fork" => task[r].child # q BY <1>1, <1>2 DEF ChildInv
  <2>2. task'[q].op # "fork" BY <1>1, <1>5
  <2>3. \A r \in Procs \ {q} : task'[r] = task[r] /\ proc'[r].state = proc[r].state BY <1>1, <1>7
  <2> QED BY <2>1, <2>2, <2>3, OtherChildren
<1>13. PageInv'
  <2>1. "pgdir" \in SlotKinds /\ "stack" \in SlotKinds /\ Slots \in Holdings /\ Slots["pgdir"][q] = d
        /\ Slots["stack"][q] = k
    BY <1>0, <1>2, SlotTypes, SlotIs DEF SlotKinds
  <2>2. ASSUME NEW e \in SlotKinds, NEW r \in Procs, e # "pgdir" \/ r # q, e # "stack" \/ r # q
        PROVE  Slot(e, r)' = Slot(e, r)
    <3>2. CASE e = "stack" BY <1>7, <2>2, <3>2, SlotIs
    <3>3. CASE e = "mem" BY <1>10, <3>3, SlotIs
    <3>4. CASE e = "pgdir" BY <1>7, <2>2, <3>4, SlotIs
    <3>5. CASE e = "newdir" BY <1>10, <3>5, SlotIs
    <3> QED BY <3>2, <3>3, <3>4, <3>5 DEF SlotKinds
  <2>3. Slot("pgdir", q)' = NoPage /\ Slot("stack", q)' = NoPage BY <1>6, <1>7, SlotIs
  <2>4. "pgdir" # "stack" OBVIOUS
  <2>5. Slots' = Hold(Hold(Slots, "pgdir", q, NoPage), "stack", q, NoPage)
    BY <1>2, <2>1, <2>2, <2>3, <2>4, TwoSlots
  <2>6. PICK h : h = Hold(Slots, "pgdir", q, NoPage) OBVIOUS
  <2>7. h \in Holdings /\ h["stack"][q] = k BY <1>2, <2>1, <2>4, <2>6, HoldIs
  <2>8. PICK F : F = freelist \cup PagesOf(d) OBVIOUS
  <2>9. Exact(F, h, Tabs', Maps') BY <1>1, <1>2, <1>4, <2>1, <2>6, <2>8, FreeSpace DEF PageInv, Hold
  <2>10. PICK tb, mp : tb = Tabs' /\ mp = Maps' OBVIOUS
  <2>11. Exact(F, h, tb, mp) BY <2>9, <2>10
  <2>12. Exact(F \cup {k}, Hold(h, "stack", q, NoPage), tb, mp) BY <1>4, <2>1, <2>7, <2>11, TakeSlot DEF Hold
  <2>13. freelist' = F \cup {k} BY <1>1, <2>8
  <2> QED BY <2>5, <2>6, <2>10, <2>12, <2>13 DEF PageInv
<1>14. Own(q)'
  <2>1. q \notin emptied' BY <1>1
  <2>2. ProcInv(q)' BY <1>1, <1>5, <1>6, <1>7, <2>1 DEF ProcInv
  <2>3. ImageInv(q)' BY <1>6, <1>7 DEF ImageInv
  <2> QED BY <1>1, <1>5, <2>2, <2>3 DEF Own
<1>15. Aside({q}, {d}) BY <1>1, <1>4, <1>7, <1>8 DEF Aside
<1>16. \A e \in DOMAIN space' : e \in DOMAIN space \ {d} \/ Tabled(space'[e]) BY <1>8
<1>17. panic' => emptied' # {} BY <1>1
<1>18. \A r \in Procs : r \in {q} => Own(r)' BY <1>14
<1> QED BY <1>9, <1>11, <1>12, <1>13, <1>15, <1>16, <1>17, <1>18, Assemble

-----------------------------------------------------------------------------
(* copyuvm().                                                              *)

(* What it relies on. *)
LEMMA CopyFacts ==
  ASSUME VmInv, NEW p \in Procs, Copying(p), NEW t, t = task[p], NEW d, d = t.dir, NEW m, m = space[proc[p].pgdir].map
  PROVE  /\ t \in ForkTasks /\ t.op = "fork" /\ t.stage = "load" /\ ForkInv(p) /\ Own(p) /\ proc[p].state = "LIVE"
         /\ t.a \in Nat /\ t.a < proc[p].sz /\ t.a < KERNBASE /\ proc[p].sz \in Nat /\ t.mem \in MaybePage
         /\ d # NoPage /\ d \in Pages /\ d \in DOMAIN space /\ Tabled(space[d])
         /\ DOMAIN space[d].map = Below(t.a) /\ t.a % PGSIZE = 0
         /\ (t.mem # NoPage => NoTable(t))
         /\ Spare(p) = t.mem /\ Building(p) = d
         /\ \A q \in Procs : proc[q].pgdir # d /\ (q # p => Building(q) # d)
         /\ DOMAIN m = (IF p \in emptied THEN {} ELSE Below(proc[p].sz))
         /\ \A v \in DOMAIN m : m[v] \in Entries
<1>1. t.op = "fork" /\ t.stage = "load" /\ t.a < proc[p].sz BY DEF Copying
<1>2. VmTypeOK /\ PageInv /\ DirInv BY DEF VmInv
<1>3. /\ t \in ForkTasks /\ ForkInv(p) /\ proc[p].state = "LIVE" /\ proc[p].sz \in Nat /\ proc[p].sz < KERNBASE
      /\ Own(p) /\ Spare(p) = t.mem /\ Building(p) = d
      /\ proc[p].pgdir # NoPage /\ proc[p].pgdir \in DOMAIN space
  BY <1>1, Child
<1>4. t.a \in Nat /\ t.mem \in MaybePage BY <1>3 DEF ForkTasks
<1>5. /\ d # NoPage /\ DOMAIN space[d].map = Below(t.a) /\ t.a % PGSIZE = 0 /\ (t.mem # NoPage => NoTable(t))
  BY <1>1, <1>3 DEF ForkInv
<1>6. d \in DOMAIN space /\ d # proc[p].pgdir /\ \A q \in Procs \ {p} : proc[q].pgdir # d /\ Building(q) # d
  BY <1>2, <1>3, <1>5, OwnDirs
<1>7. d \in Pages /\ Tabled(space[d]) BY <1>2, <1>6 DEF VmTypeOK, VmInv
<1>8. DOMAIN m = (IF p \in emptied THEN {} ELSE Below(proc[p].sz)) BY <1>1, <1>3 DEF Own, ImageInv
<1>9. \A v \in DOMAIN m : m[v] \in Entries BY <1>2, <1>3, SpaceFields
<1>10. t.a < KERNBASE BY <1>1, <1>3, <1>4, Constants
<1> QED BY <1>1, <1>3, <1>4, <1>5, <1>6, <1>7, <1>8, <1>9, <1>10

(* It panics only after sbrk(-sz). *)
LEMMA CopyPanicsKeeps ==
  ASSUME VmInv, NEW p \in Procs, CopyPanics(p)
  PROVE  VmInv'
<1>0. PICK t, d, m : t = task[p] /\ d = t.dir /\ m = space[proc[p].pgdir].map OBVIOUS
<1>1. Copying(p) /\ Vpn(t.a) \notin DOMAIN m /\ panic' = TRUE /\ UNCHANGED <<freelist, space, proc, cr3, task, emptied>>
  BY <1>0 DEF CopyPanics, Present
<1>2. /\ t.a \in Nat /\ t.a < proc[p].sz /\ t.a < KERNBASE /\ t.a % PGSIZE = 0
      /\ DOMAIN m = (IF p \in emptied THEN {} ELSE Below(proc[p].sz))
  BY <1>0, <1>1, CopyFacts
<1>3. p \in emptied
  <2>1. PICK a \in Nat : a = t.a BY <1>2
  <2>2. Vpn(a) \in 0 .. Vpn(KERNBASE) /\ Vpn(a) * PGSIZE = a BY <1>2, <2>1, NextPage
  <2>3. Vpn(a) \in Below(proc[p].sz) BY <1>2, <2>1, <2>2 DEF Below
  <2> QED BY <1>1, <1>2, <2>1, <2>3
<1>4. VmTypeOK' BY <1>1 DEF VmInv, VmTypeOK
<1>5. PageInv'
  <2>1. VmTypeOK /\ PageInv BY DEF VmInv
  <2>2. \A q \in Procs : Spare(q)' = Spare(q) /\ Building(q)' = Building(q) BY <1>1 DEF Spare, Building
  <2>3. Slots' = Slots BY <1>1, <2>1, <2>2, SlotsSame
  <2>4. Tabs' = Tabs /\ Maps' = Maps BY <1>1 DEF Tabs, Maps
  <2> QED BY <1>1, <2>1, <2>3, <2>4 DEF PageInv
<1>6. DirInv' /\ ChildInv' BY <1>1 DEF VmInv, DirInv, ChildInv, Building
<1>7. Aside({}, {}) BY <1>1 DEF Aside
<1>8. emptied' # {} BY <1>1, <1>3
<1> QED BY <1>1, <1>4, <1>5, <1>6, <1>7, <1>8, Assemble

(* The invariant after a turn of its loop. *)
LEMMA CopyTurn ==
  ASSUME VmInv, NEW p \in Procs, Copying(p), NEW t, t = task[p], NEW d, d = t.dir, NEW b \in Nat, NEW g \in MaybePage,
         NEW u, u = Turn(t, b, g), Goto(p, u), UNCHANGED <<proc, cr3, emptied, panic>>,
         freelist' \subseteq Pages, SpaceOK', DOMAIN space' = DOMAIN space,
         \A e \in DOMAIN space \ {d} : space'[e] = space[e],
         b % PGSIZE = 0, p \notin emptied \/ b = 0, b < proc[p].sz + PGSIZE, DOMAIN space'[d].map = Below(b),
         g # NoPage => b < proc[p].sz /\ NoTable(u)', Tabled(space'[d])
  PROVE  /\ VmTypeOK' /\ (\A q \in Procs : Building(q)' = Building(q))
         /\ (\A q \in Procs \ {p} : Spare(q)' = Spare(q)) /\ Spare(p)' = g
         /\ (PageInv' => VmInv')
<1>1. /\ t \in ForkTasks /\ t.op = "fork" /\ t.stage = "load" /\ Building(p) = d /\ d # NoPage
      /\ \A q \in Procs : proc[q].pgdir # d /\ (q # p => Building(q) # d)
  BY CopyFacts
<1>2. VmTypeOK /\ DirInv BY DEF VmInv
<1>3. /\ u \in Calls /\ u.op = "fork" /\ u.stage = "load" /\ u.child = t.child /\ u.dir = d /\ u.a = b /\ u.mem = g
  BY <1>1 DEF ForkTasks, Turn, Calls
<1>4. /\ task'[p] = u /\ \A q \in Procs \ {p} : Spare(q)' = Spare(q) /\ Building(q)' = Building(q)
      /\ Spare(p)' = (IF u.op # "none" THEN u.mem ELSE NoPage)
      /\ Building(p)' = (IF u.op \in {"fork", "exec"} THEN u.dir ELSE NoPage)
  BY <1>2, <1>3, Moves
<1>5. Spare(p)' = g /\ Building(p)' = d BY <1>3, <1>4
<1>6. ForkInv(p)' BY <1>1, <1>3, <1>4 DEF ForkInv
<1>7. VmTypeOK' /\ (PageInv' /\ DirInv' => VmInv')
  <2>1. PICK Y : Y = {d} OBVIOUS
  <2>2. \A q \in Procs : proc[q].pgdir \notin Y /\ (q # p => Building(q) \notin Y) BY <1>1, <2>1
  <2>3. /\ \A e \in DOMAIN space \ Y : e \in DOMAIN space' /\ space'[e] = space[e]
        /\ \A e \in DOMAIN space' : e \in DOMAIN space \ Y \/ Tabled(space'[e])
    BY <2>1
  <2>4. u.op = task[p].op /\ u.op \in {"fork", "exec"} /\ (u.op = "fork" => u.child = task[p].child)
        /\ (u.op = "exec" => ExecInv(p)')
    BY <1>1, <1>3
  <2> QED BY <1>3, <1>6, <2>2, <2>3, <2>4, Build
<1>8. \A q \in Procs : Building(q)' = Building(q) BY <1>1, <1>4, <1>5
<1>9. DirInv'
  <2>1. \A q \in Procs : proc'[q].pgdir = proc[q].pgdir OBVIOUS
  <2> QED BY <1>2, <1>8, <2>1, DirsStay
<1> QED BY <1>4, <1>5, <1>7, <1>8, <1>9

(* kalloc() for a page of the copy, or for its page table. *)
LEMMA CopyPageKeeps ==
  ASSUME VmInv, NEW p \in Procs, CopyPage(p)
  PROVE  VmInv'
<1>0. PICK t, d, k, v, g, m, sz, b :
        /\ t = task[p] /\ d = t.dir /\ k = Kalloc /\ v = Vpn(t.a) /\ g = t.mem /\ m = space[proc[p].pgdir].map
        /\ sz = proc[p].sz /\ b = t.a + PGSIZE
  OBVIOUS
<1>1. /\ Copying(p) /\ v \in DOMAIN m /\ freelist # {} /\ freelist' = freelist \ {k}
      /\ UNCHANGED <<proc, cr3, emptied, panic>>
  BY <1>0 DEF CopyPage, Present
<1>2. /\ t \in ForkTasks /\ t.a \in Nat /\ t.a < sz /\ t.a < KERNBASE /\ sz \in Nat /\ g \in MaybePage
      /\ d # NoPage /\ d \in Pages /\ d \in DOMAIN space /\ Tabled(space[d])
      /\ DOMAIN space[d].map = Below(t.a) /\ t.a % PGSIZE = 0
      /\ (g # NoPage => NoTable(t)) /\ Spare(p) = g /\ Building(p) = d
      /\ DOMAIN m = (IF p \in emptied THEN {} ELSE Below(sz)) /\ m[v] \in Entries
  BY <1>0, <1>1, CopyFacts
<1>3. VmTypeOK /\ PageInv /\ freelist' \subseteq Pages /\ NoPage \in MaybePage BY <1>1 DEF VmInv, VmTypeOK, MaybePage
<1>4. k \in freelist /\ k \in Pages /\ k # NoPage /\ k \in MaybePage BY <1>0, <1>1, FreePage DEF MaybePage
<1>5. p \notin emptied BY <1>1, <1>2
<1>6. /\ v \in 0 .. Vpn(KERNBASE) /\ v \in Nat /\ v \notin DOMAIN space[d].map
      /\ PDX(v) \in 0 .. KTable /\ PDX(v) \in Nat
      /\ b % PGSIZE = 0 /\ b \in Nat /\ b < sz + PGSIZE
      /\ Below(b) = DOMAIN space[d].map \cup {v}
  <2>1. PICK a \in Nat : a = t.a BY <1>2
  <2>2. /\ Vpn(a) \in 0 .. Vpn(KERNBASE) /\ Vpn(a) \notin Below(a) /\ Below(a + PGSIZE) = Below(a) \cup {Vpn(a)}
        /\ PDX(Vpn(a)) \in 0 .. KTable /\ (a + PGSIZE) % PGSIZE = 0
    BY <1>2, <2>1, NextPage
  <2>3. PDX(v) \in Nat BY <1>0, <2>1, <2>2
  <2>4. b = a + PGSIZE /\ v = Vpn(a) BY <1>0, <2>1
  <2>5. b \in Nat /\ b < sz + PGSIZE BY <1>2, <2>1, <2>4, Constants
  <2>6. v \in Nat BY <2>2, <2>4
  <2> QED BY <1>2, <2>1, <2>2, <2>3, <2>4, <2>5, <2>6
<1>7. Slots \in Holdings /\ DOMAIN Maps = DOMAIN space /\ DOMAIN Maps[d] = DOMAIN space[d].map
      /\ DOMAIN Tabs = DOMAIN space /\ Tabs[d] = space[d].tab /\ "mem" \in SlotKinds /\ Slots["mem"][p] = g
  BY <1>2, <1>3, SlotTypes, SlotIs, TabsAre DEF SlotKinds
<1>8. space[d].map \in MapSet /\ space[d].tab \in TabSet BY <1>2, <1>3, SpaceFields DEF MapSet, TabSet
<1>9. CASE g = NoPage /\ PDX(v) \notin DOMAIN space[d].tab
  <2>1. Goto(p, [t EXCEPT !.mem = k]) /\ UNCHANGED space BY <1>0, <1>9 DEF CopyPage
  <2>2. PICK c, u : c = t.a /\ u = Turn(t, c, k) OBVIOUS
  <2>3. u = [t EXCEPT !.mem = k] /\ u.a = t.a /\ u.dir = d BY <1>0, <1>2, <2>2 DEF Turn, ForkTasks
  <2>4. NoTable(u)' BY <1>0, <1>9, <2>1, <2>3 DEF NoTable
  <2>5. SpaceOK' BY <1>3, <2>1, SpaceSame
  <2>6. /\ c \in Nat /\ c < sz + PGSIZE /\ c % PGSIZE = 0 /\ c < sz
        /\ DOMAIN space' = DOMAIN space /\ DOMAIN space'[d].map = Below(c) /\ Tabled(space'[d])
        /\ \A e \in DOMAIN space \ {d} : space'[e] = space[e]
        /\ Goto(p, u)
    BY <1>2, <2>1, <2>2, <2>3, Constants
  <2>7. /\ VmTypeOK' /\ (\A q \in Procs : Building(q)' = Building(q))
        /\ (\A q \in Procs \ {p} : Spare(q)' = Spare(q)) /\ Spare(p)' = k
        /\ (PageInv' => VmInv')
    BY <1>0, <1>1, <1>3, <1>4, <1>5, <2>2, <2>4, <2>5, <2>6, CopyTurn
  <2>8. Slots' = [Slots EXCEPT !["mem"][p] = k] BY <1>1, <1>3, <2>7, SpareSet
  <2>9. Tabs' = Tabs /\ Maps' = Maps BY <2>1 DEF Tabs, Maps
  <2>10. Slots["mem"][p] = NoPage BY <1>7, <1>9
  <2>11. Exact(freelist \ {k}, [Slots EXCEPT !["mem"][p] = k], Tabs, Maps)
    BY <1>3, <1>4, <1>7, <2>10, GiveSlot DEF PageInv
  <2> QED BY <1>1, <2>7, <2>8, <2>9, <2>11 DEF PageInv
<1>10. CASE ~(g = NoPage /\ PDX(v) \notin DOMAIN space[d].tab)
  <2>1. PICK y, mp, tb, s : /\ y = [m[v] EXCEPT !.page = IF g = NoPage THEN k ELSE g]
                            /\ mp = Put(space[d].map, v, y)
                            /\ tb = (IF g = NoPage THEN space[d].tab ELSE Put(space[d].tab, PDX(v), k))
                            /\ s = [map |-> mp, tab |-> tb]
    OBVIOUS
  <2>2. y \in Entries /\ y.page = (IF g = NoPage THEN k ELSE g) BY <1>2, <1>4, <2>1 DEF Entries, MaybePage
  <2>3. mp \in MapSet /\ DOMAIN mp = DOMAIN space[d].map \cup {v} BY <1>6, <1>8, <2>1, <2>2, MapPut
  <2>4. tb \in TabSet /\ DOMAIN tb = DOMAIN space[d].tab \cup {PDX(v)}
    <3>1. CASE g = NoPage BY <1>8, <1>10, <2>1, <3>1
    <3>2. CASE g # NoPage BY <1>4, <1>6, <1>8, <2>1, <3>2, TabPut
    <3> QED BY <3>1, <3>2
  <2>5. space' = [space EXCEPT ![d] = s] /\ Goto(p, Turn(t, b, NoPage)) BY <1>0, <1>10, <2>1 DEF CopyPage, Turn
  <2>6. s = [tab |-> tb, map |-> mp] BY <2>1
  <2>7. /\ SpaceOK' /\ DOMAIN space' = DOMAIN space /\ space'[d].tab = tb /\ space'[d].map = mp
        /\ \A e \in DOMAIN space \ {d} : space'[e] = space[e]
    BY <1>2, <1>3, <2>3, <2>4, <2>5, <2>6, SpaceEdit
  <2>8. PICK u : u = Turn(t, b, NoPage) OBVIOUS
  <2>9. Tabled(space'[d]) BY <1>2, <2>3, <2>4, <2>7 DEF Tabled
  <2>10. DOMAIN space'[d].map = Below(b) BY <1>6, <2>3, <2>7
  <2>11. /\ VmTypeOK' /\ (\A q \in Procs : Building(q)' = Building(q))
         /\ (\A q \in Procs \ {p} : Spare(q)' = Spare(q)) /\ Spare(p)' = NoPage
         /\ (PageInv' => VmInv')
    BY <1>0, <1>1, <1>3, <1>5, <1>6, <2>5, <2>7, <2>8, <2>9, <2>10, CopyTurn
  <2>12. Adds(Maps, Maps', d, v, y.page) BY <1>2, <1>6, <2>1, <2>7, MapsAdd
  <2>13. CASE g = NoPage
    <3>1. Slots' = Slots BY <1>1, <1>2, <1>3, <2>11, <2>13, SlotsSame
    <3>2. Tabs' = Tabs BY <2>1, <2>7, <2>13, TabsSame
    <3>3. Adds(Maps, Maps', d, v, k) BY <2>2, <2>12, <2>13
    <3>4. Exact(freelist \ {k}, Slots, Tabs, Maps')
      BY <1>2, <1>3, <1>4, <1>6, <1>7, <3>3, GiveMapped DEF PageInv
    <3> QED BY <1>1, <2>11, <3>1, <3>2, <3>4 DEF PageInv
  <2>14. CASE g # NoPage
    <3>1. g \in Pages BY <1>2, <2>14 DEF MaybePage
    <3>2. PDX(v) \notin DOMAIN space[d].tab BY <1>0, <1>2, <2>14 DEF NoTable
    <3>3. PICK h : h = Hold(Slots, "mem", p, NoPage) OBVIOUS
    <3>4. Slots' = h /\ h \in Holdings
      <4>1. Slots' = h BY <1>1, <1>3, <2>11, <3>3, SpareSet DEF Hold
      <4>2. h \in Holdings BY <1>3, <1>7, <3>3, HoldIs
      <4> QED BY <4>1, <4>2
    <3>5. Exact(freelist \cup {g}, h, Tabs, Maps) /\ g \notin freelist
      BY <1>3, <1>7, <3>1, <3>3, TakeSlot, ZenonT(60) DEF PageInv, Hold
    <3>6. Adds(Maps, Maps', d, v, g) BY <2>2, <2>12, <2>14
    <3>7. PICK i : i = PDX(v) OBVIOUS
    <3>8. space'[d].tab = Put(space[d].tab, i, k) BY <2>1, <2>7, <2>14, <3>7
    <3>9. Adds(Tabs, Tabs', d, i, k) BY <1>2, <2>7, <3>2, <3>7, <3>8, TabsAdd
    <3>10. PICK F : F = freelist \cup {g} OBVIOUS
    <3>11. g \in F /\ F \ {g} = freelist BY <3>5, <3>10
    <3>12. Exact(freelist, h, Tabs, Maps')
      BY <1>2, <1>6, <1>7, <3>1, <3>4, <3>5, <3>6, <3>10, <3>11, GiveMapped
    <3>13. i \in Nat /\ i \notin DOMAIN Tabs[d] BY <1>6, <1>7, <3>2, <3>7
    <3>14. Exact(freelist \ {k}, h, Tabs', Maps') BY <1>2, <1>4, <1>7, <3>4, <3>9, <3>12, <3>13, GiveTable
    <3> QED BY <1>1, <2>11, <3>4, <3>14 DEF PageInv
  <2> QED BY <2>13, <2>14
<1> QED BY <1>9, <1>10

(* kalloc() fails: the copy is given up. *)
LEMMA CopyFailsKeeps ==
  ASSUME VmInv, NEW p \in Procs, CopyFails(p)
  PROVE  VmInv'
<1>0. PICK t, d, g, u : /\ t = task[p] /\ d = t.dir /\ g = t.mem
                        /\ u = [t EXCEPT !.stage = "failed", !.dir = NoPage, !.mem = NoPage]
  OBVIOUS
<1>1. /\ Copying(p) /\ space' = Drop(space, {d}) /\ freelist' = freelist \cup PagesOf(d) \cup ({g} \ {NoPage})
      /\ Goto(p, u) /\ UNCHANGED <<proc, cr3, emptied, panic>>
  BY <1>0 DEF CopyFails, freevm
<1>2. /\ t \in ForkTasks /\ t.op = "fork" /\ g \in MaybePage /\ d # NoPage /\ d \in Pages /\ d \in DOMAIN space
      /\ Spare(p) = g /\ Building(p) = d
      /\ \A q \in Procs : proc[q].pgdir # d /\ (q # p => Building(q) # d)
  BY <1>0, <1>1, CopyFacts
<1>3. VmTypeOK /\ PageInv /\ DirInv /\ NoPage \in MaybePage BY DEF VmInv, MaybePage
<1>4. /\ u \in Calls /\ u.op = "fork" /\ u.child = t.child /\ u.stage = "failed" /\ u.dir = NoPage /\ u.mem = NoPage
  BY <1>0, <1>2, <1>3 DEF ForkTasks, Calls
<1>5. /\ task'[p] = u /\ \A q \in Procs \ {p} : Spare(q)' = Spare(q) /\ Building(q)' = Building(q)
      /\ Spare(p)' = NoPage /\ Building(p)' = NoPage
  <2>1. /\ task'[p] = u /\ \A q \in Procs \ {p} : Spare(q)' = Spare(q) /\ Building(q)' = Building(q)
        /\ Spare(p)' = (IF u.op # "none" THEN u.mem ELSE NoPage)
        /\ Building(p)' = (IF u.op \in {"fork", "exec"} THEN u.dir ELSE NoPage)
    BY <1>1, <1>3, <1>4, Moves
  <2> QED BY <1>4, <2>1
<1>6. SpaceOK' /\ DOMAIN space' = DOMAIN space \ {d} /\ \A e \in DOMAIN space' : space'[e] = space[e]
  BY <1>1, <1>3, SpaceDrop
<1>7. freelist' \subseteq Pages
  <2>1. PagesOf(d) \subseteq Pages /\ freelist \subseteq Pages BY <1>2, <1>3, PagesOfType DEF VmTypeOK
  <2> QED BY <1>1, <1>2, <2>1 DEF MaybePage
<1>8. VmTypeOK' /\ (PageInv' /\ DirInv' => VmInv')
  <2>1. PICK Y : Y = {d} OBVIOUS
  <2>2. \A q \in Procs : proc[q].pgdir \notin Y /\ (q # p => Building(q) \notin Y) BY <1>2, <2>1
  <2>3. /\ \A e \in DOMAIN space \ Y : e \in DOMAIN space' /\ space'[e] = space[e]
        /\ \A e \in DOMAIN space' : e \in DOMAIN space \ Y \/ Tabled(space'[e])
    BY <1>6, <2>1
  <2>4. ForkInv(p)' BY <1>4, <1>5 DEF ForkInv
  <2>5. u.op = task[p].op /\ u.op \in {"fork", "exec"} /\ (u.op = "fork" => u.child = task[p].child)
        /\ (u.op = "exec" => ExecInv(p)')
    BY <1>0, <1>2, <1>4
  <2> QED BY <1>1, <1>4, <1>6, <1>7, <2>2, <2>3, <2>4, <2>5, Build
<1>9. DirInv' BY <1>1, <1>2, <1>3, <1>5, <1>6, DirsDrop
<1>10. PageInv'
  <2>1. Slots \in Holdings /\ Slots["newdir"][p] = d /\ Slots["mem"][p] = g
        /\ "newdir" \in SlotKinds /\ "mem" \in SlotKinds
    BY <1>2, <1>3, SlotTypes, SlotIs DEF SlotKinds
  <2>2. Slots' = Hold(Hold(Slots, "mem", p, NoPage), "newdir", p, NoPage) BY <1>1, <1>3, <1>5, <1>8, BuildSlots
  <2>3. PICK h : h = Hold(Slots, "mem", p, NoPage) OBVIOUS
  <2>4. h \in Holdings /\ h["newdir"][p] = d BY <1>3, <2>1, <2>3, HoldIs
  <2>5. PICK F : F = freelist \cup ({g} \ {NoPage}) OBVIOUS
  <2>6. Exact(F, h, Tabs, Maps)
    <3>1. CASE g = NoPage
      <4>1. h = Slots /\ F = freelist BY <2>1, <2>3, <2>5, <3>1, HoldSame
      <4> QED BY <1>3, <4>1 DEF PageInv
    <3>2. CASE g # NoPage
      <4>1. g \in Pages /\ F = freelist \cup {g} BY <1>2, <2>5, <3>2 DEF MaybePage
      <4>2. Exact(freelist \cup {g}, h, Tabs, Maps) BY <1>3, <2>1, <2>3, <4>1, TakeSlot DEF PageInv, Hold
      <4> QED BY <4>1, <4>2
    <3> QED BY <3>1, <3>2
  <2>7. Exact(F \cup PagesOf(d), Hold(h, "newdir", p, NoPage), Tabs', Maps')
    BY <1>1, <1>2, <1>3, <2>1, <2>4, <2>6, FreeSpace DEF Hold
  <2>8. freelist' = F \cup PagesOf(d) BY <1>1, <2>5
  <2> QED BY <2>2, <2>3, <2>7, <2>8 DEF PageInv
<1> QED BY <1>8, <1>9, <1>10

-----------------------------------------------------------------------------
(* exec().                                                                 *)

(* What exec() finds. *)
LEMMA ProgramTypes == \A g \in Programs : g.segs \in Segments /\ g.args \in Nat
<1>1. Programs \subseteq [segs : Seq([vaddr : Nat, filesz : Nat, memsz : Nat, complete : BOOLEAN]), args : Nat]
  BY VmAssumption, Zenon
<1> QED BY <1>1 DEF Segments

(* What it relies on. *)
LEMMA ExecFacts ==
  ASSUME VmInv, NEW p \in Procs, task[p].op = "exec", NEW t, t = task[p]
  PROVE  /\ t \in ExecTasks /\ ExecInv(p) /\ Own(p) /\ proc[p].state = "LIVE" /\ p \notin emptied
         /\ Spare(p) = t.mem /\ Building(p) = t.dir
         /\ t.segs \in Segments /\ t.args \in Nat /\ t.sz \in Nat /\ t.old \in Nat /\ t.new \in Nat /\ t.a \in Nat
         /\ t.mem \in MaybePage /\ t.dir \in MaybePage
         /\ proc[p].pgdir # NoPage /\ proc[p].pgdir \in DOMAIN space
         /\ DOMAIN space[proc[p].pgdir].map = Below(proc[p].sz)
         /\ t.dir # NoPage => t.dir \in DOMAIN space /\ t.dir \in Pages /\ Tabled(space[t.dir])
                              /\ (\A q \in Procs : proc[q].pgdir # t.dir /\ (q # p => Building(q) # t.dir))
         /\ \A q \in Procs \ {p} : proc[q].pgdir # proc[p].pgdir /\ Building(q) # proc[p].pgdir
<1>1. VmTypeOK /\ PageInv /\ DirInv /\ Own(p) BY DEF VmInv
<1>2. t \in ExecTasks /\ ExecInv(p) BY <1>1, TaskKinds DEF Own
<1>3. proc[p].state = "LIVE" /\ p \notin emptied /\ proc[p].pgdir # NoPage BY <1>1 DEF Own, ProcInv
<1>4. Spare(p) = t.mem /\ Building(p) = t.dir BY DEF Spare, Building
<1>5. /\ t.segs \in Segments /\ t.args \in Nat /\ t.sz \in Nat /\ t.old \in Nat /\ t.new \in Nat /\ t.a \in Nat
      /\ t.mem \in MaybePage /\ t.dir \in MaybePage
  BY <1>2 DEF ExecTasks
<1>6. /\ proc[p].pgdir \in DOMAIN space
      /\ \A q \in Procs \ {p} : proc[q].pgdir # proc[p].pgdir /\ Building(q) # proc[p].pgdir
  BY <1>1, <1>3, OwnDirs
<1>7. DOMAIN space[proc[p].pgdir].map = Below(proc[p].sz) BY <1>1, <1>3 DEF Own, ImageInv
<1>8. ASSUME t.dir # NoPage
      PROVE  t.dir \in DOMAIN space /\ t.dir \in Pages /\ Tabled(space[t.dir])
             /\ (\A q \in Procs : proc[q].pgdir # t.dir /\ (q # p => Building(q) # t.dir))
  <2>1. t.dir \in DOMAIN space /\ \A q \in Procs \ {p} : proc[q].pgdir # t.dir /\ Building(q) # t.dir
    BY <1>1, <1>4, <1>8, OwnDirs
  <2>2. proc[p].pgdir # t.dir BY <1>1, <1>3, <1>4, OwnDirs
  <2>3. t.dir \in Pages /\ Tabled(space[t.dir]) BY <1>1, <2>1 DEF VmTypeOK, VmInv
  <2> QED BY <2>1, <2>2, <2>3
<1> QED BY <1>1, <1>2, <1>3, <1>4, <1>5, <1>6, <1>7, <1>8

(* The invariant after a step of exec() that moves no page. *)
LEMMA ExecMoves ==
  ASSUME VmInv, NEW p \in Procs, NEW t \in ExecTasks, Goto(p, t), UNCHANGED <<freelist, space, proc, cr3, emptied, panic>>,
         proc[p].state = "LIVE", p \notin emptied, task[p].op \in {"none", "exec"},
         t.mem = Spare(p), t.dir = Building(p), task'[p] = t => ExecInv(p)'
  PROVE  VmInv'
<1>1. VmTypeOK /\ Own(p) /\ proc \in [Procs -> ProcSet] BY DEF VmInv, VmTypeOK, ProcSet
<1>2. t \in Calls /\ t.op = "exec" BY DEF Calls, ExecTasks
<1>3. /\ task'[p] = t
      /\ Spare(p)' = (IF t.op # "none" THEN t.mem ELSE NoPage)
      /\ Building(p)' = (IF t.op \in {"fork", "exec"} THEN t.dir ELSE NoPage)
  BY <1>1, <1>2, Moves
<1>4. Spare(p)' = Spare(p) /\ Building(p)' = Building(p) BY <1>2, <1>3
<1>5. Own(p)'
  <2>1. ProcInv(p)' BY <1>1, <1>2, <1>3 DEF Own, ProcInv
  <2>2. ImageInv(p)' BY <1>1, <1>2, <1>3 DEF Own, ImageInv
  <2> QED BY <1>2, <1>3, <2>1, <2>2 DEF Own
<1>6. t.op # "fork" BY <1>2
<1> QED BY <1>1, <1>2, <1>4, <1>5, <1>6, Quiet

(* exec() begins. *)
LEMMA execKeeps ==
  ASSUME VmInv, NEW p \in Procs, NEW g \in Programs, exec(p, g)
  PROVE  VmInv'
<1>0. PICK t : t = [op |-> "exec", stage |-> "setupkvm", segs |-> g.segs, args |-> g.args, sz |-> 0,
                    dir |-> NoPage, old |-> 0, new |-> 0, a |-> 0, mem |-> NoPage]
  OBVIOUS
<1>1. Running(p) /\ p \notin emptied /\ Goto(p, t) /\ UNCHANGED <<freelist, space, proc, cr3, emptied, panic>>
  BY <1>0 DEF exec, Resizes
<1>2. task[p].op = "none" /\ Spare(p) = NoPage /\ Building(p) = NoPage /\ proc[p].state = "LIVE" BY <1>1, Idle
<1>3. g.segs \in Segments /\ g.args \in Nat BY ProgramTypes
<1>4. t \in ExecTasks BY <1>0, <1>3 DEF ExecTasks, MaybePage
<1>5. t.stage = "setupkvm" /\ t.sz = 0 /\ t.dir = NoPage /\ t.mem = NoPage BY <1>0
<1>6. task'[p] = t => ExecInv(p)' BY <1>5 DEF ExecInv
<1> QED BY <1>1, <1>2, <1>4, <1>5, <1>6, ExecMoves

(* The fields when allocuvm() begins, *)
LEMMA AllocFields ==
  ASSUME NEW t \in ExecTasks, NEW old \in Nat, NEW new \in Nat
  PROVE  /\ Alloc(t, old, new) \in ExecTasks /\ Alloc(t, old, new).stage = "alloc" /\ Alloc(t, old, new).old = old
         /\ Alloc(t, old, new).new = new /\ Alloc(t, old, new).a = PGROUNDUP(old) /\ Alloc(t, old, new).dir = t.dir
         /\ Alloc(t, old, new).mem = t.mem /\ Alloc(t, old, new).segs = t.segs /\ Alloc(t, old, new).sz = t.sz
<1>1. PICK r \in Nat : r = PGROUNDUP(old) BY RoundUp
<1> QED BY <1>1 DEF ExecTasks, Alloc

(* The next segment. *)
LEMMA ExecSegmentKeeps ==
  ASSUME VmInv, NEW p \in Procs, ExecSegment(p)
  PROVE  VmInv'
<1>0. PICK t, g, e, u, w : /\ t = task[p] /\ g = Head(t.segs) /\ e = SegEnd(g) /\ u = Alloc(t, t.sz, e)
                           /\ w = [t EXCEPT !.stage = "failed"]
  OBVIOUS
<1>1. /\ t.op = "exec" /\ t.stage = "load" /\ t.segs # <<>> /\ (Goto(p, u) \/ Goto(p, w))
      /\ UNCHANGED <<freelist, space, proc, cr3, emptied, panic>>
  BY <1>0 DEF ExecSegment, Loading, Seg
<1>2. /\ t \in ExecTasks /\ ExecInv(p) /\ proc[p].state = "LIVE" /\ p \notin emptied /\ Spare(p) = t.mem /\ Building(p) = t.dir
      /\ t.segs \in Segments /\ t.sz \in Nat
  BY <1>0, <1>1, ExecFacts
<1>3. /\ t.dir # NoPage /\ t.mem = NoPage /\ t.sz <= KERNBASE /\ DOMAIN space[t.dir].map = Below(t.sz)
  BY <1>0, <1>1, <1>2 DEF ExecInv
<1>4. e \in Nat
  <2>1. g \in [vaddr : Nat, filesz : Nat, memsz : Nat, complete : BOOLEAN]
    <3>1. PICK T : T = [vaddr : Nat, filesz : Nat, memsz : Nat, complete : BOOLEAN] OBVIOUS
    <3>2. PICK q : q = t.segs OBVIOUS
    <3>3. q \in Seq(T) /\ q # <<>> BY <1>1, <1>2, <3>1, <3>2 DEF Segments
    <3>4. Head(q) \in T BY <3>3
    <3> QED BY <1>0, <3>1, <3>2, <3>4
  <2>2. g.vaddr + g.memsz \in Int BY <2>1
  <2> QED BY <1>0, <2>2, Wraps DEF SegEnd
<1>5. /\ u \in ExecTasks /\ u.stage = "alloc" /\ u.old = t.sz /\ u.new = e /\ u.a = PGROUNDUP(t.sz) /\ u.dir = t.dir
      /\ u.mem = NoPage /\ u.segs = t.segs /\ u.sz = t.sz
      /\ w \in ExecTasks /\ w.stage = "failed" /\ w.dir = t.dir /\ w.mem = NoPage
  <2>1. w \in ExecTasks /\ w.stage = "failed" /\ w.dir = t.dir /\ w.mem = NoPage BY <1>0, <1>2, <1>3 DEF ExecTasks
  <2>2. PICK z \in Nat : z = t.sz BY <1>2
  <2>3. u = Alloc(t, z, e) /\ t \in ExecTasks /\ z \in Nat /\ e \in Nat BY <1>0, <1>2, <1>4, <2>2
  <2>4. /\ u \in ExecTasks /\ u.stage = "alloc" /\ u.old = z /\ u.new = e /\ u.a = PGROUNDUP(z) /\ u.dir = t.dir
        /\ u.mem = t.mem /\ u.segs = t.segs /\ u.sz = t.sz
    BY <2>3, AllocFields
  <2> QED BY <1>3, <2>1, <2>2, <2>4
<1>6. task[p].op \in {"none", "exec"} BY <1>0, <1>1
<1>7. CASE Goto(p, u)
  <2>1. PICK o, d : o = t.sz /\ d = t.dir OBVIOUS
  <2>2. AllocInv(u)'
    <3>1. DOMAIN space'[d].map = Below(o) /\ o \in Nat /\ o <= KERNBASE BY <1>1, <1>2, <1>3, <2>1
    <3> QED BY <1>4, <1>5, <2>1, <3>1, AllocBegins
  <2>3. task'[p] = u => ExecInv(p)' BY <1>1, <1>3, <1>5, <2>2 DEF ExecInv
  <2> QED BY <1>1, <1>2, <1>3, <1>5, <1>6, <1>7, <2>3, ExecMoves
<1>8. CASE Goto(p, w)
  <2>1. task'[p] = w => ExecInv(p)' BY <1>5 DEF ExecInv
  <2> QED BY <1>1, <1>2, <1>3, <1>5, <1>6, <1>8, <2>1, ExecMoves
<1> QED BY <1>1, <1>7, <1>8

(* A segment is loaded, or cannot be. *)
LEMMA ExecLoadKeeps ==
  ASSUME VmInv, NEW p \in Procs, ExecLoad(p)
  PROVE  VmInv'
<1>0. PICK t, r, u, w : /\ t = task[p] /\ r = Result(t) /\ u = [t EXCEPT !.stage = "load", !.sz = r, !.segs = Tail(@)]
                        /\ w = [t EXCEPT !.stage = "failed"]
  OBVIOUS
<1>1. /\ Loop(p) /\ t.op = "exec" /\ AllDone(t) /\ t.segs # <<>> /\ (Goto(p, u) \/ Goto(p, w))
      /\ UNCHANGED <<freelist, space, proc, cr3, emptied, panic>>
  BY <1>0 DEF ExecLoad
<1>2. /\ t \in ExecTasks /\ ExecInv(p) /\ proc[p].state = "LIVE" /\ p \notin emptied /\ Spare(p) = t.mem /\ Building(p) = t.dir
      /\ t.segs \in Segments /\ t.sz \in Nat
  BY <1>0, <1>1, ExecFacts
<1>3. /\ t.mem = NoPage /\ r \in Nat /\ DOMAIN space[t.dir].map = Below(r)
      /\ r = t.old \/ (r = t.new /\ t.new < KERNBASE)
      /\ t.old <= KERNBASE
  BY <1>0, <1>1, LoopDone
<1>4. t.dir # NoPage /\ t.old <= KERNBASE BY <1>0, <1>1, LoopFacts DEF AllocInv
<1>5. r <= KERNBASE BY <1>3, <1>4, Constants
<1>6. Tail(t.segs) \in Segments BY <1>1, <1>2 DEF Segments
<1>7. u \in ExecTasks /\ u.stage = "load" /\ u.sz = r /\ u.dir = t.dir /\ u.mem = NoPage
  BY <1>0, <1>2, <1>3, <1>6 DEF ExecTasks
<1>8. w \in ExecTasks /\ w.stage = "failed" /\ w.dir = t.dir /\ w.mem = NoPage
  BY <1>0, <1>2, <1>3 DEF ExecTasks
<1>9. task[p].op \in {"none", "exec"} BY <1>0, <1>1
<1>10. CASE Goto(p, u)
  <2>1. task'[p] = u => ExecInv(p)' BY <1>1, <1>3, <1>4, <1>5, <1>7 DEF ExecInv
  <2> QED BY <1>1, <1>2, <1>3, <1>7, <1>9, <1>10, <2>1, ExecMoves
<1>11. CASE Goto(p, w)
  <2>1. task'[p] = w => ExecInv(p)' BY <1>8 DEF ExecInv
  <2> QED BY <1>1, <1>2, <1>3, <1>8, <1>9, <1>11, <2>1, ExecMoves
<1> QED BY <1>1, <1>10, <1>11

(* The two pages of the stack. *)
LEMMA ExecStackKeeps ==
  ASSUME VmInv, NEW p \in Procs, ExecStack(p)
  PROVE  VmInv'
<1>0. PICK t, b, n, s, u : /\ t = task[p] /\ b = PGROUNDUP(t.sz) /\ n = (b + 2 * PGSIZE) % WORD
                           /\ s = [t EXCEPT !.sz = b] /\ u = Alloc(s, b, n)
  OBVIOUS
<1>1. /\ t.op = "exec" /\ t.stage = "load" /\ t.segs = <<>> /\ Goto(p, u)
      /\ UNCHANGED <<freelist, space, proc, cr3, emptied, panic>>
  BY <1>0 DEF ExecStack, Loading
<1>2. /\ t \in ExecTasks /\ ExecInv(p) /\ proc[p].state = "LIVE" /\ p \notin emptied /\ Spare(p) = t.mem /\ Building(p) = t.dir
      /\ t.segs \in Segments /\ t.sz \in Nat
  BY <1>0, <1>1, ExecFacts
<1>3. /\ t.dir # NoPage /\ t.mem = NoPage /\ t.sz <= KERNBASE /\ DOMAIN space[t.dir].map = Below(t.sz)
  BY <1>0, <1>1, <1>2 DEF ExecInv
<1>4. b \in Nat /\ b % PGSIZE = 0 /\ t.sz <= b /\ b < t.sz + PGSIZE /\ b <= KERNBASE BY <1>0, <1>2, <1>3, RoundUp
<1>5. Below(b) = Below(t.sz) BY <1>2, <1>4, SamePages
<1>6. n = b + 2 * PGSIZE /\ n \in Nat
  <2>1. b + 2 * PGSIZE \in 0 .. WORD - 1 BY <1>4, Constants
  <2>2. PICK c \in 0 .. WORD - 1 : c = b + 2 * PGSIZE BY <2>1
  <2>3. c % WORD = c BY <2>2, Constants, DivUnique
  <2> QED BY <1>0, <1>4, <2>2, <2>3, Constants
<1>7. s \in ExecTasks /\ s.dir = t.dir /\ s.mem = NoPage /\ s.segs = t.segs BY <1>0, <1>2, <1>3, <1>4 DEF ExecTasks
<1>8. /\ u \in ExecTasks /\ u.stage = "alloc" /\ u.old = b /\ u.new = n /\ u.a = PGROUNDUP(b) /\ u.dir = t.dir
      /\ u.mem = NoPage
  <2>1. PICK x \in ExecTasks : x = s BY <1>7
  <2>2. x \in ExecTasks /\ u = Alloc(x, b, n) /\ x.dir = t.dir /\ x.mem = NoPage BY <1>0, <1>7, <2>1
  <2>3. b \in Nat /\ n \in Nat BY <1>4, <1>6
  <2> QED BY <2>2, <2>3, AllocFields
<1>9. AllocInv(u)'
  <2>1. PICK d : d = t.dir OBVIOUS
  <2>2. DOMAIN space'[d].map = Below(b) BY <1>1, <1>3, <1>5, <2>1
  <2> QED BY <1>4, <1>6, <1>8, <2>1, <2>2, AllocBegins
<1>10. task'[p] = u => ExecInv(p)' BY <1>3, <1>4, <1>6, <1>8, <1>9 DEF ExecInv
<1>11. task[p].op \in {"none", "exec"} BY <1>0, <1>1
<1> QED BY <1>1, <1>2, <1>3, <1>8, <1>10, <1>11, ExecMoves

(* An entry changes. *)
LEMMA MapEntry ==
  ASSUME NEW m \in MapSet, NEW v \in DOMAIN m, NEW y \in Entries, NEW w, w = [m EXCEPT ![v] = y]
  PROVE  w \in MapSet /\ DOMAIN w = DOMAIN m /\ w[v] = y /\ \A x \in DOMAIN m \ {v} : w[x] = m[x]
<1>1. PICK S : S = 0 .. Vpn(KERNBASE) OBVIOUS
<1>2. m \in Partial(S, Entries) /\ MapSet = Partial(S, Entries) BY <1>1 DEF MapSet
<1>3. DOMAIN m \subseteq S /\ m \in [DOMAIN m -> Entries] BY <1>2, PartialFun
<1>4. DOMAIN w = DOMAIN m /\ w \in [DOMAIN m -> Entries] BY <1>3
<1>5. w \in Partial(S, Entries) BY <1>3, <1>4, PartialFun
<1> QED BY <1>2, <1>4, <1>5

(* The guard page below the stack is mapped. *)
LEMMA GuardPage ==
  ASSUME NEW old \in Nat, old % PGSIZE = 0, NEW new \in Nat, new = old + 2 * PGSIZE, new < KERNBASE
  PROVE  Vpn(new) - 2 \in Below(new)
<1> USE Constants
<1>1. Vpn(old) \in 0 .. Vpn(KERNBASE) /\ Vpn(old) * PGSIZE = old
  <2>1. old < KERNBASE OBVIOUS
  <2> QED BY <2>1, NextPage
<1>2. PICK k \in Nat : k = Vpn(KERNBASE) BY KernelBase
<1>3. PICK j \in Nat : j = Vpn(old) /\ j * PGSIZE = old /\ j <= k BY <1>1, <1>2
<1>4. Vpn(new) = j + 2
  <2>1. PICK i \in Nat : i = j + 2 BY <1>3
  <2>2. new = i * PGSIZE + 0
    <3>1. i * PGSIZE = j * PGSIZE + 2 * PGSIZE BY <2>1
    <3> QED BY <1>3, <3>1
  <2>3. (i * PGSIZE + 0) \div PGSIZE = i BY DivUnique
  <2> QED BY <2>1, <2>2, <2>3 DEF Vpn
<1>5. Vpn(new) - 2 = j /\ j \in 0 .. Vpn(KERNBASE) BY <1>2, <1>3, <1>4
<1>6. j * PGSIZE < new BY <1>3
<1> QED BY <1>5, <1>6 DEF Below

(* The stack is there: its guard page is no longer the user's. *)
LEMMA ExecArgsKeeps ==
  ASSUME VmInv, NEW p \in Procs, ExecArgs(p)
  PROVE  VmInv'
<1>0. PICK t, d, v, y, w, s, u :
        /\ t = task[p] /\ d = t.dir /\ v = Vpn(t.new) - 2 /\ y = [space[d].map[v] EXCEPT !.user = FALSE]
        /\ w = [space[d].map EXCEPT ![v] = y] /\ s = (IF t.args > PGSIZE THEN "failed" ELSE "commit")
        /\ u = [t EXCEPT !.stage = s, !.sz = t.new]
  OBVIOUS
<1>1. /\ Loop(p) /\ t.op = "exec" /\ AllDone(t) /\ t.segs = <<>> /\ space' = [space EXCEPT ![d].map = w] /\ Goto(p, u)
      /\ UNCHANGED <<freelist, proc, cr3, emptied, panic>>
  BY <1>0 DEF ExecArgs
<1>2. /\ t \in ExecTasks /\ ExecInv(p) /\ Own(p) /\ proc[p].state = "LIVE" /\ Spare(p) = t.mem /\ Building(p) = d
      /\ t.new \in Nat /\ t.old \in Nat
      /\ d # NoPage => d \in DOMAIN space /\ d \in Pages /\ Tabled(space[d])
                       /\ (\A q \in Procs : proc[q].pgdir # d /\ (q # p => Building(q) # d))
  <2>1. task[p].op = "exec" /\ t = task[p] /\ d = t.dir BY <1>0, <1>1
  <2> QED BY <2>1, ExecFacts
<1>3. t.mem = NoPage /\ DOMAIN space[d].map = Below(Result(t)) BY <1>0, <1>1, LoopDone
<1>4. t.stage = "alloc" BY <1>0, <1>1 DEF Loop
<1>5. t.old % PGSIZE = 0 /\ t.new = t.old + 2 * PGSIZE /\ d # NoPage BY <1>0, <1>1, <1>2, <1>4 DEF ExecInv
<1>6. t.new < KERNBASE /\ Result(t) = t.new /\ t.new <= KERNBASE
  BY <1>1, <1>2, <1>5, Constants DEF AllDone, TooLarge, Result
<1>7. d \in DOMAIN space /\ d \in Pages /\ Tabled(space[d])
      /\ (\A q \in Procs : proc[q].pgdir # d /\ (q # p => Building(q) # d))
  BY <1>2, <1>5
<1>8. VmTypeOK /\ PageInv /\ DirInv /\ NoPage \in MaybePage BY DEF VmInv, MaybePage
<1>9. v \in DOMAIN space[d].map /\ DOMAIN space[d].map = Below(t.new)
  <2>1. PICK old \in Nat, new \in Nat : old = t.old /\ new = t.new BY <1>2
  <2>2. Vpn(new) - 2 \in Below(new) BY <1>5, <1>6, <2>1, GuardPage
  <2> QED BY <1>0, <1>3, <1>6, <2>1, <2>2
<1>10. y \in Entries /\ y.page = space[d].map[v].page
  <2>1. space[d].map[v] \in Entries BY <1>7, <1>8, <1>9, SpaceFields
  <2> QED BY <1>0, <2>1 DEF Entries
<1>11. w \in MapSet /\ DOMAIN w = DOMAIN space[d].map /\ w[v] = y
       /\ \A x \in DOMAIN space[d].map \ {v} : w[x] = space[d].map[x]
  <2>1. PICK m : m = space[d].map OBVIOUS
  <2>2. m \in MapSet BY <1>7, <1>8, <2>1, SpaceFields DEF MapSet
  <2>3. v \in DOMAIN m /\ w = [m EXCEPT ![v] = y] BY <1>0, <1>9, <2>1
  <2>4. w \in MapSet /\ DOMAIN w = DOMAIN m /\ w[v] = y /\ \A x \in DOMAIN m \ {v} : w[x] = m[x]
    BY <1>10, <2>2, <2>3, MapEntry
  <2> QED BY <2>1, <2>4
<1>12. /\ SpaceOK' /\ DOMAIN space' = DOMAIN space /\ space'[d].tab = space[d].tab /\ space'[d].map = w
       /\ \A e \in DOMAIN space \ {d} : space'[e] = space[e]
  BY <1>1, <1>7, <1>8, <1>11, MapEdit
<1>13. s \in {"failed", "commit"} BY <1>0
<1>14. u \in ExecTasks /\ u.op = "exec" /\ u.stage = s /\ u.dir = d /\ u.mem = NoPage /\ u.sz = t.new /\ u \in Calls
  BY <1>0, <1>2, <1>3, <1>13 DEF ExecTasks, Calls
<1>15. /\ task'[p] = u /\ \A q \in Procs \ {p} : Spare(q)' = Spare(q) /\ Building(q)' = Building(q)
       /\ Spare(p)' = NoPage /\ Building(p)' = d
  <2>1. /\ task'[p] = u /\ \A q \in Procs \ {p} : Spare(q)' = Spare(q) /\ Building(q)' = Building(q)
        /\ Spare(p)' = (IF u.op # "none" THEN u.mem ELSE NoPage)
        /\ Building(p)' = (IF u.op \in {"fork", "exec"} THEN u.dir ELSE NoPage)
    BY <1>1, <1>8, <1>14, Moves
  <2> QED BY <1>14, <2>1
<1>16. ExecInv(p)'
  <2>1. DOMAIN space'[d].map = Below(t.new) BY <1>9, <1>11, <1>12
  <2> QED BY <1>5, <1>6, <1>13, <1>14, <1>15, <2>1 DEF ExecInv
<1>17. VmTypeOK' /\ (PageInv' /\ DirInv' => VmInv')
  <2>1. PICK Y : Y = {d} OBVIOUS
  <2>2. \A q \in Procs : proc[q].pgdir \notin Y /\ (q # p => Building(q) \notin Y) BY <1>7, <2>1
  <2>3. Tabled(space'[d]) BY <1>7, <1>11, <1>12 DEF Tabled
  <2>4. /\ \A e \in DOMAIN space \ Y : e \in DOMAIN space' /\ space'[e] = space[e]
        /\ \A e \in DOMAIN space' : e \in DOMAIN space \ Y \/ Tabled(space'[e])
    BY <1>12, <2>1, <2>3
  <2>5. u.op = task[p].op /\ u.op \in {"fork", "exec"} /\ (u.op = "fork" => u.child = task[p].child)
        /\ (u.op = "fork" => ForkInv(p)')
    BY <1>0, <1>1, <1>14
  <2>6. freelist' \subseteq Pages BY <1>1, <1>8 DEF VmTypeOK
  <2> QED BY <1>1, <1>12, <1>14, <1>16, <2>2, <2>4, <2>5, <2>6, Build
<1>18. \A q \in Procs : Spare(q)' = Spare(q) /\ Building(q)' = Building(q) BY <1>2, <1>3, <1>15
<1>19. DirInv'
  <2>1. \A q \in Procs : proc'[q].pgdir = proc[q].pgdir BY <1>1
  <2> QED BY <1>8, <1>12, <1>18, <2>1, DirsStay
<1>20. PageInv'
  <2>1. Slots' = Slots BY <1>1, <1>8, <1>18, SlotsSame
  <2>2. Tabs' = Tabs BY <1>12, TabsSame
  <2>3. Maps' = Maps
    <3>1. \A e \in DOMAIN space : /\ DOMAIN space'[e].map = DOMAIN space[e].map
                                 /\ \A x \in DOMAIN space[e].map : space'[e].map[x].page = space[e].map[x].page
      BY <1>10, <1>11, <1>12
    <3> QED BY <1>12, <3>1, MapsSame
  <2> QED BY <1>1, <1>8, <2>1, <2>2, <2>3 DEF PageInv
<1> QED BY <1>17, <1>19, <1>20

(* The process gets the new image, and the old one is freed. *)
LEMMA ExecCommitKeeps ==
  ASSUME VmInv, NEW p \in Procs, ExecCommit(p)
  PROVE  VmInv'
<1>0. PICK t, d, o, x : /\ t = task[p] /\ d = t.dir /\ o = proc[p].pgdir
                        /\ x = [proc[p] EXCEPT !.pgdir = d, !.sz = t.sz]
  OBVIOUS
<1>1. /\ t.op = "exec" /\ t.stage = "commit" /\ proc' = [proc EXCEPT ![p] = x] /\ cr3' = [cr3 EXCEPT ![p] = d]
      /\ space' = Drop(space, {o}) /\ freelist' = freelist \cup PagesOf(o) /\ Goto(p, NoTask)
      /\ UNCHANGED <<emptied, panic>>
  BY <1>0 DEF ExecCommit, freevm, Loaded
<1>2. /\ ExecInv(p) /\ Own(p) /\ proc[p].state = "LIVE" /\ p \notin emptied /\ Spare(p) = t.mem /\ Building(p) = d
      /\ t.sz \in Nat /\ o # NoPage /\ o \in DOMAIN space
      /\ d # NoPage => d \in DOMAIN space /\ d \in Pages
                       /\ (\A q \in Procs : proc[q].pgdir # d /\ (q # p => Building(q) # d))
      /\ \A q \in Procs \ {p} : proc[q].pgdir # o /\ Building(q) # o
  BY <1>0, <1>1, ExecFacts
<1>3. d # NoPage /\ t.mem = NoPage /\ t.sz < KERNBASE /\ DOMAIN space[d].map = Below(t.sz)
  BY <1>0, <1>1, <1>2 DEF ExecInv
<1>4. VmTypeOK /\ PageInv /\ DirInv /\ ChildInv /\ (panic => emptied # {}) /\ NoPage \in MaybePage
  BY DEF VmInv, MaybePage
<1>5. /\ d \in DOMAIN space /\ d \in Pages /\ d \in MaybePage /\ d # o /\ o \in Pages
      /\ (\A q \in Procs : proc[q].pgdir # d /\ (q # p => Building(q) # d))
  BY <1>0, <1>2, <1>3, <1>4 DEF VmTypeOK, MaybePage
<1>6. proc[p] \in ProcSet /\ proc[p].kstack # NoPage BY <1>2, <1>4 DEF VmTypeOK, ProcSet, Own, ProcInv
<1>7. x \in ProcSet /\ x.state = "LIVE" /\ x.pgdir = d /\ x.sz = t.sz /\ x.kstack = proc[p].kstack
  BY <1>0, <1>2, <1>5, <1>6 DEF ProcSet
<1>8. proc' \in [Procs -> ProcSet] /\ proc'[p] = x /\ \A r \in Procs \ {p} : proc'[r] = proc[r]
  BY <1>1, <1>4, <1>7, OneProc
<1>9. cr3' \in [Procs -> MaybePage] /\ cr3'[p] = d /\ \A r \in Procs \ {p} : cr3'[r] = cr3[r]
  BY <1>1, <1>4, <1>5 DEF VmTypeOK
<1>10. /\ task' \in [Procs -> Calls] /\ task'[p] = NoTask /\ task'[p].op = "none"
       /\ \A r \in Procs \ {p} : task'[r] = task[r] /\ Spare(r)' = Spare(r) /\ Building(r)' = Building(r)
       /\ Spare(p)' = NoPage /\ Building(p)' = NoPage
  BY <1>1, <1>4, CallEnds
<1>11. SpaceOK' /\ DOMAIN space' = DOMAIN space \ {o} /\ \A e \in DOMAIN space' : space'[e] = space[e]
  BY <1>1, <1>4, SpaceDrop
<1>12. VmTypeOK'
  <2>1. freelist' \subseteq Pages BY <1>1, <1>2, <1>4, PagesOfType DEF VmTypeOK
  <2> QED BY <1>1, <1>4, <1>8, <1>9, <1>10, <1>11, <2>1, Types DEF VmTypeOK, ProcSet
<1>13. DirInv'
  <2>1. \A e \in Pages : e \in DOMAIN space <=> \E r \in Procs : proc[r].pgdir = e \/ Building(r) = e BY <1>4 DEF DirInv
  <2>2. proc'[p].pgdir = d /\ \A r \in Procs \ {p} : proc'[r].pgdir = proc[r].pgdir BY <1>7, <1>8
  <2>3. Building(p)' = NoPage /\ \A r \in Procs \ {p} : Building(r)' = Building(r) BY <1>10
  <2>4. ASSUME NEW e \in Pages
        PROVE  e \in DOMAIN space' <=> \E r \in Procs : proc'[r].pgdir = e \/ Building(r)' = e
    <3>1. e # NoPage BY NoPageIsNone
    <3>2. CASE e = d BY <1>5, <1>11, <2>2, <3>2
    <3>3. CASE e = o BY <1>2, <1>5, <1>11, <2>2, <2>3, <3>1, <3>3
    <3>4. CASE e # d /\ e # o BY <1>0, <1>2, <1>11, <2>1, <2>2, <2>3, <3>1, <3>4
    <3> QED BY <3>2, <3>3, <3>4
  <2> QED BY <2>4 DEF DirInv
<1>14. ChildInv'
  <2>1. \A r \in Procs \ {p} : task[r].op = "fork" => task[r].child # p BY <1>2, <1>4 DEF ChildInv
  <2>2. task'[p].op # "fork" BY <1>10
  <2>3. \A r \in Procs \ {p} : task'[r] = task[r] /\ proc'[r].state = proc[r].state BY <1>8, <1>10
  <2> QED BY <2>1, <2>2, <2>3, OtherChildren
<1>15. PageInv'
  <2>1. "pgdir" \in SlotKinds /\ "newdir" \in SlotKinds /\ "newdir" # "pgdir" /\ Slots \in Holdings /\ Slots["pgdir"][p] = o
        /\ Slots["newdir"][p] = d
    BY <1>0, <1>2, <1>4, SlotTypes, SlotIs DEF SlotKinds
  <2>2. ASSUME NEW e \in SlotKinds, NEW r \in Procs, e # "newdir" \/ r # p, e # "pgdir" \/ r # p
        PROVE  Slot(e, r)' = Slot(e, r)
    <3>1. proc'[r].kstack = proc[r].kstack /\ Spare(r)' = Spare(r) BY <1>2, <1>3, <1>7, <1>8, <1>10
    <3>2. CASE e = "stack" BY <3>1, <3>2, SlotIs
    <3>3. CASE e = "mem" BY <3>1, <3>3, SlotIs
    <3>4. CASE e = "pgdir" BY <1>8, <2>2, <3>4, SlotIs
    <3>5. CASE e = "newdir" BY <1>10, <2>2, <3>5, SlotIs
    <3> QED BY <3>2, <3>3, <3>4, <3>5 DEF SlotKinds
  <2>3. Slot("newdir", p)' = NoPage /\ Slot("pgdir", p)' = d BY <1>7, <1>8, <1>10, SlotIs
  <2>4. PICK g : g = Hold(Slots, "pgdir", p, NoPage) OBVIOUS
  <2>5. /\ g \in Holdings /\ g["pgdir"][p] = NoPage /\ g["newdir"][p] = d
        /\ \A e \in SlotKinds, q \in Procs : e # "pgdir" \/ q # p => g[e][q] = Slots[e][q]
    BY <1>4, <2>1, <2>4, HoldIs
  <2>6. PICK j : j = Hold(Hold(g, "newdir", p, NoPage), "pgdir", p, d) OBVIOUS
  <2>7. /\ j \in Holdings /\ j["newdir"][p] = NoPage /\ j["pgdir"][p] = d
        /\ \A e \in SlotKinds, q \in Procs : (e # "newdir" \/ q # p) /\ (e # "pgdir" \/ q # p) => j[e][q] = g[e][q]
    BY <1>4, <1>5, <2>1, <2>5, <2>6, HoldTwo, SMTT(60)
  <2>8. ASSUME NEW e \in SlotKinds, NEW r \in Procs PROVE Slot(e, r)' = j[e][r]
    <3>1. Slots[e][r] = Slot(e, r) BY <1>4, SlotTypes
    <3>2. CASE r = p /\ e = "newdir" BY <2>3, <2>7, <3>2
    <3>3. CASE r = p /\ e = "pgdir" BY <2>3, <2>7, <3>3
    <3>4. CASE (e # "newdir" \/ r # p) /\ (e # "pgdir" \/ r # p) BY <2>2, <2>5, <2>7, <3>1, <3>4
    <3> QED BY <3>2, <3>3, <3>4
  <2>9. Slots' = j BY <2>7, <2>8, SlotsAre
  <2>10. PICK F : F = freelist \cup PagesOf(o) OBVIOUS
  <2>11. Exact(F, g, Tabs', Maps') BY <1>1, <1>2, <1>4, <2>1, <2>4, <2>10, FreeSpace DEF PageInv, Hold
  <2>12. PICK tb, mp : tb = Tabs' /\ mp = Maps' OBVIOUS
  <2>13. Exact(F, g, tb, mp) BY <2>11, <2>12
  <2>14. Exact(F, Hold(Hold(g, "newdir", p, NoPage), "pgdir", p, d), tb, mp) BY <1>5, <2>1, <2>5, <2>13, PassSlot
  <2> QED BY <1>1, <2>6, <2>9, <2>10, <2>12, <2>14 DEF PageInv
<1>16. Own(p)'
  <2>1. ProcInv(p)' BY <1>1, <1>2, <1>3, <1>6, <1>7, <1>8, <1>9, <1>10 DEF ProcInv
  <2>2. space'[d] = space[d] BY <1>5, <1>11
  <2>3. ImageInv(p)' BY <1>1, <1>2, <1>3, <1>7, <1>8, <2>2 DEF ImageInv
  <2> QED BY <1>10, <2>1, <2>3 DEF Own
<1>17. Aside({p}, {o}) BY <1>1, <1>2, <1>8, <1>9, <1>10, <1>11 DEF Aside
<1>18. \A e \in DOMAIN space' : e \in DOMAIN space \ {o} \/ Tabled(space'[e]) BY <1>11
<1>19. panic' => emptied' # {} BY <1>1, <1>4
<1>20. \A r \in Procs : r \in {p} => Own(r)' BY <1>16
<1> QED BY <1>12, <1>13, <1>14, <1>15, <1>17, <1>18, <1>19, <1>20, Assemble

(* exec() gives up the new image. *)
LEMMA ExecFailsKeeps ==
  ASSUME VmInv, NEW p \in Procs, ExecFails(p)
  PROVE  VmInv'
<1>0. PICK t, d : t = task[p] /\ d = t.dir OBVIOUS
<1>1. /\ t.op = "exec" /\ t.stage = "failed" /\ Goto(p, NoTask) /\ UNCHANGED <<proc, cr3, emptied, panic>>
      /\ IF d # NoPage THEN freevm(d, {}) ELSE UNCHANGED <<space, freelist>>
  BY <1>0 DEF ExecFails
<1>2. /\ ExecInv(p) /\ Own(p) /\ proc[p].state = "LIVE" /\ p \notin emptied /\ Spare(p) = t.mem /\ Building(p) = d
      /\ proc[p].pgdir # NoPage /\ proc[p].pgdir \in DOMAIN space
      /\ DOMAIN space[proc[p].pgdir].map = Below(proc[p].sz)
      /\ d # NoPage => d \in DOMAIN space /\ d \in Pages
                       /\ (\A q \in Procs : proc[q].pgdir # d /\ (q # p => Building(q) # d))
  BY <1>0, <1>1, ExecFacts
<1>3. t.mem = NoPage BY <1>0, <1>1, <1>2 DEF ExecInv
<1>4. VmTypeOK /\ PageInv /\ DirInv /\ ChildInv /\ (panic => emptied # {}) /\ NoPage \in MaybePage
  BY DEF VmInv, MaybePage
<1>5. /\ task' \in [Procs -> Calls] /\ task'[p] = NoTask /\ task'[p].op = "none"
      /\ \A r \in Procs \ {p} : task'[r] = task[r] /\ Spare(r)' = Spare(r) /\ Building(r)' = Building(r)
      /\ Spare(p)' = NoPage /\ Building(p)' = NoPage
  BY <1>1, <1>4, CallEnds
<1>6. ChildInv'
  <2>1. \A r \in Procs \ {p} : task[r].op = "fork" => task[r].child # p BY <1>2, <1>4 DEF ChildInv
  <2>2. task'[p].op # "fork" BY <1>5
  <2>3. \A r \in Procs \ {p} : task'[r] = task[r] /\ proc'[r].state = proc[r].state BY <1>1, <1>5
  <2> QED BY <2>1, <2>2, <2>3, OtherChildren
<1>7. ASSUME SpaceOK', freelist' \subseteq Pages, space'[proc[p].pgdir] = space[proc[p].pgdir]
      PROVE  VmTypeOK' /\ Own(p)'
  <2>1. VmTypeOK' BY <1>1, <1>4, <1>5, <1>7, Types DEF VmTypeOK
  <2>2. ProcInv(p)' BY <1>1, <1>2, <1>5 DEF Own, ProcInv
  <2>3. ImageInv(p)' BY <1>1, <1>2, <1>7 DEF ImageInv
  <2> QED BY <1>5, <2>1, <2>2, <2>3 DEF Own
<1>8. panic' => emptied' # {} BY <1>1, <1>4
<1>9. \A q \in Procs : proc'[q].pgdir = proc[q].pgdir /\ proc'[q].kstack = proc[q].kstack BY <1>1
<1>10. CASE d # NoPage
  <2>0. d \in DOMAIN space /\ d \in Pages /\ (\A q \in Procs : proc[q].pgdir # d /\ (q # p => Building(q) # d))
    BY <1>2, <1>10
  <2>1. space' = Drop(space, {d}) /\ freelist' = freelist \cup PagesOf(d) BY <1>1, <1>10 DEF freevm
  <2>2. SpaceOK' /\ DOMAIN space' = DOMAIN space \ {d} /\ \A e \in DOMAIN space' : space'[e] = space[e]
    BY <1>4, <2>1, SpaceDrop
  <2>3. freelist' \subseteq Pages BY <1>4, <2>0, <2>1, PagesOfType DEF VmTypeOK
  <2>4. VmTypeOK' /\ Own(p)' BY <1>2, <1>7, <2>0, <2>2, <2>3
  <2>5. DirInv' BY <1>2, <1>4, <1>5, <1>9, <1>10, <2>2, DirsDrop
  <2>6. PageInv'
    <3>1. Slots \in Holdings /\ Slots["newdir"][p] = d /\ Slots["mem"][p] = NoPage
          /\ "newdir" \in SlotKinds /\ "mem" \in SlotKinds
      BY <1>2, <1>3, <1>4, SlotTypes, SlotIs DEF SlotKinds
    <3>2. Slots' = Hold(Hold(Slots, "mem", p, NoPage), "newdir", p, NoPage) BY <1>4, <1>5, <1>9, <2>4, BuildSlots
    <3>3. Slots' = Hold(Slots, "newdir", p, NoPage) BY <3>1, <3>2, HoldSame
    <3>4. Exact(freelist \cup PagesOf(d), Slots', Tabs', Maps')
      BY <1>4, <2>0, <2>1, <3>1, <3>3, FreeSpace DEF Hold, PageInv
    <3> QED BY <2>1, <3>4 DEF PageInv
  <2>7. Aside({p}, {d}) BY <1>1, <1>5, <2>0, <2>2 DEF Aside
  <2>8. \A e \in DOMAIN space' : e \in DOMAIN space \ {d} \/ Tabled(space'[e]) BY <2>2
  <2>9. \A r \in Procs : r \in {p} => Own(r)' BY <2>4
  <2> QED BY <1>6, <1>8, <2>4, <2>5, <2>6, <2>7, <2>8, <2>9, Assemble
<1>11. CASE d = NoPage
  <2>1. UNCHANGED <<space, freelist>> BY <1>1, <1>11
  <2>2. SpaceOK' /\ freelist' \subseteq Pages BY <1>4, <2>1, SpaceSame DEF VmTypeOK
  <2>3. VmTypeOK' /\ Own(p)' BY <1>7, <2>1, <2>2
  <2>4. \A q \in Procs : Spare(q)' = Spare(q) /\ Building(q)' = Building(q) BY <1>2, <1>3, <1>5, <1>11
  <2>5. DirInv' BY <1>4, <1>9, <2>1, <2>4, DirsStay
  <2>6. Slots' = Slots BY <1>4, <1>9, <2>4, SlotsSame
  <2>7. Tabs' = Tabs /\ Maps' = Maps BY <2>1 DEF Tabs, Maps
  <2>8. PageInv' BY <1>4, <2>1, <2>6, <2>7 DEF PageInv
  <2>9. Aside({p}, {}) BY <1>1, <1>5, <2>1 DEF Aside
  <2>10. \A e \in DOMAIN space' : e \in DOMAIN space \ {} \/ Tabled(space'[e]) BY <2>1
  <2>11. \A r \in Procs : r \in {p} => Own(r)' BY <2>3
  <2> QED BY <1>6, <1>8, <2>3, <2>5, <2>8, <2>9, <2>10, <2>11, Assemble
<1> QED BY <1>10, <1>11

-----------------------------------------------------------------------------
(* The theorems.                                                           *)

(* A step of process p. *)
LEMMA StepKeeps ==
  ASSUME VmInv, Step
  PROVE  VmInv'
<1>1. ~panic BY DEF Step
<1>2. PICK p \in Procs :
         \/ \E n \in Amounts : sbrkGrow(p, n) \/ sbrkShrink(p, n)
         \/ sbrkGrown(p) \/ sbrkFails(p)
         \/ AllocPage(p) \/ AllocTable(p) \/ AllocFails(p) \/ AllocTooLarge(p)
         \/ NewDirectory(p) \/ KernelPart(p) \/ SetupFails(p)
         \/ \E q \in Procs : fork(p, q)
         \/ CopyPage(p) \/ CopyFails(p) \/ CopyPanics(p) \/ ForkDone(p) \/ ForkFails(p)
         \/ exit(p) \/ wait(p)
         \/ \E g \in Programs : exec(p, g)
         \/ ExecSegment(p) \/ ExecLoad(p) \/ ExecStack(p) \/ ExecArgs(p) \/ ExecCommit(p) \/ ExecFails(p)
  BY Zenon DEF Step
<1>3. CASE \E n \in Amounts : sbrkGrow(p, n) \/ sbrkShrink(p, n)
  BY <1>3, sbrkGrowKeeps, sbrkShrinkKeeps, Zenon
<1>4. CASE sbrkGrown(p) \/ sbrkFails(p) BY <1>4, sbrkGrownKeeps, sbrkFailsKeeps, Zenon
<1>5. CASE AllocPage(p) \/ AllocTable(p) \/ AllocFails(p) \/ AllocTooLarge(p)
  BY <1>5, AllocPageKeeps, AllocTableKeeps, AllocFailsKeeps, AllocTooLargeKeeps, Zenon
<1>6. CASE NewDirectory(p) \/ KernelPart(p) \/ SetupFails(p)
  BY <1>6, NewDirectoryKeeps, KernelPartKeeps, SetupFailsKeeps, Zenon
<1>7. CASE \E q \in Procs : fork(p, q) BY <1>7, forkKeeps, Zenon
<1>8. CASE CopyPage(p) \/ CopyFails(p) \/ CopyPanics(p) \/ ForkDone(p) \/ ForkFails(p)
  BY <1>8, CopyPageKeeps, CopyFailsKeeps, CopyPanicsKeeps, ForkDoneKeeps, ForkFailsKeeps, Zenon
<1>9. CASE exit(p) \/ wait(p) BY <1>1, <1>9, exitKeeps, waitKeeps, Zenon
<1>10. CASE \E g \in Programs : exec(p, g) BY <1>10, execKeeps, Zenon
<1>11. CASE ExecSegment(p) \/ ExecLoad(p) \/ ExecStack(p)
  BY <1>11, ExecSegmentKeeps, ExecLoadKeeps, ExecStackKeeps, Zenon
<1>12. CASE ExecArgs(p) \/ ExecCommit(p) \/ ExecFails(p)
  BY <1>12, ExecArgsKeeps, ExecCommitKeeps, ExecFailsKeeps, Zenon
<1> QED BY <1>2, <1>3, <1>4, <1>5, <1>6, <1>7, <1>8, <1>9, <1>10, <1>11, <1>12, Zenon

(* Nothing changes. *)
LEMMA StutterKeeps ==
  ASSUME VmInv, UNCHANGED vars
  PROVE  VmInv'
<1> USE DEF vars
<1>1. VmTypeOK' BY DEF VmInv, VmTypeOK
<1>2. \A q \in Procs : Spare(q)' = Spare(q) /\ Building(q)' = Building(q) /\ Slot("stack", q)' = Slot("stack", q)
  BY DEF Spare, Building, Slot
<1>3. Slots' = Slots BY <1>2, SlotsSame DEF VmInv
<1>4. Tabs' = Tabs /\ Maps' = Maps BY DEF Tabs, Maps
<1>5. PageInv' BY <1>3, <1>4 DEF VmInv, PageInv
<1>6. DirInv' BY <1>2, DirsStay DEF VmInv
<1>7. ChildInv' BY DEF VmInv, ChildInv
<1>8. Aside({}, {})
  BY <1>2 DEF Aside
<1>9. Kept({}, {}) BY <1>7, <1>8, Others DEF VmInv
<1>10. (\A q \in Procs : Own(q)') /\ \A e \in DOMAIN space' : Tabled(space'[e]) BY <1>9 DEF Kept
<1> QED BY <1>1, <1>5, <1>6, <1>7, <1>10 DEF VmInv

(* Every step preserves the invariant. *)
LEMMA StepInv == VmInv /\ [Next]_vars => VmInv'
<1> SUFFICES ASSUME VmInv, [Next]_vars PROVE VmInv' OBVIOUS
<1>1. CASE Step BY <1>1, StepKeeps
<1>2. CASE UNCHANGED vars BY <1>2, StutterKeeps
<1> QED BY <1>1, <1>2, Zenon DEF Next, Stopped

(* S has the one element x, but only when kind k is in C. *)
Single(S, x, k, C) == \A y : y \in S <=> k \in C /\ y = x

(* A page used in one way is counted once. *)
LEMMA CountOne ==
  ASSUME NEW S, NEW x, NEW k, NEW C, Single(S, x, k, C)
  PROVE  Cardinality(S) = IF k \in C THEN 1 ELSE 0
<1> USE DEF Single
<1>1. CASE k \in C
  <2>1. S = {x} BY <1>1
  <2> QED BY <1>1, <2>1, FS_Singleton
<1>2. CASE k \notin C
  <2>1. S = {} BY <1>2
  <2> QED BY <1>2, <2>1, FS_EmptySet
<1> QED BY <1>1, <1>2

(* Page g is used as k says, by o, at its place i. *)
UsedAs(g, k, o, i) ==
    /\ g \in freelist <=> k = "free"
    /\ \A c \in SlotKinds, p \in Procs : Slot(c, p) = g <=> k = c /\ o = p
    /\ k \in SlotKinds => o \in Procs
    /\ \A d \in DOMAIN space : \A j \in DOMAIN space[d].tab : space[d].tab[j] = g <=> k = "table" /\ o = d /\ i = j
    /\ k = "table" => o \in DOMAIN space /\ i \in DOMAIN space[o].tab
    /\ \A d \in DOMAIN space : \A v \in DOMAIN space[d].map :
         space[d].map[v].page = g <=> k = "mapped" /\ o = d /\ i = v
    /\ k = "mapped" => o \in DOMAIN space /\ i \in DOMAIN space[o].map

(* Every page is used in one way. *)
LEMMA KindOf ==
  ASSUME VmInv, NEW g \in Pages
  PROVE  \E k \in Kinds, o \in Nat, i \in Nat : UsedAs(g, k, o, i)
<1>1. VmTypeOK /\ PageInv BY DEF VmInv
<1>2. PICK kind \in [Pages -> Kinds], of \in [Pages -> Nat], at \in [Pages -> Nat] :
        Owned(freelist, Slots, Tabs, Maps, kind, of, at)
  BY <1>1 DEF PageInv, Exact
<1>3. PICK k \in Kinds, o \in Nat, i \in Nat : k = kind[g] /\ o = of[g] /\ i = at[g] OBVIOUS
<1>4. g \in freelist <=> k = "free" BY <1>2, <1>3 DEF Owned, FreePart
<1>5. /\ \A c \in SlotKinds, p \in Procs : Slot(c, p) = g <=> k = c /\ o = p
      /\ k \in SlotKinds => o \in Procs
  BY <1>1, <1>2, <1>3, SlotTypes DEF Owned, SlotPart
<1>6. /\ \A d \in DOMAIN space : \A j \in DOMAIN space[d].tab : space[d].tab[j] = g <=> k = "table" /\ o = d /\ i = j
      /\ k = "table" => o \in DOMAIN space /\ i \in DOMAIN space[o].tab
  BY <1>2, <1>3, TabsAre DEF Owned, EntryPart
<1>7. /\ \A d \in DOMAIN space : \A v \in DOMAIN space[d].map :
           space[d].map[v].page = g <=> k = "mapped" /\ o = d /\ i = v
      /\ k = "mapped" => o \in DOMAIN space /\ i \in DOMAIN space[o].map
  BY <1>2, <1>3, TabsAre DEF Owned, EntryPart
<1>8. UsedAs(g, k, o, i) BY <1>4, <1>5, <1>6, <1>7, Zenon DEF UsedAs
<1>9. k \in Kinds /\ o \in Nat /\ i \in Nat BY <1>3
<1> QED BY <1>8, <1>9, Zenon

(* Every page has one use. *)
LEMMA OneUse ==
  ASSUME VmInv, NEW g \in Pages
  PROVE  Uses(g) = 1
<1>0. PICK k \in Kinds, o \in Nat, i \in Nat : UsedAs(g, k, o, i) BY KindOf
<1>1. VmTypeOK /\ DirInv BY DEF VmInv
<1>2. /\ g \in freelist <=> k = "free"
      /\ \A c \in SlotKinds, p \in Procs : Slot(c, p) = g <=> k = c /\ o = p
      /\ k \in SlotKinds => o \in Procs
      /\ \A d \in DOMAIN space : \A j \in DOMAIN space[d].tab : space[d].tab[j] = g <=> k = "table" /\ o = d /\ i = j
      /\ k = "table" => o \in DOMAIN space /\ i \in DOMAIN space[o].tab
      /\ \A d \in DOMAIN space : \A v \in DOMAIN space[d].map :
           space[d].map[v].page = g <=> k = "mapped" /\ o = d /\ i = v
      /\ k = "mapped" => o \in DOMAIN space /\ i \in DOMAIN space[o].map
  BY <1>0 DEF UsedAs
<1>3. "stack" \in SlotKinds /\ "pgdir" \in SlotKinds /\ "mem" \in SlotKinds /\ "newdir" \in SlotKinds BY DEF SlotKinds
<1>4. \A p \in Procs : proc[p].kstack = g <=> k = "stack" /\ o = p BY <1>2, <1>3, SlotIs
<1>5. \A p \in Procs : (task[p] # NoTask /\ task[p].mem = g) <=> k = "mem" /\ o = p
  <2>1. \A p \in Procs : Spare(p) = g <=> k = "mem" /\ o = p BY <1>2, <1>3, SlotIs
  <2>2. \A p \in Procs : Spare(p) = g <=> task[p] # NoTask /\ task[p].mem = g
    <3>1. g # NoPage BY NoPageIsNone
    <3> QED BY <1>1, <3>1, TaskKinds DEF Spare
  <2> QED BY <2>1, <2>2
<1>6. g \in DOMAIN space <=> k \in {"pgdir", "newdir"}
  <2>1. \A p \in Procs : proc[p].pgdir = g <=> k = "pgdir" /\ o = p BY <1>2, <1>3, SlotIs
  <2>2. \A p \in Procs : Building(p) = g <=> k = "newdir" /\ o = p BY <1>2, <1>3, SlotIs
  <2> QED BY <1>1, <1>2, <1>3, <2>1, <2>2 DEF DirInv
<1>7. \A d \in DOMAIN space : d \in Pages /\ DOMAIN space[d].tab \subseteq 0 .. KTable /\ DOMAIN space[d].map \subseteq 0 .. Vpn(KERNBASE)
  BY <1>1, SpaceFields
<1> DEFINE S1 == {x \in {"free"} : g \in freelist}
           S2 == {p \in Procs : proc[p].kstack = g}
           S3 == {p \in Procs : task[p] # NoTask /\ task[p].mem = g}
           S4 == {d \in DOMAIN space : d = g}
           S5 == {x \in (DOMAIN space) \X (0 .. KTable) :
                     x[2] \in DOMAIN space[x[1]].tab /\ space[x[1]].tab[x[2]] = g}
           S6 == {x \in (DOMAIN space) \X (0 .. Vpn(KERNBASE)) :
                     x[2] \in DOMAIN space[x[1]].map /\ space[x[1]].map[x[2]].page = g}
<1>8. Uses(g) = Cardinality(S1) + Cardinality(S2) + Cardinality(S3) + Cardinality(S4) + Cardinality(S5) + Cardinality(S6)
  BY Zenon DEF Uses
<1>11. Single(S1, "free", k, {"free"}) BY <1>2 DEF Single
<1>12. Single(S2, o, k, {"stack"}) BY <1>2, <1>3, <1>4 DEF Single
<1>13. Single(S3, o, k, {"mem"}) BY <1>2, <1>3, <1>5 DEF Single
<1>14. Single(S4, g, k, {"pgdir", "newdir"}) BY <1>6 DEF Single
<1>15. Single(S5, <<o, i>>, k, {"table"})
  <2>1. PICK R : R = 0 .. KTable OBVIOUS
  <2>2. \A d \in DOMAIN space : DOMAIN space[d].tab \subseteq R BY <1>7, <2>1
  <2>3. \A y : y \in S5 <=> y \in (DOMAIN space) \X R /\ y[2] \in DOMAIN space[y[1]].tab /\ space[y[1]].tab[y[2]] = g
    BY <2>1
  <2> HIDE DEF S5
  <2>4. ASSUME NEW y \in S5 PROVE k = "table" /\ y = <<o, i>>
    <3>1. y \in (DOMAIN space) \X R /\ y[2] \in DOMAIN space[y[1]].tab /\ space[y[1]].tab[y[2]] = g
      BY <2>3
    <3>2. PICK d, j : d \in DOMAIN space /\ j \in R /\ y = <<d, j>> BY <3>1
    <3>3. j \in DOMAIN space[d].tab /\ space[d].tab[j] = g BY <3>1, <3>2
    <3> QED BY <1>2, <3>2, <3>3
  <2>5. ASSUME k = "table" PROVE <<o, i>> \in S5
    <3>1. o \in DOMAIN space /\ i \in DOMAIN space[o].tab /\ space[o].tab[i] = g /\ i \in R BY <1>2, <2>2, <2>5
    <3> QED BY <2>3, <3>1
  <2> QED BY <2>4, <2>5 DEF Single
<1>16. Single(S6, <<o, i>>, k, {"mapped"})
  <2>1. PICK R : R = 0 .. Vpn(KERNBASE) OBVIOUS
  <2>2. \A d \in DOMAIN space : DOMAIN space[d].map \subseteq R BY <1>7, <2>1
  <2>3. \A y : y \in S6 <=> y \in (DOMAIN space) \X R /\ y[2] \in DOMAIN space[y[1]].map /\ space[y[1]].map[y[2]].page = g
    BY <2>1
  <2> HIDE DEF S6
  <2>4. ASSUME NEW y \in S6 PROVE k = "mapped" /\ y = <<o, i>>
    <3>1. y \in (DOMAIN space) \X R /\ y[2] \in DOMAIN space[y[1]].map /\ space[y[1]].map[y[2]].page = g
      BY <2>3
    <3>2. PICK d, j : d \in DOMAIN space /\ j \in R /\ y = <<d, j>> BY <3>1
    <3>3. j \in DOMAIN space[d].map /\ space[d].map[j].page = g BY <3>1, <3>2
    <3> QED BY <1>2, <3>2, <3>3
  <2>5. ASSUME k = "mapped" PROVE <<o, i>> \in S6
    <3>1. o \in DOMAIN space /\ i \in DOMAIN space[o].map /\ space[o].map[i].page = g /\ i \in R BY <1>2, <2>2, <2>5
    <3> QED BY <2>3, <3>1
  <2> QED BY <2>4, <2>5 DEF Single
<1> HIDE DEF S1, S2, S3, S4, S5, S6
<1>21. Cardinality(S1) = IF k \in {"free"} THEN 1 ELSE 0 BY <1>11, CountOne
<1>22. Cardinality(S2) = IF k \in {"stack"} THEN 1 ELSE 0 BY <1>12, CountOne
<1>23. Cardinality(S3) = IF k \in {"mem"} THEN 1 ELSE 0 BY <1>13, CountOne
<1>24. Cardinality(S4) = IF k \in {"pgdir", "newdir"} THEN 1 ELSE 0 BY <1>14, CountOne
<1>25. Cardinality(S5) = IF k \in {"table"} THEN 1 ELSE 0 BY <1>15, CountOne
<1>26. Cardinality(S6) = IF k \in {"mapped"} THEN 1 ELSE 0 BY <1>16, CountOne
<1>27. k \in {"stack", "pgdir", "mem", "newdir", "free", "table", "mapped"} BY DEF Kinds, SlotKinds
<1> QED BY <1>8, <1>21, <1>22, <1>23, <1>24, <1>25, <1>26, <1>27

(* Every directory has one holder. *)
LEMMA OneHolder ==
  ASSUME VmInv, NEW d \in DOMAIN space
  PROVE  Cardinality(HolderOf(d)) = 1
<1>1. VmTypeOK /\ PageInv /\ DirInv BY DEF VmInv
<1>2. d \in Pages /\ d # NoPage BY <1>1, NoPageIsNone DEF VmTypeOK
<1>3. \A q \in Procs : (task[q].op \in {"fork", "exec"} /\ task[q].dir = d) <=> Building(q) = d BY <1>2 DEF Building
<1>4. PICK p \in Procs : proc[p].pgdir = d \/ Building(p) = d BY <1>1, <1>2 DEF DirInv
<1>5. CASE proc[p].pgdir = d
  <2>1. \A q \in Procs : (proc[q].pgdir = d <=> q = p) /\ Building(q) # d BY <1>1, <1>2, <1>5, OwnDirs
  <2>2. HolderOf(d) = {p} BY <1>3, <2>1 DEF HolderOf
  <2> QED BY <2>2, FS_Singleton
<1>6. CASE Building(p) = d
  <2>1. \A q \in Procs : (Building(q) = d <=> q = p) /\ proc[q].pgdir # d BY <1>1, <1>2, <1>6, OwnDirs
  <2>2. {q \in Procs : proc[q].pgdir = d} = {} BY <2>1
  <2>3. {x \in Procs : task[x].op \in {"fork", "exec"} /\ task[x].dir = d} = {p} BY <1>3, <2>1
  <2>4. {q + NProcs : q \in {x \in Procs : task[x].op \in {"fork", "exec"} /\ task[x].dir = d}} = {p + NProcs}
    BY <2>3
  <2>5. HolderOf(d) = {p + NProcs} BY <2>2, <2>4, Zenon DEF HolderOf
  <2> QED BY <2>5, FS_Singleton
<1> QED BY <1>4, <1>5, <1>6

(* The invariant gives what the runs check. *)
LEMMA InvImplies == VmInv => PageOwnership /\ ImageMatchesSize
<1> SUFFICES ASSUME VmInv PROVE PageOwnership /\ ImageMatchesSize OBVIOUS
<1>1. VmTypeOK /\ PageInv /\ DirInv BY DEF VmInv
<1>2. ASSUME NEW p \in Procs, proc[p].state = "LIVE"
      PROVE  /\ cr3[p] \in DOMAIN space /\ cr3[p] = proc[p].pgdir
             /\ proc[p].pgdir \in DOMAIN space /\ proc[p].sz < KERNBASE
  <2>1. ProcInv(p) BY DEF VmInv, Own
  <2> QED BY <1>1, <1>2, <2>1, OwnDirs DEF ProcInv
<1>3. PageOwnership BY <1>2, OneUse, OneHolder DEF PageOwnership
<1>4. ASSUME NEW p \in Procs \ emptied, proc[p].state = "LIVE", task[p].op \in {"none", "fork", "exec"}
      PROVE  LET s == space[proc[p].pgdir] IN
             /\ proc[p].sz < KERNBASE
             /\ DOMAIN s.map = {v \in 0 .. Vpn(KERNBASE) : v * PGSIZE < proc[p].sz}
             /\ \A v \in DOMAIN s.map : PDX(v) \in DOMAIN s.tab
  <2>1. DOMAIN space[proc[p].pgdir].map = Below(proc[p].sz)
    <3>1. ImageInv(p) /\ task[p].op # "sbrk" BY <1>4 DEF VmInv, Own
    <3> QED BY <1>4, <3>1 DEF ImageInv
  <2>2. Tabled(space[proc[p].pgdir]) BY <1>2, <1>4 DEF VmInv
  <2>3. proc[p].sz < KERNBASE BY <1>2, <1>4
  <2> QED BY <2>1, <2>2, <2>3 DEF Below, Tabled
<1>5. panic => emptied # {} BY DEF VmInv
<1>6. ImageMatchesSize BY <1>4, <1>5 DEF ImageMatchesSize
<1> QED BY <1>3, <1>6

(* The first page below the first size. *)
LEMMA FirstPage == /\ Below(PGSIZE) = {0} /\ 0 \in 0 .. Vpn(KERNBASE) /\ PDX(0) = 0 /\ 0 \in 0 .. KTable
                   /\ KTable \in 0 .. KTable /\ KTable # 0 /\ PGSIZE \in Nat /\ PGSIZE < KERNBASE
<1> USE Constants
<1>1. 0 % PGSIZE = 0 /\ Vpn(0) = 0 /\ PDX(0) = 0
  <2>1. (0 * PGSIZE + 0) \div PGSIZE = 0 /\ (0 * PGSIZE + 0) % PGSIZE = 0 BY DivUnique
  <2>2. (0 * NPTE + 0) \div NPTE = 0 BY DivUnique
  <2> QED BY <2>1, <2>2 DEF Vpn, PDX
<1>2. Below(0 + PGSIZE) = Below(0) \cup {Vpn(0)} BY <1>1, NextPage
<1>3. Below(PGSIZE) = {0} BY <1>1, <1>2, BelowZero
<1>4. KTable \in Nat \ {0} /\ Vpn(KERNBASE) \in Nat BY KernelBase
<1> QED BY <1>1, <1>3, <1>4

(* The pages of the first process. *)
LEMMA InitPages ==
  ASSUME Init
  PROVE  PageInv
<1> USE NoPageIsNone, Constants
<1>1. /\ freelist = Pages \ 1 .. 5
      /\ \A p \in Procs : proc[p] = IF p = 1
              THEN [state |-> "LIVE", kstack |-> 1, pgdir |-> 2, sz |-> PGSIZE] ELSE Unused
      /\ DOMAIN space = {2} /\ DOMAIN space[2].tab = {0, KTable} /\ space[2].tab[0] = 4 /\ space[2].tab[KTable] = 3
      /\ DOMAIN space[2].map = {0} /\ space[2].map[0].page = 5
      /\ \A p \in Procs : Spare(p) = NoPage /\ Building(p) = NoPage
  <2>1. KTable # 0 BY FirstPage
  <2>2. \A p \in Procs : Spare(p) = NoPage /\ Building(p) = NoPage BY DEF Init, Spare, Building, NoTask
  <2> QED BY <2>1, <2>2 DEF Init
<1> DEFINE kind == [g \in Pages |-> IF g = 1 THEN "stack" ELSE IF g = 2 THEN "pgdir" ELSE
                                    IF g \in {3, 4} THEN "table" ELSE IF g = 5 THEN "mapped" ELSE "free"]
           of == [g \in Pages |-> IF g = 1 \/ g = 2 THEN 1 ELSE 2]
           at == [g \in Pages |-> IF g = 3 THEN KTable ELSE 0]
<1>2. kind \in [Pages -> Kinds] /\ of \in [Pages -> Nat] /\ at \in [Pages -> Nat]
  <2>1. KTable \in Nat BY KernelBase
  <2> QED BY <2>1 DEF Kinds, SlotKinds
<1>3. /\ \A g \in Pages : /\ kind[g] = "stack" <=> g = 1 
                          /\ kind[g] = "pgdir" <=> g = 2
                          /\ kind[g] = "table" <=> g = 3 \/ g = 4
                          /\ kind[g] = "mapped" <=> g = 5
                          /\ kind[g] = "free" <=> g \notin 1 .. 5
                          /\ kind[g] # "mem" /\ kind[g] # "newdir"
                          /\ g = 1 \/ g = 2 => of[g] = 1
                          /\ g \in 3 .. 5 => of[g] = 2
                          /\ g = 3 => at[g] = KTable
                          /\ g # 3 => at[g] = 0
  BY DEF Pages
<1> HIDE DEF kind, of, at
<1>4. FreePart(freelist, kind) BY <1>1, <1>3 DEF FreePart
<1>5. SlotPart(Slots, kind, of)
  <2>1. 1 \in Procs BY DEF Procs
  <2> SUFFICES ASSUME NEW g \in Pages
               PROVE  /\ \A c \in SlotKinds, p \in Procs : Slots[c][p] = g <=> kind[g] = c /\ of[g] = p
                      /\ kind[g] \in SlotKinds => of[g] \in Procs
    BY DEF SlotPart
  <2>2. ASSUME NEW p \in Procs
        PROVE  /\ Slots["stack"][p] = proc[p].kstack /\ Slots["pgdir"][p] = proc[p].pgdir
               /\ Slots["mem"][p] = NoPage /\ Slots["newdir"][p] = NoPage
    BY <1>1, SlotIs DEF Slots, SlotKinds
  <2>3. g \in Nat /\ g # NoPage OBVIOUS
  <2>4. ASSUME NEW p \in Procs
        PROVE  /\ proc[p].kstack = g <=> g = 1 /\ p = 1
               /\ proc[p].pgdir = g <=> g = 2 /\ p = 1
    <3>1. CASE p = 1
      <4>1. proc[p] = [state |-> "LIVE", kstack |-> 1, pgdir |-> 2, sz |-> PGSIZE] BY <1>1, <3>1
      <4>2. proc[p].kstack = 1 /\ proc[p].pgdir = 2 BY <4>1
      <4> QED BY <3>1, <4>2
    <3>2. CASE p # 1
      <4>1. proc[p] = Unused BY <1>1, <3>2
      <4>2. proc[p].kstack = NoPage /\ proc[p].pgdir = NoPage BY <4>1 DEF Unused
      <4> QED BY <2>3, <3>2, <4>2
    <3> QED BY <3>1, <3>2
  <2> QED BY <1>3, <2>1, <2>2, <2>3, <2>4 DEF SlotKinds
<1>6. EntryPart("table", Tabs, kind, of, at)
  <2>1. DOMAIN Tabs = {2} /\ DOMAIN Tabs[2] = {0, KTable} /\ Tabs[2][0] = 4 /\ Tabs[2][KTable] = 3 BY <1>1, TabsAre
  <2>2. KTable # 0 BY FirstPage
  <2>3. ASSUME NEW g \in Pages
        PROVE  /\ Tabs[2][0] = g <=> kind[g] = "table" /\ of[g] = 2 /\ at[g] = 0
               /\ Tabs[2][KTable] = g <=> kind[g] = "table" /\ of[g] = 2 /\ at[g] = KTable
               /\ kind[g] = "table" => of[g] = 2 /\ at[g] \in {0, KTable}
    <3>1. kind[g] = "table" <=> g = 3 \/ g = 4 BY <1>3
    <3>2. g \in 3 .. 5 => of[g] = 2 BY <1>3
    <3>3. (g = 3 => at[g] = KTable) /\ (g # 3 => at[g] = 0) BY <1>3
    <3> QED BY <2>1, <2>2, <3>1, <3>2, <3>3
  <2> QED BY <2>1, <2>3, ZenonT(60) DEF EntryPart
<1>7. EntryPart("mapped", Maps, kind, of, at)
  <2>1. DOMAIN Maps = {2} /\ DOMAIN Maps[2] = {0} /\ Maps[2][0] = 5 BY <1>1, TabsAre
  <2>2. ASSUME NEW g \in Pages
        PROVE  /\ Maps[2][0] = g <=> kind[g] = "mapped" /\ of[g] = 2 /\ at[g] = 0
               /\ kind[g] = "mapped" => of[g] = 2 /\ at[g] = 0
    <3>1. kind[g] = "mapped" <=> g = 5 BY <1>3
    <3>2. g \in 3 .. 5 => of[g] = 2 BY <1>3
    <3>3. g # 3 => at[g] = 0 BY <1>3
    <3> QED BY <2>1, <3>1, <3>2, <3>3
  <2> QED BY <2>1, <2>2, ZenonT(60) DEF EntryPart
<1>8. Owned(freelist, Slots, Tabs, Maps, kind, of, at) BY <1>4, <1>5, <1>6, <1>7 DEF Owned
<1> QED BY <1>2, <1>8 DEF PageInv, Exact

(* The initial state satisfies the invariant. *)
LEMMA InitInv == Init => VmInv
<1> SUFFICES ASSUME Init PROVE VmInv OBVIOUS
<1> USE Constants, NoPageIsNone, FirstPage
<1>1. 1 \in Pages /\ 2 \in Pages /\ 3 \in Pages /\ 4 \in Pages /\ 5 \in Pages BY DEF Pages
<1>2. DOMAIN space = {2} /\ space[2].tab \in TabSet /\ space[2].map \in MapSet
      /\ DOMAIN space[2].tab = {0, KTable} /\ DOMAIN space[2].map = {0}
      /\ space = [x \in {2} |-> [tab |-> space[2].tab, map |-> space[2].map]]
  <2>1. PICK R, S : R = 0 .. KTable /\ S = 0 .. Vpn(KERNBASE) /\ 0 \in R /\ KTable \in R /\ 0 \in S BY FirstPage
  <2>2. TabSet = Partial(R, Pages) /\ MapSet = Partial(S, Entries) BY <2>1 DEF TabSet, MapSet
  <2>3. PICK f, m : /\ f = [i \in {0, KTable} |-> IF i = KTable THEN 3 ELSE 4]
                    /\ m = [v \in {0} |-> [page |-> 5, user |-> TRUE]]
    OBVIOUS
  <2>4. f \in [DOMAIN f -> Pages] /\ DOMAIN f = {0, KTable} BY <1>1, <2>3
  <2>5. m \in [DOMAIN m -> Entries] /\ DOMAIN m = {0} BY <1>1, <2>3 DEF Entries
  <2>6. f \in TabSet
    <3>1. DOMAIN f \subseteq R BY <2>1, <2>4
    <3> QED BY <2>2, <2>4, <3>1, PartialFun, Zenon
  <2>7. m \in MapSet
    <3>1. DOMAIN m \subseteq S BY <2>1, <2>5
    <3> QED BY <2>2, <2>5, <3>1, PartialFun, Zenon
  <2>8. space = [x \in {2} |-> [tab |-> f, map |-> m]] BY <2>3 DEF Init
  <2>9. DOMAIN space = {2} /\ space[2].tab = f /\ space[2].map = m BY <2>8
  <2> QED BY <2>4, <2>5, <2>6, <2>7, <2>8, <2>9
<1>3. SpaceOK
  <2>1. [tab |-> space[2].tab, map |-> space[2].map] \in Spaces BY <1>2 DEF Spaces, TabSet, MapSet
  <2> QED BY <1>1, <1>2, <2>1 DEF SpaceOK
<1>4. VmTypeOK
  <2>1. proc \in [Procs -> [state : {"UNUSED", "EMBRYO", "LIVE", "ZOMBIE"}, kstack : MaybePage,
                            pgdir : MaybePage, sz : Nat]]
    BY <1>1 DEF Init, Unused, MaybePage
  <2>2. cr3 \in [Procs -> MaybePage] BY <1>1 DEF Init, MaybePage
  <2>3. task \in [Procs -> Calls] BY DEF Init, Calls
  <2>4. freelist \in SUBSET Pages /\ emptied \in SUBSET Procs /\ panic \in BOOLEAN BY DEF Init
  <2> QED BY <1>3, <2>1, <2>2, <2>3, <2>4 DEF VmTypeOK, SpaceOK
<1>5. \A p \in Procs : /\ task[p].op = "none" /\ p \notin emptied /\ Building(p) = NoPage
                       /\ proc[p] = (IF p = 1 THEN [state |-> "LIVE", kstack |-> 1, pgdir |-> 2, sz |-> PGSIZE]
                                     ELSE Unused)
                       /\ cr3[p] = IF p = 1 THEN 2 ELSE NoPage
  BY DEF Init, NoTask, Building
<1>6. DirInv
  <2>1. 1 \in Procs BY DEF Procs
  <2> QED BY <1>2, <1>5, <2>1 DEF DirInv, Unused
<1>7. ASSUME NEW p \in Procs PROVE Own(p)
  <2>1. CASE p = 1
    <3>1. proc[p] = [state |-> "LIVE", kstack |-> 1, pgdir |-> 2, sz |-> PGSIZE] /\ cr3[p] = 2 BY <1>5, <2>1
    <3>2. proc[p].state = "LIVE" /\ proc[p].kstack = 1 /\ proc[p].pgdir = 2 /\ proc[p].sz = PGSIZE BY <3>1
    <3>3. ProcInv(p)
      <4>1. /\ proc[p].kstack # NoPage /\ proc[p].pgdir # NoPage /\ cr3[p] = proc[p].pgdir
            /\ proc[p].sz < KERNBASE
        BY <1>1, <3>1, <3>2
      <4>2. task[p].op = "none" /\ p \notin emptied BY <1>5
      <4> QED BY <3>2, <4>1, <4>2, ZenonT(60) DEF ProcInv
    <3>4. ImageInv(p) BY <1>2, <1>5, <3>2 DEF ImageInv
    <3> QED BY <1>5, <3>3, <3>4 DEF Own
  <2>2. CASE p # 1
    <3>1. proc[p] = Unused BY <1>5, <2>2
    <3>2. proc[p].state = "UNUSED" /\ proc[p].kstack = NoPage /\ proc[p].pgdir = NoPage BY <3>1 DEF Unused
    <3>3. ProcInv(p) BY <1>5, <3>2 DEF ProcInv
    <3>4. ImageInv(p) BY <3>2 DEF ImageInv
    <3> QED BY <1>5, <3>3, <3>4 DEF Own
  <2> QED BY <2>1, <2>2
<1>8. ChildInv BY <1>5 DEF ChildInv
<1>9. \A d \in DOMAIN space : Tabled(space[d]) BY <1>2 DEF Tabled
<1>10. panic => emptied # {} BY DEF Init
<1> QED BY <1>4, <1>6, <1>7, <1>8, <1>9, <1>10, InitPages DEF VmInv

(* Types: a directory maps its pages by tables of its own, and the calls *)
(* of fork(), exec() and sbrk() are the ones of the code.                  *)
THEOREM VmTypes == Spec => []VmTypeOK
<1>1. VmInv => VmTypeOK BY DEF VmInv
<1> QED BY <1>1, InitInv, StepInv, PTL DEF Spec

(* Every page is free, a stack, a directory, a page table, mapped once, or *)
(* just allocated: none is lost or used twice, however fork(), exec() and  *)
(* sbrk() of the processes interleave, and wherever they fail.             *)
THEOREM PagesOwned == Spec => []PageOwnership
<1>1. VmInv => PageOwnership BY InvImplies
<1> QED BY <1>1, InitInv, StepInv, PTL DEF Spec

(* A live process has exactly the pages below its size, except after       *)
(* sbrk(-sz), and copyuvm() panics only then.                              *)
THEOREM ImageMatches == Spec => []ImageMatchesSize
<1>1. VmInv => ImageMatchesSize BY InvImplies
<1> QED BY <1>1, InitInv, StepInv, PTL DEF Spec
=============================================================================
