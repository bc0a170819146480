# Verification of the FCFS and priority xv6 kernels

The repository holds two copies of xv6, a small Unix-like kernel for x86
multiprocessors: `src/fcfs`, whose scheduler runs the RUNNABLE process with the
lowest creation time, and `src/priority`, whose scheduler runs the one with the
numerically lowest priority and which adds the system call `custmpro`. The two
copies differ in `proc.c`, `proc.h`, `defs.h`, `syscall.c`, `syscall.h`, `sysproc.c`,
`pstat.h`, `user.h` and a few user programs (`aba.c`, `h2.c`, `h3.c`, `h10.c`,
`head1.c`, `test.c`, `testp.c`); all other files are the same text in both. This
directory models kernel, library and the larger user programs in TLA+,
model-checks them with TLC, and proves with TLAPS the safety properties of process
table, schedulers, log, buffer cache, disk driver, pipes, console, and of pages and
address spaces.

Where a file is the same in both copies, the map in `PROJECT.json` points whole
operations at `src/fcfs` and the helper operators they are built from at the
same lines of `src/priority`.

## Inventory

| Component | State | Operations | Hard behaviour | What makes it correct |
|---|---|---|---|---|
| Process table (`proc.c`, `sysproc.c`) | `ptable`, `nextpid`, `ptable.lock`, `cpu->proc` | fork, exit, wait, procstat, sleep, wakeup, kill, ps, yield | locks handed over across `swtch`; slots initialised and given back without the lock; zombies running on the stack their parent frees; check-then-sleep | a process on one CPU at most; no stack or page table in use is freed; no lost wakeup; every process collectable and collected once |
| Schedulers (`scheduler()`) | the position and choice of the loops over the table | a turn of a loop, dispatch, return | slots are filled and priorities set beside the scan; table changes while a process runs | the promised order; no starvation of the oldest |
| Trap and timer (`trap.c`) | `ticks`, `tickslock` | tick, preemption, killed checks | interrupts anywhere in kernel code with interrupts enabled | no lost tick |
| Log (`log.c`) | disk header and data blocks, `struct log` | begin_op, log_write, end_op, commit, recovery | crash between any two disk writes, recovery included; admission; group commit | atomic operations across crashes; log space |
| Buffer cache (`bio.c`), sleeplocks, disk driver (`ide.c`) | MRU list, `refcnt`, flags; request queue | bget, bread, bwrite, brelse; iderw, ideintr | the last buffers, release in two critical sections, queue order, interrupts | one buffer per block; the last content is seen; every request completes |
| Inodes and directories (`fs.c`), files and calls (`file.c`, `sysfile.c`) | inode cache, on-disk inodes, `ftable`, descriptors | ialloc, iget, ilock, iput, namex; link, unlink, open, mkdir, mknod, chdir, read, write, close, dup, fstat | reference and link counts under different locks; undo paths; several inode locks | no inode with a name freed; exact counts; cache and disk agree; all changes inside transactions |
| Block map (`fs.c`), image (`mkfs.c`) | bitmap, `addrs`, indirect blocks | balloc, bfree, bmap, readi, writei, itrunc | reuse of freed blocks; largest file; unsigned offsets | a file is a string of bytes; no block shared or lost |
| Pipes (`pipe.c`) | ring of 512 bytes, open flags | pipewrite, piperead, pipeclose | wakeups against close and kill | FIFO, nobody sleeps for ever |
| Memory (`kalloc.c`, `vm.c`, `exec.c`) | free list, page tables, `sz` | kalloc, copyuvm, allocuvm, deallocuvm, exec, growproc | failure half-way; unsigned sizes | no page leaked or shared; the pages `sz` says |
| Console and spinlocks (`console.c`, `kbd.c`, `spinlock.c`) | input ring r, w, e; lock, `ncli`, `intena` | consoleintr, consoleread, consolewrite; acquire, release | interrupt handler against the process it interrupted and against readers | exclusion; no self-deadlock; no character lost or read twice |
| Shell (`sh.c`) | command tree, descriptors of its processes | parse, fork, dup, close, exec, wait | a pipe end left open anywhere stops a pipeline | the language it accepts; programs connected as written; every line ends |
| User library and filters (`umalloc.c`, `ulib.c`, `printf.c`, `cat.c`, `wc.c`, `head.c`, `grep.c`, uniq) | free list; buffers | malloc, free; string and number functions; one text | long sequences of malloc and free; texts split anywhere between reads | no overlap or loss; the result does not depend on the split |
| Boot, interrupt controllers, ports, display | - | - | hardware set-up and output | not modelled |

Components interact by direct calls in the kernel: everything that waits calls
`sleep()` and everything that frees it calls `wakeup()` (both in `proc.c`); the file
system calls run between `begin_op()` and `end_op()`; the schedulers and the
processes share `ptable` and switch to each other with `ptable.lock` held.

## Modules

| Module | Models |
|---|---|
| `Proc` | process table, trap paths, timer; everything but the scheduler's choice |
| `FcfsSched`, `PrioritySched` | the two kernels: `Proc` with the scheduler of each, and `custmpro` |
| `ProcTree` | abstract: what fork, exit and wait promise, over pids |
| `Log` | the write-ahead log with crashes and recovery |
| `LogSpec` | abstract: atomic group commit |
| `Pipe` | a pipe, its two files and the processes that share it |
| `Fifo` | abstract: a bounded queue of bytes |
| `Disk` | buffer cache, sleeplocks and disk driver with its interrupt |
| `BlockStore` | abstract: a store of blocks, each had by one process at a time |
| `Files` | inodes, directories, path names, open files and the calls of `sysfile.c` |
| `UserTests` | the clients of `Files`: tests of `usertests.c`, `stressfs.c`, `init.c` with the results they expect, and one that makes any calls |
| `Blocks` | files on disk blocks, from the image of `mkfs.c` |
| `ByteFiles` | abstract: files as strings of bytes |
| `Vm` | pages and address spaces through fork, exec, sbrk, exit and wait |
| `Console` | input ring and spinlock, one memory access at a time, under an interrupt handler |
| `Terminal` | abstract: a terminal's lines |
| `Shell` | the parser and the processes of a command line |
| `Heap` | malloc and free |
| `Lib` | string functions, printint, atoi, grep's matcher, checks of user pointers, keyboard decoder |
| `Filters` | cat, wc, head, grep, and uniq as `sys_uniq1` does it |
| `ProcProofs` | theorems about the process table and the two schedulers |
| `FilesProofs` | theorems about `Files` under any clients, and under those of `UserTests` |
| `LogProofs`, `DiskProofs`, `PipeProofs`, `ConsoleProofs`, `VmProofs` | theorems about the module of that name |
| `Modulo` | lemmas on remainders |
| `MC...` | the modules the TLC configurations run |

`Bug...` operators are plausible slips (a dropped lock, a missing wakeup, an
off-by-one). No specification uses them; each property is tested by substituting
one of them for the definition it distorts.

### Proc and the kernels

One variable per field of `struct proc` (functions over the slots), `cproc` for
`cpu->proc`, `ptlock` and `tickslock` for the CPU holding the lock, `isr` for the
progress of CPU 0's timer interrupt, and per kernel thread a location `pc`, fork's
`np` and an argument. A critical section of `ptable.lock` that does not cross a
`swtch` is one step. One that does ends its step with `ptlock` held by the CPU;
`SchedReturn` (the scheduler) or `YieldReturn`, `forkret`, `WokenUp`, `Wait`,
`Procstat` (the process) go on from there. `fork` is four steps: the slot is taken
under the lock, stack and page table are made without it, each may fail, and the
slot is published under the lock. `scheduler()` is its loops, one slot a step with
`ptable.lock` held (`ScanSlot`; `OuterLoop` and `InnerLoop` in the other kernel), so that
what other CPUs do without that lock falls between the turns. `sys_sleep` keeps `tickslock` from its test of
`ticks` to `sleep()`, and interrupts are off on a CPU that holds a lock.
User code may make any call, fault or be interrupted at any time.

Left out of `Proc`: file descriptors, the current directory and memory size
(`Files` and `Vm` have them), so `exit`'s closing of files and its file-system
transaction are not part of `Exit`; `procdump` and the printing of `ps`; other
sleepers than those on `&ticks` and in `wait`/`procstat`; that `ps` prints, and so takes
`cons.lock`, with `ptable.lock` held, while the console's reader and handler take the two
the other way round (no order of locks is modelled). `allocproc` in
`userinit` and the boot code are in `Init`.

`PrioritySched` extends two steps of fork: `Custmpro` remembers its argument and
`CopyProc` assigns it, where plain fork leaves the slot's old priority.
`sys_custmpro` ignores a failing `argint`; the argument is then any integer, and
the negative ones are rejected, so `Priorities` stands for that case too.
`scan` is the outer loop's position, which skips slots that are not RUNNABLE in one step;
`p1` is the inner loop's, and `p = highP` moves the outer one.

### Log

Blocks are numbered from `log.start`: header, `log.size - 1` data blocks, then the
file system's blocks, as `mkfs` lays them out. Every disk write is one step. `Crash`
keeps the disk and resets the rest, and the first process then runs
`recover_from_log` alone. `Modify` is the caller's change of the buffer with
`log_write`'s unlocked checks, `log_write` the part under `log.lock`. A buffer that is
neither dirty nor locked may be recycled at any time; `Disk` has what else `bio.c`
does. External: the disk writes a block entirely or not at all. `NoForgottenWaiter` says at each
step that whoever waits in begin_op will be woken by somebody; that this
somebody gets to its end is not promised: the schedulers never age, and operations can
deadlock (`files_deadlock`).

### Pipe

One page that is a pipe or free, `ref` of the files of its ends, and per process
the ends it has a descriptor for. What happens under `p->lock` is one step, up to a
sleep: a writer copies what fits and is done, gives up or blocks. Since `kill()` does
not take `p->lock`, a process that decided to sleep (`towrite`, `toread`) holds the lock
for one more step, and a kill in between only marks it. A close is `fileclose`'s
critical section, then `pipeclose`, then `kfree`; `exit` closes all descriptors and
`sys_pipe` both files when no descriptor is left (`FdAllocFails`). Of `fork`, `exit`, `kill`
and `sleep` only what concerns the pipe is here; `Proc` has the rest. `got` shows
the bytes a read copied in the step that copied them, and `stranded` remembers that bytes were
put in beside a sleeping reader and not announced (`pipe.c:88`), until the pipe is read empty or the
next announcement. Left out: `dup`, a `pipealloc`
that fails (it undoes what it did before anybody sees it), and several pipes, which
share nothing but the tables they are allocated from.

### Disk

One record per `struct buf`, the MRU list as a sequence, the request queue, the
command the disk executes and whether its interrupt is pending. What `bcache.lock`,
`idelock` or a sleeplock's own lock protects is one step; between the steps a
process is at a location such as `acq` (between `bget` and `acquiresleep`), `rsleep` (asleep
in `iderw`) or `rel` (its sleeplock is free, its reference not yet given back).
A process has at most one buffer; `Pin` is what `log_write` does to one, and its
buffers stay dirty up to `MaxPinned`. External: the disk does one command at
a time and makes no errors. On an error `ide.c:118` would skip the data and still
mark the buffer valid, which nothing above it could notice; nor are there spurious interrupts
(`ide.c:111`). The second disk and the
ports are left out; `memide.c` replaces `ide.c` only in a kernel this repository's
makefile can also build.

### Files and UserTests

`dinode` is what is on disk, `inode` the cache with `ref`, lock, valid flag and copy,
`file` and `ofile` the two tables of open files. A process in a system call has an
agenda `todo[p]`: one item for each stretch of code that runs without waiting. An item
takes at most one inode lock, at its start, so a process waits only in front of an
item; a stretch that returns with the lock held says so in `lock`. `reg[p]` holds
the locals that live from one stretch to the next. `iput` is up to four items,
as in the code: lock and look, free the content, unlock, lower `ref`. `op` is
who is inside a log operation; `begin_op` admits `MaxOps`. A directory is a function from
names to inode numbers and a file a sequence of numbers; a path name is its elements,
each cut to `DIRSIZ` when it is looked up. The panics of `iget`, `ilock`, `ialloc` and
`sys_unlink` are steps that stop everything. Left out: `read()` of a directory as bytes, and
major and minor numbers.

`UserTests` translates each test to a script of calls with the result the test
insists on; loops are cut to two or three turns, four processes to two, buffers
to one or two numbers. The client `any` runs two processes that share a file and make
any `MaxCalls` calls of `Calls`.

### Blocks

Each call runs under the inode's lock and inside one transaction (`Files`, `Log`), so
it is one step. A block holds bytes and, read as an indirect block, block numbers. What is written is a
string, and `Payloads` says which strings: in the run each byte names the file, the
place and the length of its write, so that a byte at the wrong place, of the wrong file or of
an earlier life of its block differs from the one expected.
`readi` and `writei` check their offsets on unsigned integers. `balloc` panics on a full
disk; the model stops there.

### Vm

An address space is known by the page of its directory, as in the code; it has
page tables and mapped pages. Each `kalloc` is a step of its own, since processes compete
for the last pages, and every one may fail. fork, exec and sbrk go through
stages; giving pages back is one step. Addresses are small numbers, sums wrap at
`WORD`. Left out: what pages hold, the kernel's own mappings (one page table stands
for them) and the TLB: a process that gave up all its pages with `sbrk(-sz)` has
no memory to run in, and the model lets it only fork or exit.

### Console

Process p runs on CPU p, and context 0 is the handler on top of process 1
(`ioapicenable(.., 0)` routes both interrupts to the first CPU). `acquire` and `release` are
steps per memory access: pushcli, xchg, owner; owner, unlock, popcli. The handler
takes keys with the lock held and calls `procdump` after it. Left out: what is displayed.

### Shell, Heap, Lib, Filters

`Shell` parses by recursive descent over tokens, as `parseline` and the functions
below it do, and runs the tree with processes that have descriptor tables. fork
fails when the table is full, pipe() may fail, and the file of a redirection may not open. A
program reads its input to the end and exits; a pipe is at its end when no process
has a writing end. Words are all alike. Left out: characters, `cd`, the memory of the
tree. `Heap` counts memory in headers; the argument of `sbrk` is the product wrapped and converted to
an int as at `umalloc.c:54`, and where this gives malloc memory that the process does not have, or
takes away what it had, `fate` says so and the run of the program ends. `Lib` compares each loop of the library
with what it is to compute, on all small inputs. `Filters` lets each `read()` return any
part of the text. Left out: `uniq -c` (see below) and `sys_head1`, which has head's loop.

## Runs

Passing:

| Run | Instance | Shows |
|---|---|---|
| `fcfs` | 3 slots, 2 CPUs, 1 tick, pids to 3, kill of 0 and 2, sleep 1 | `OneCpuPerProcess`, `StackSafe`, `SchedAssertions`, `NoLostTick`, `FamilyTree`, `DispatchOldest` |
| `fcfs_live` | 3 slots, 1 CPU, 2 ticks, kill of 2, fair | `InitRuns`, `SleepEnds` |
| `prio` | 3 slots, 2 CPUs, no ticks, priority 1 for custmpro | `NoLostExit`, `DispatchBest`, `TreeRefinement` (the table implements `ProcTree`) |
| `log` | 3 threads, 2 blocks an operation, 2 blocks, 2 contents | `AdmissionSafe`, `QuietIsDurable`, `NoForgottenWaiter`, `CrashAtomicity` (implements `LogSpec`) |
| `disk` | 2 processes, 2 buffers, 3 blocks, 2 contents, 1 pinned, fair | `BuffersSuffice`, `RequestsMatch`, `IoCompletes`, `StoreRefinement` (implements `BlockStore`) |
| `files` | 3 processes, 8 inodes, 5 cache entries, 4 files, 3 descriptors, files of 6; 25 tests, and 12 calls made 3 times by 2 processes | `RefsExact`, `NamesHaveLinks`, `WriteThrough`, `ExpectedResults`, `InsideOperation` |
| `vm` | 2 processes, 12 pages of 2 bytes, 2 entries a table, 5 programs, sbrk of 1, 4, -1, -9 | `PageOwnership`, `ImageMatchesSize` |
| `console` | 2 CPUs, ring of 2, indices wrapping at 4, reads of 1 and 2 | `LockDiscipline`, `NoReaderLeftBehind`, `TerminalRefinement` (implements `Terminal`) |
| `user` | every line of up to 4 tokens and 8 longer ones, 5 processes; a heap of 10 units above 4 of the program, requests up to those that wrap; strings of up to 3, texts of up to 4 characters; files of 3 blocks of 2 bytes on a disk of 5, each byte tagged with file, place and length of its write; 2 processes on a pipe of 2 bytes, counters wrapping at 4, reads and writes of 0 to 2 bytes of 2 values | `ParserMatchesGrammar`, `ProgramsPlumbed`, `LineEnds`; `HeapSound`; `MatchesReference`; `FilterOutput`; `BlocksExact`, `FileRefinement` (implements `ByteFiles`); `PipeLifetime`, `NoForgottenSleeper`, `FifoRefinement` (implements `Fifo`) |

`MCUser` runs six components that do not interact, one at a time: `active` says which,
and the others rest.

Violations, each a disagreement of the code with its own comments:

| Run | Disagreement |
|---|---|
| `log_full` | "max data blocks in on-disk log" (`param.h:11`) of LOGSIZE: the log on disk has one fewer, and `log_write` tests for it before it takes `log.lock`; three operations of one block each pass the test and log one block too many (3 threads, 1 block an operation, 3 blocks) |
| `files_deadlock` | "another concurrent link/unlink/create test, to look for deadlocks." (`usertests.c:855`): `create()` gives up the directory in `iunlockput(dp)`, and its `iput` takes the lock again while the new inode is still locked; `unlink()` of the new name has the directory and waits for the inode. Both are inside an operation, so the log stops too. The safety properties of `files` hold in these states as well |
| `files_orphan` | "Number of links to inode in file system" (`fs.h:33`): a removed directory that is still somebody's current directory keeps its `..`, and when its parent is removed too, `..` names a free inode. If `ialloc` has given it to a new file, `link("..", new)` counts its link before `create` has locked the inode and sets `nlink = 1` (`sysfile.c:266`): the file has two names and one link |

### Other behaviour found while modelling

The models have these; the first group are disagreements with a comment or a doc
and are listed as findings.

* `iput` (`fs.c:337`) reads `ref` in one critical section and lowers it in another: two
  processes that drop the last two references of an unlinked inode may both see 2, and
  nobody frees it. `RefsExact` and `NamesHaveLinks` hold; the inode is lost until mkfs.
* The removed directory of `files_orphan` also makes `ilock` panic when nobody has allocated the
  inode `..` names (`fs.c:310`). No test of `usertests.c` goes there, and
  `RefsExact` and `WriteThrough` hold of such clients too, as is proved.
* Ties of creation time within a tick go to the lower slot, which may hold the younger
  process (`proc.c:434`); `ps()` overwrites the end time of zombies (`proc.c:662`).
* A killed writer that has filled the pipe returns without waking readers (`pipe.c:88`):
  a reader stays asleep on a full pipe. `NoForgottenSleeper` allows this case and no other.
* `growproc(-sz)` frees all pages, returns -1 and keeps `sz` (`proc.c:173`); fork then panics.
* `grep` drops the beginning of a line that fills a read without a newline (`grep.c:29`).
* The calls of the kernel's uniq and head are not in the table (`syscall.c:153`).

The second group contradicts no text of the repository:

* `kill` compares pids without looking at the state, so `kill(0)` marks an UNUSED slot,
  and the next process born there is killed at its first system call.
* `link(f, ".")` waits for a lock its own process has: `dirlink` finds "." in the directory it
  has locked and calls `iput` on that directory (`fs.c:559`).
* `malloc` of nearly 2^32 bytes wraps and returns a block that is too small (`umalloc.c:69`); of
  2^31 bytes or more, `sbrk` gets 0 or a negative number (`umalloc.c:54`) and `malloc` returns
  memory that is not there, or takes away some that was. `HeapSound` leaves out both.
* `fork` assigns no priority: the child has that of the process that used its slot before (`priority/proc.c:203`).
* A kill between `consoleread`'s test of `killed` and its sleep (`console.c:251`) is noticed at the next line only.
* Redirections nest outwards: of `a > x > y` the file y is opened first and x is
  the one written; `>>` does what `>` does (`sh.c:386`).
* Releasing one of two shift keys clears SHIFT (`kbd.c:26`).
* mkfs adds a whole block to a root directory that ends at a block boundary (`mkfs.c:161`).
* `uniq -c` prints each count beside the next line and never the last group
  (`sysproc.c:79`); `sys_uniq1` writes one byte past its line buffer when one line
  fills all of it (`sysproc.c:36`); `uniq1.c` with one argument reads an uninitialised flag.

### Bounds

`NPROC`, `NCPU`: three slots give init and two children; two CPUs give the races.
`MaxTicks`: the counter saturates, interrupts go on. `MaxPid` bounds fork. The argument
sets (`SleepTimes`, `KillPids`, `StatPids`, `Priorities`) are what user code passes; 0 is the
pid of an UNUSED slot. `MAXOPBLOCKS` 2 makes operations of several blocks, and three
threads make begin_op wait for space. `PIPESIZE` 2 with writes of 2 makes writers
block in the middle of a write, and `Wrap` 4 makes the counters wrap often, here
and in the console. `NBUF` 2 with one pinned buffer makes two processes compete
for one buffer, and `bget`'s panic happen. `NINODE`, `NFILE` and `NOFILE` are so small that the
tables fill up in some tests; `MaxCalls` 3 after a common open is enough for unlink,
last close and reuse of an inode by another process. With 12 pages each allocation
of fork, exec and sbrk fails in some execution. `HeapLimit` makes sbrk fail; the request of 63 bytes wraps the unsigned size
(its block is exempt from the size condition of `HeapSound`), those of 60 and 62 the product in `morecore`, and the
one of 35 arrives at sbrk as a negative number. `NINDIRECT` 2 on 5 blocks makes
the disk fill up while a file uses its indirect block; a count of 15 wraps the
unsigned offset.

Deadlock checking is off where processes may all have ended (`files`, `user`), and in
`files_deadlock`, whose property states the deadlock. Elsewhere it is on: an idle CPU keeps
looping, a panicked one keeps spinning, the log's machine can always crash, and
the console's handler can always be called.

### Fairness

`fcfs_live`: a CPU that holds `ptable.lock` goes on, with the scheduler's scan too (weak); timer
interrupts keep arriving, and a CPU that spins on a lock which is free again and
again gets it (strong). The x86 `xchg` loop does not guarantee the latter in theory;
the checked instance has one CPU, where a free lock is never contended. Nothing
is assumed of user code.
`disk`: the disk finishes its command and its interrupt is taken (both weak); nothing is
assumed of processes, since neither scheduler ages, so `IoCompletes` promises that a sleeper is woken
with its request done, not that it runs. `log` has no fairness and no liveness property. `user`: the processes of a
line run as long as one of them can (weak, of all together): the schedulers never
idle beside a RUNNABLE process, and every process of a line ends.

## Proofs

The theorems hold for every value of the constants that satisfies the named
assumptions of the modules: any number of slots, CPUs, threads, processes, buffers,
blocks, pages, programs and byte values, any size of a page, a page table or a ring and any multiple of it at which its
counters wrap. Each proof module states an inductive invariant as a conjunction of named
parts, shows that `Init` implies it and that each action preserves it (a lemma
per action or group of like actions), and derives the properties of the runs
from it. TLC has checked each of these invariants on the instance of its
component's run before it was proved.

| Module | Invariant | Theorems |
|---|---|---|
| `ProcProofs` | `Inv`, `FInv`, `PInv`, `TreeInv` | `TypeOK`/`PTypeOK`, `OneCpuPerProcess`, `StackSafe`, `SchedAssertions`, `FamilyTree`, `SlotsAndPids`, `NoLostTick`, `NoLostExit` of both kernels; `DispatchOldest`, `DispatchBest` of every step; `TreeRefinement` of both kernels |
| `LogProofs` | `LogInv`, `CopiedInv` | `AdmissionSafe`, `QuietIsDurable`, `NoForgottenWaiter`; `CrashAtomicity` as long as `LogFits` |
| `DiskProofs` | `DiskInv` | `BuffersSuffice`, `RequestsMatch`, `StoreRefinement` |
| `PipeProofs` | `PipeInv` | `PipeLifetime`, `NoForgottenSleeper`, `FifoRefinement` |
| `ConsoleProofs` | `LockPart`, `ConsoleInv` | `LockDiscipline`, `NoReaderLeftBehind`, `TerminalRefinement` |
| `VmProofs` | `VmInv` | `PageOwnership`, `ImageMatchesSize` |
| `FilesProofs` | `OpInv`, `CacheInv`, `CountInv` | `InsideOperation`, `WriteThrough`, `RefsExact` of any clients, and that the tests are clients (`TestsAreClients`) |
| `Modulo` | - | lemmas on remainders for the two rings |

### Process table

`ProcProofs` proves `Inv` of all steps that the kernels share, adds the schedulers' steps
and concludes for each kernel (assumptions:
`SizeAssumption`, `BoundAssumption`, `ArgAssumption`, `PrioritiesAssumption`).
None of the invariants is inductive alone. `Inv` adds: which locations go with
which states (`PcInv`: a slot without a live process has no thread to resume); who
owns an EMBRYO slot and what of it exists at each step of fork (`ForkInv`); where the
timer interrupt holds `tickslock` (`IsrInv`, `TicksInv`); that a CPU's process is RUNNING
or the CPU holds `ptable.lock` (`CpuInv`, the heart of `OneCpuPerProcess` and, with
`StackSafe`, of the safety of collecting a zombie); parents (`FamilyInv`); pids below
`nextpid` (`PidInv`); and what a sleeper waits for (`TickWaitInv`, `ExitWaitInv`). 

That the dispatched process is the oldest or best is what the scans have established when they
end: `PassInv` says that among the RUNNABLE slots below `cursor` none is older than
`minP`, which is still RUNNABLE, and that there is none below if `minP` is empty; `LoopInv` says the same of `p1` and
`highP`. Both hold only while the CPU has `ptable.lock`; the other steps of the kernel that touch what they speak
of either need that lock or write slots that are EMBRYO, RUNNING or SLEEPING
(`StepBesidePass`, `BesidePassInv`, `BesideLoopInv`). In particular `custmpro()` writes the
priority of a slot only while that is EMBRYO.

`TreeRefinement` needs, besides `Inv`, that init keeps pid 1, that pids in use are positive
and that fork stops at `MaxPid` (`TreeInv`). Most steps are `Quiet`: they move slots only among the
live states and set only the parent of an EMBRYO, which the mapping does not show
(`QuietTree`). What remains is one lemma for each step that the tree sees:
`allocprocTree`, `AbandonTree`, `ForkReadyTree`, `ExitTree`, `ReapTree`. The mapping finds a
parent's pid with a CHOOSE over slots; `SlotsAndPids` makes the slot unique
(`ParentFound`), and since a parent is alive (`FamilyTree`) no process has a zombie as its
parent, so that the pid cleared when one is collected is not the parent of another.

### Log

`AdmissionSafe` needs that `outstanding` counts the open operations (`CountInv`), that a
commit or recovery is one thread's, beside no operation (`AloneInv`), and what begin_op's
reservation says of the blocks written so far (`ReservationHolds`: each open operation
has a set of written blocks, and those that are in `lh` are counted once).
`QuietIsDurable` needs `CacheInv`: a buffer that differs from its block on disk is locked by the
operation that changes it, or dirty and not yet installed. `NoForgottenWaiter` adds that whoever sleeps in
begin_op still could not begin (`WaitInv`), so that an operation is open or a commit under way.
`CrashAtomicity` maps the
file system's state to what recovery would make of the disk; it needs, in addition,
that during a commit the log's data blocks up to `tail` hold what the cache holds, and
during an installation the blocks up to `tail` what the log holds (`CopiedInv`).

`CrashAtomicityHolds` is stated under `[]LogFits`, because without it the last block of a
commit is written over the block behind the log. `LogFits` is not an invariant of the
code: the run `log_full` has three operations that all pass `log_write`'s test
before one takes `log.lock`. In the instance of the run `log` there are two blocks to
log and five places, far from the limit (which `log_full` reaches, and the theorems for every size): so `LogFits` holds there and the refinement is checked without
the condition. The other theorems are unconditional.

### Disk

`DiskInv` has one part per structure: every buffer is in the MRU list (`MruInv`), `refcnt` counts
the processes that have the buffer (`CountInv`), a block is in one buffer at most
(`NameInv`), the sleeplock and what its holder knows of the flags (`LockInv`,
`FlagInv`), the queue holds exactly the buffers somebody waits for (`QueueInv`), the
disk executes the command of the first (`DeviceInv`), and a clean valid buffer has the
disk's content (`CleanInv`). The mapping to `BlockStore` takes the content of a
block from its valid buffer if it has one, and from the disk otherwise; `NameInv` makes this a
function, and `CleanInv` makes reading a block in and evicting it stuttering steps.

### Pipe

`PipeLifetime` needs the exact meaning of `f->ref`: the number of processes that have a
descriptor of the end, are about to install one or are about to drop it (`RefInv`); and
that an end stays open until the one process that dropped the last reference has
closed it, and the page until the one that closed the second end has freed it
(`OpenInv`). `SleepInv` adds that the ring is never overfull, that whoever decided to
sleep holds `p->lock`, and that its reason to sleep lasts (for a reader: the ring is empty, or `stranded`): a pipe that is closed or
freed under a sleeper is excluded because the sleeper has a descriptor. In the refinement a write enters
the bytes that fit (`PartFill`: they come behind the ones that are there and overwrite
none, whatever the counters are), a read takes the first (`PartFirst`,
`PartRest`), `kfree` discards, and every other step takes nothing.

### Console

`LockPart` is the spinlock one memory access at a time: who has the lock (`LockInv`) and what pushcli
and popcli have made of the interrupt flag on each CPU (`CpuInv`), for the processes and
the handler on top of the first. `ConsoleInv` adds the order of the three indices on
the ring (`RingInv`: read, written, edited, at most one turn apart) and that the characters being edited
contain no end of line (`EditInv`). The refinement follows the characters between the
indices through each key and each character read.

### Pages and address spaces

`PageOwnership` counts; the proof instead gives each page a kind (free, stack, directory, just
allocated, page table, mapped), an owner and a place in it, and `PageInv` says that what
the variables hold is exactly that (`Exact`). A step changes the kind of a page or of a set of pages: lemmas such as
`GiveSlot`, `TakeMapped` and `FreeSpace` say so once, of any owner, and the actions
cite them. `DirInv` says that the directories that exist are those of processes and
of a fork or exec under way, so that no two of them ever work on the same address space
(`Others`: a step leaves the address space of a process that takes no part alone).

`ImageMatchesSize` needs what each stage of a call knows: in a loop of `allocuvm` the pages below
its `a` are mapped (`AllocInv`, for sbrk and exec), in `copyuvm` those below its `a` in the copy
(`ForkInv`), between the segments of exec those below its `sz` (`ExecInv`); and that a page
allocated but not yet mapped is still without a table, which is what makes the second
`kalloc` of `walkpgdir` a step of its own. The arithmetic (`NextPage`, `SamePages`, `RoundUp`) rests on
quotient and remainder being unique; that sums of sizes do not pass `WORD` unnoticed is
where `2 * KERNBASE <= WORD` is used. `VmAssumption` also asks for the five pages `userinit`
takes and room for a page and a guard page below KERNBASE.

### Files

`FSpec` lets any number of processes make any system calls with any arguments, fork and
wait, from any file system that `mkfs` makes; `TestsAreClients` shows that the scripts of `UserTests`
and the client `any` are among them (assumption: `ScriptsAssumption`, which TLC
evaluates on every script), so that the other theorems are about the specification
that the runs check.

`InsideOperation` needs to know where a process is in its call. `OpInv` says of each
agenda which item may follow which and which may be the last (`Wf`), and that a process is
in `op` exactly when it has an agenda whose first item is not one of `Outside`. Each action replaces the first item
or the whole agenda by a short list; lemmas such as `OkTwo` and `EndPut` say once that the
result is well formed. The agenda of `exit` is as long as there are open descriptors
(`CloseAll`).

`WriteThrough` follows from `CacheInv`, which asks more: every valid cached inode, locked or not,
referenced or not, is the one on disk, and its type is not free. The second half is what
makes it inductive: `ialloc` writes an inode on disk without looking at the cache, so
no valid cached copy may be left of a free one. Neither invariant needs the locks: a step between two waits
changes cache and disk together.

`RefsExact` speaks of the moments when no call is under way, so it says nothing of a single step; what
holds at every step is `CountInv`:

* `RefInv`: the references to an inode are the current directories, open files, local
  variables (`ip`, `dp`, `old`) and pending `iput()` calls that stand for it, each counted once.
* `LockInv`: the lock of an inode is held by the process whose variables and agenda will
  unlock it, and by no other; nobody unlocks twice.
* `FileInv`: the references to a file are the descriptors for it, over all processes.
* `CallOk`: what a call's variables may hold before its path is looked up, that `exit` still
  has to close exactly the descriptors that are open, each once, and that who has no current directory is no process.

Which variables stand for a reference or a lock depends on where the call is, which the last item of the
agenda says: that is why `OpInv` comes first. The counts are sums over processes; `UsersStep`
and `PairsCount` reduce them to the one process that moves, so that what is left of each action is the
balance of its own variables and agenda before and after (`WeighPush`, `WeighTwo`, ... weigh an agenda by the
references and locks it will give back). When all agendas are empty, only directories and open
files are left, and `CountInv` is `RefsExact` (`CountQuiet`).

### Model-checked only

* Liveness (`InitRuns`, `SleepEnds`, `IoCompletes`, `LineEnds`): fairness and ENABLED are
  out of the prover's reach.
* `NamesHaveLinks` of `Files`, for the tests and for the client that makes three of the twelve calls.
  It is no theorem about `FSpec`, because
  it is false there: see `files_orphan`.
* `ExpectedResults` of `UserTests`: one outcome for each script, which the run of that script shows.
* `Shell`, `Heap`, `Lib`, `Filters` and `Blocks`: what they compute is defined by recursion, and
  the provers have neither recursive operators nor induction over data.

## Not modelled

* Boot code, `main.c`, multiprocessor start-up and the interrupt controllers: they run
  once, before there are processes, and write registers. The models start in
  the state they leave.
* Port protocols of disk, keyboard and serial line, the display, text formatting: no
  state that another part reads.
* `read()` of a directory as bytes (`ls` uses it): a directory is a function here, and
  how its entries lie in blocks is not told apart by any property.
* The small programs (`echo`, `kill`, `ln`, `ls`, `mkdir`, `rm`, `ps`, ...): one or two calls each, which
  the clients of the models make in any order.
* The tests of `usertests.c` about memory, pipes and processes, for the same reason:
  `Vm`, `Pipe` and `Proc` make their calls in any order.
* Starvation under the priority scheduler, and procstat() of a pid that is no child,
  which sleeps until the children are gone: both are what the code plainly does.

## Plan

Done: all modules above, their runs, and the theorems listed. Not begun: the components listed as not modelled.
