------------------------------- MODULE MCUser -------------------------------
(* The shell, the heap, the library functions, the filters, the block map  *)
(* and a pipe: components that do not interact, each explored from initial *)
(* states of its own while the others rest.                                *)
EXTENDS Shell, Heap, Lib, Filters, Blocks, Pipe

VARIABLE active

Tokens == {"a", "|", ";", "&", "(", ")", "<", ">"}
SomeLines == UNION {[1 .. n -> Tokens] : n \in 0 .. 4} \cup {
    <<"a", "|", "a", "|", "a">>,
    <<"(", "a", ";", "a", ")", "|", "a">>,
    <<"(", "a", "&", ")", "|", "a">>,
    <<"a", "<", "a", "|", "a", ">", "a">>,
    <<"a", "|", "(", "a", "|", "a", ")", ";", "a">>,
    <<"(", "a", "|", "a", ")", "&", ";", "a", "|", "a">>,
    <<"a", ">", "a", ">>", "a">>,
    <<"(", "a", "|", "a", ")", "<", "a">>}

(* Every byte tells the file, the place and the length of the write it     *)
(* comes from.  The root directory is written one byte at a time, and its  *)
(* first entry stays.                                                      *)
Tagged(i, off) ==
    {[k \in 1 .. n |-> <<i, off + k, n>>] : n \in IF i # Root THEN {1, 3} ELSE IF off > 0 THEN {1} ELSE {}}
RootEntries == << <<Root, 1, 0>> >>

ShellRests ==
    /\ line = <<>> /\ tree = Nothing /\ shell = "done"
    /\ procs = [p \in Slots |-> IF p = Main THEN [does |-> "main"] ELSE NoProc]
LibRests == lib = [f |-> "none"]
FiltersRest == prog = "none" /\ text = <<>> /\ pos = 0 /\ st = Start /\ out = <<>> /\ ended = FALSE

BlocksRest ==
    /\ used = {} /\ disk = EmptyDisk.disk /\ result = NoRead /\ outOfBlocks = FALSE
    /\ inode = [i \in Inodes |-> [size |-> 0, addrs |-> EmptyDisk.addrs]]

UserInit ==
    \/ active = "shell"   /\ ShellInit  /\ HeapInit /\ LibRests /\ FiltersRest /\ BlocksRest /\ Init
    \/ active = "heap"    /\ ShellRests /\ HeapInit /\ LibRests /\ FiltersRest /\ BlocksRest /\ Init
    \/ active = "lib"     /\ ShellRests /\ HeapInit /\ LibInit  /\ FiltersRest /\ BlocksRest /\ Init
    \/ active = "filters" /\ ShellRests /\ HeapInit /\ LibRests /\ FiltersInit /\ BlocksRest /\ Init
    \/ active = "blocks"  /\ ShellRests /\ HeapInit /\ LibRests /\ FiltersRest /\ BlocksInit /\ Init
    \/ active = "pipe"    /\ ShellRests /\ HeapInit /\ LibRests /\ FiltersRest /\ BlocksRest /\ Init

UserNext ==
    \/ active = "shell"   /\ ShellNext   /\ UNCHANGED <<active, hvars, lib, filtvars, bvars, vars>>
    \/ active = "heap"    /\ HeapNext    /\ UNCHANGED <<active, svars, lib, filtvars, bvars, vars>>
    \/ active = "filters" /\ FiltersNext /\ UNCHANGED <<active, svars, hvars, lib, bvars, vars>>
    \/ active = "blocks"  /\ BlocksNext  /\ UNCHANGED <<active, svars, hvars, lib, filtvars, vars>>
    \/ active = "pipe"    /\ Next        /\ UNCHANGED <<active, svars, hvars, lib, filtvars, bvars>>

uservars == <<active, svars, hvars, lib, filtvars, bvars, vars>>

(* The shell's processes are run as long as one of them can run: the       *)
(* kernel's scheduler never idles while a process is RUNNABLE.             *)
ShellRuns == active = "shell" /\ ShellNext /\ UNCHANGED <<active, hvars, lib, filtvars, bvars, vars>>

UserSpec == UserInit /\ [][UserNext]_uservars /\ WF_uservars(ShellRuns)
=============================================================================
