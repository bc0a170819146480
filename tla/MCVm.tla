------------------------------- MODULE MCVm -------------------------------
EXTENDS Vm

Seg1(v, fs, ms, c) == [vaddr |-> v, filesz |-> fs, memsz |-> ms, complete |-> c]
SomePrograms == {
    [segs |-> <<Seg1(0, 1, 1, TRUE)>>, args |-> 1],                       \* a program
    [segs |-> <<Seg1(0, 1, 1, TRUE), Seg1(0, 0, 0, TRUE)>>, args |-> 3],  \* too many arguments
    [segs |-> <<Seg1(0, 0, 0, TRUE)>>, args |-> 1],                       \* empty
    [segs |-> <<Seg1(2, 1, 1, FALSE)>>, args |-> 1],                      \* truncated file
    [segs |-> <<Seg1(4, 2, 1, TRUE)>>, args |-> 1]}                       \* memsz < filesz
SomeAmounts == {1, 4, -1, -9}
=============================================================================
