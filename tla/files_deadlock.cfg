CONSTANTS
    NProcs = 3
    NInodes = 8
    NINODE = 5
    NFILE = 4
    NOFILE = 3
    DIRSIZ = 14
    MAXFILE = 6
    WriteMax = 2
    MaxOps = 2
    Tests <- DeadlockTest
    Calls <- SomeCalls
    MaxCalls = 3
SPECIFICATION TSpec
CHECK_DEADLOCK FALSE
INVARIANT NoDeadlock
