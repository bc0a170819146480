CONSTANTS
    NPROC = 3
    NCPU = 2
    MaxTicks = 1
    MaxPid = 3
    SleepTimes = {1}
    KillPids = {0, 2}
    StatPids = {2}
SPECIFICATION Spec
INVARIANTS OneCpuPerProcess StackSafe SchedAssertions NoLostTick FamilyTree
PROPERTIES DispatchOldest
