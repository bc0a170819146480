CONSTANTS
    NPROC = 3
    NCPU = 2
    MaxTicks = 0
    MaxPid = 3
    SleepTimes <- MCSleepTimes
    KillPids = {2}
    StatPids = {2}
    Priorities = {1}
SPECIFICATION PSpec
INVARIANTS NoLostExit
PROPERTIES DispatchBest TreeRefinement
