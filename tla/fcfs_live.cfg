CONSTANTS
    NPROC = 3
    NCPU = 1
    MaxTicks = 2
    MaxPid = 3
    SleepTimes = {2}
    KillPids = {2}
    StatPids = {}
SPECIFICATION FairSpec
PROPERTIES InitRuns SleepEnds
