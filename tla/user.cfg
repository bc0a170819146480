CONSTANTS
    Lines <- SomeLines
    MAXARGS = 3
    NProc = 5
    HeaderBytes = 2
    MoreUnits = 4
    PageUnits = 4
    Low = 4
    HeapLimit = 14
    UWord = 64
    Requests = {1, 5, 7, 35, 60, 62, 63}
    MemSize = 5
    MaxLength = 3
    Events = 4
    MaxText = 4
    BufSize = 4
    HeadLines = 1
    BSIZE = 2
    NDIRECT = 1
    NINDIRECT = 2
    NBLOCKS = 5
    Inodes = {i1, i2}
    Root = i1
    RootData <- RootEntries
    Payloads <- Tagged
    UINT = 16
    Counts = {3, 15}
    NProcs = 2
    PIPESIZE = 2
    Wrap = 4
    Bytes = {0, 1}
    Junk = 1
    MaxN = 2
SPECIFICATION UserSpec
INVARIANTS ParserMatchesGrammar ProgramsPlumbed HeapSound MatchesReference FilterOutput BlocksExact PipeLifetime NoForgottenSleeper
PROPERTIES LineEnds FileRefinement FifoRefinement
CHECK_DEADLOCK FALSE
