CONSTANTS
    NThreads = 3
    MAXOPBLOCKS = 1
    NHome = 3
    Values = {0, 1}
SPECIFICATION Spec
INVARIANT LogFits
