CONSTANTS
    NProcs = 2
    NBUF = 2
    Blocks = {b1, b2, b3}
    Values = {0, 1}
    MaxPinned = 1
SPECIFICATION Spec
INVARIANTS BuffersSuffice RequestsMatch
PROPERTIES IoCompletes StoreRefinement
