CONSTANTS
    NProcs = 2
    NPages = 12
    PGSIZE = 2
    NPTE = 2
    KERNBASE = 8
    WORD = 16
    Programs <- SomePrograms
    Amounts <- SomeAmounts
SPECIFICATION Spec
INVARIANTS PageOwnership ImageMatchesSize
