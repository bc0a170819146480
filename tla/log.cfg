CONSTANTS
    NThreads = 3
    MAXOPBLOCKS = 2
    NHome = 2
    Values = {0, 1}
SPECIFICATION Spec
INVARIANTS AdmissionSafe QuietIsDurable NoForgottenWaiter
PROPERTIES CrashAtomicity
