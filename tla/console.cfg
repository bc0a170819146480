CONSTANTS
    NCPU = 2
    INPUT_BUF = 2
    Wrap = 4
    Letters = {a}
    NL = nl
    CtrlD = eof
    ReadLengths = {1, 2}
    WriteLengths = {1}
SPECIFICATION Spec
INVARIANTS LockDiscipline NoReaderLeftBehind
PROPERTIES TerminalRefinement
