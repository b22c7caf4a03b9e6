SPECIFICATION LfsSpec
CONSTANTS
    Procs = {p, q}
    Names = {f, g}
    Bytes = {0, 1}
    Writes <- MCWrites
    Reads = {3}
    Nlfl = 2
    LF_BLKSIZ = 2
    LF_IBLEN = 2
    IBPERSECTOR = 7
    IBLKS = 3
    DBLKS = 4
    LF_NUM_DIR_ENT = 2
    Fill = 2
    EOF = EOF
    Closed = Closed
    Polite = TRUE
    MaxSize = 5
    MaxCalls = 6
SYMMETRY Symmetry
INVARIANTS
    LfsTypeOK
    BlocksAccounted
PROPERTIES
    ActsAsFiles
CHECK_DEADLOCK FALSE
