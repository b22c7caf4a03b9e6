SPECIFICATION TtySpec
CONSTANTS
    Procs = {p, q}
    NoProc = NoProc
    TY_IBUFLEN = 3
    TY_OBUFLEN = 1
    TY_EBUFLEN = 2
    UART_FIFO_SIZE = 1
    Keys = {"char", "newline", "erase", "kill", "eof", "stop", "start"}
    Modes = {"raw", "cooked", "cbreak"}
    Counts = {2}
    MaxStored = 4
    MaxControls = 1
    MaxWritten = 2
SYMMETRY ProcSymmetry
INVARIANTS
    InputTokens
    CharactersInOrder
    OutputTokens
CHECK_DEADLOCK FALSE
