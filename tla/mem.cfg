SPECIFICATION PoolSpec
CONSTANTS
    Procs = {p, q, r}
    HeapSize = 7
    Requests = {8, 20}
    NBPOOLS = 1
    BufSizes = {8}
    NumBufs = {1, 2}
    MaxLost = 1
SYMMETRY ProcSymmetry
INVARIANTS
    FreeListOK
    NothingTwice
    MemoryAccounted
    BuffersCounted
CHECK_DEADLOCK FALSE
