SPECIFICATION RdsSpec
CONSTANTS
    Procs = {p}
    RDSPROC = RDSPROC
    Blocks = {1, 2}
    Data = {x, y}
    None = None
    Garbage = Garbage
    Unused = 1
    Uses <- AllBlocks
    RD_BUFFS = 2
    RD_RETRIES = 2
    Late = TRUE
    MaxCalls = 3
    MaxLost = 0
PROPERTIES
    ActsAsDisk
CHECK_DEADLOCK FALSE
