SPECIFICATION MCRdsSpec
CONSTANTS
    Procs = {p, q}
    RDSPROC = RDSPROC
    Blocks = {1, 2}
    Data = {x, y}
    None = None
    Garbage = Garbage
    Unused = 0
    Uses <- OneShared
    RD_BUFFS = 2
    RD_RETRIES = 2
    Late = FALSE
    MaxCalls = 5
    MaxLost = 1
INVARIANTS
    RdsTypeOK
    BuffersAvailable
    NoWriteLost
PROPERTIES
    ActsAsDisk
    RequestsServed
CHECK_DEADLOCK FALSE
