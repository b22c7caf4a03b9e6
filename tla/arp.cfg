SPECIFICATION ArpSpec
CONSTANTS
    Procs = {p, q}
    Addrs = {a, b, c}
    Macs = {m, n}
    None = None
    ARP_SIZ = 2
    ARP_RETRY = 2
    MaxPackets = 2
    MaxResolves = 2
    MaxStrays = 1
INVARIANTS
    CacheFresh
    AnswerFresh
PROPERTY
    PendingEnds
CHECK_DEADLOCK FALSE
