SPECIFICATION NetSpec
CONSTANTS
    Procs = {p, q}
    Nobody = Nobody
    AnyHost = AnyHost
    Hosts = {h}
    Ports = {1}
    UDP_SLOTS = 1
    UDP_QSIZ = 1
    ICMP_SLOTS = 1
    ICMP_QSIZ = 1
    ICMP_OQSIZ = 2
    MaxPackets = 5
    MaxRegisters = 2
SYMMETRY ProcSymmetry
INVARIANTS
    NetTypeOK
    BuffersAccounted
    ReaderTold
    NetinGoesOn
CHECK_DEADLOCK FALSE
