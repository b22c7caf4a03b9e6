SPECIFICATION EthSpec
CONSTANTS
    Procs = {netin, p, q}
    Netin = netin
    Nobody = Nobody
    ETH_RX_RING_ENTRIES = 2
    ETH_TX_RING_ENTRIES = 2
    ETH_IBUFSIZ = 2
    MaxFrames = 5
    MaxWrites = 5
INVARIANTS
    InputInStep
    HandlerNeverWaits
    OutputAccounted
PROPERTIES
    AllSent
CHECK_DEADLOCK FALSE
