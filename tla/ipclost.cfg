SPECIFICATION IPCSpec
CONSTANTS
    NPROC = 4
    QUANTUM = 1
    Prios = {1}
    NewPrios = {2}
    Reniced = {2}
    NSEM = 1
    Counts = {}
    MaxCount = 0
    Delays = {}
    WordSize = 16
    MaxWaits = {1}
    MaxMsgs = 3
    Mailboxes = {2}
    Stacks = {TRUE}
    Calls <- IPCCalls
INVARIANTS
    EverySentArrives
