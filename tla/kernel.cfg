SPECIFICATION Spec
CONSTANTS
    NPROC = 3
    QUANTUM = 2
    Prios = {1, 2}
    NewPrios = {}
    Reniced = {}
    NSEM = 1
    Counts = {0, 2}
    MaxCount = 1
    Delays = {1, 2}
    WordSize = 16
    MaxWaits = {0, 1}
    ASem = 0
    Calls <- AllCalls
INVARIANTS
    TypeOK
    SemCounts
    QueuesMatchStates
    MailboxWakes
    LastExitHalts
    HighestRuns
PROPERTIES
    SemaphoreContract
