SPECIFICATION FairSpec
CONSTANTS
    NPROC = 4
    QUANTUM = 1
    Prios = {1}
    NewPrios = {}
    Reniced = {}
    NSEM = 1
    Counts = {}
    MaxCount = 0
    Delays = {2}
    WordSize = 16
    MaxWaits = {1}
    ASem = 0
    Calls <- SharingCalls
INVARIANTS
    DelaysRespected
PROPERTIES
    SleepersWake
    EqualsTakeTurns
