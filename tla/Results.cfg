SPECIFICATION FairResultsSpec
CONSTANTS
    Threads = {t1, t2}
    Addrs = {f, g, h}
    Known = {f, g}
    Ticks = {1}
    STATS_LIMIT = 2
    TimeMod = 16
    PrintMod = 16
    MaxCalls = 2
    NULL = NULL
    FnCount = 3
    LockMod = 4
    MaxSpins = 1
INVARIANTS  ReportedOnce TimeBackedByCalls
 
