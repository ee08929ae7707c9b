SPECIFICATION ResultsSpec
CONSTANTS
    Threads = {t1}
    Addrs = {f}
    Known = {f}
    Ticks = {3}
    STATS_LIMIT = 10000000
    TimeMod = 16
    PrintMod = 4
    MaxCalls = 2
    NULL = NULL
    FnCount = 2
    LockMod = 4
    MaxSpins = 1
INVARIANT TicksPrinted
