SPECIFICATION FairStatsSpec
CONSTANTS
    Threads = {t1, t2, t3}
    Addrs = {f, g, h}
    Ticks = {1, 3}
    NULL = NULL
    FnCount = 3
    STATS_LIMIT = 2
    TimeMod = 4
    LockMod = 4
    MaxSpins = 2
    MaxCalls = 1
INVARIANTS TypeOK MutualExclusion OneRecordPerFunction NoHoles  RecordsPublished
PROPERTIES RecordsOnlyGrow ImplementsAtomicStats EveryCallReturns
