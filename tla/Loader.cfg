SPECIFICATION FairLoaderSpec
CONSTANTS
    Threads = {main, t1}
    Main = main
    Names = {f, g}
    Missing = {g}
    Resolve <- ResolveByName
    NULL = NULL
    Envs <- AllEnvs
    MaxSpins = 2
    MaxCalls = 3
INVARIANTS TypeOK InitOnce InitializedMeansReady EveryAddressNamed
PROPERTIES StatisticsNeverDropped  EveryHookReturns
