SPECIFICATION LoaderSpec
CONSTANTS
    Threads = {main, t1}
    Main = main
    Names = {f}
    Missing = {}
    Resolve <- ResolveByName
    NULL = NULL
    Envs <- Fresh
    MaxSpins = 2
    MaxCalls = 2
INVARIANTS SuccessfulInitialization
