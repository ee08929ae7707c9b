SPECIFICATION LoaderSpec
CONSTANTS
    Threads = {main, t1}
    Main = main
    Names = {f, g}
    Missing = {g}
    Resolve <- ResolveByName
    NULL = NULL
    Envs <- Fresh
    MaxSpins = 2
    MaxCalls = 3
INVARIANTS NotFoundIsNull
