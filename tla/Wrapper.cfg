SPECIFICATION WrapperSpec
CONSTANTS
    t1 = t1
    t2 = t2
    Threads = {t1, t2}
    Fns = {f, g}
    Sites = {a, b}
    Ids = {1, 2, 3, 4}
    NULL = NULL
    MaxDepth = 4
    MaxCalls <- CallBounds
    MaxSignals <- SignalBounds
SYMMETRY Symmetry
INVARIANTS ReturnsToCaller ContextsLive NothingLeaks EveryCallRecorded
