SPECIFICATION PoolSpec
CONSTANTS
    Threads = {t1, t2}
    Sites = {a, b}
    Addresses = {a, b, "wrapper_ret_point", "wrapper_no_frame_ret_point"}
    NULL = NULL
    CONTEXT_PREALLOCATED_NUMBER = 2
    FramelessCallers = FALSE
    MaxDepth = 3
    MaxCalls = 2
INVARIANT FloatKept
