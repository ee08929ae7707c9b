---------------------------- MODULE ContextPool ----------------------------
(***************************************************************************)
(* The wrappers that keep their contexts in the static contextArray: the   *)
(* x86-64 library (libelfperf_x64/libelfperf.c) and the older 32-bit one   *)
(* (wrappers/cdecl_wrapper.c).                                             *)
(*                                                                         *)
(* There is no list of contexts here.  wrapper leaves the address of the   *)
(* context in the word below the frame that rbp points to, the caller's    *)
(* first local variable, and takes it back from there at the return;       *)
(* wrapper_no_stack_frame leaves it in rbp itself.  ContextArray is the    *)
(* allocation and the release of the contexts.                             *)
(***************************************************************************)
EXTENDS ContextArray, Sequences

CONSTANTS
    Sites,              \* return addresses of call instructions
    FramelessCallers,   \* do frameless profiled functions call framed ones?
    MaxDepth,           \* bound: activations on a thread's stack
    MaxCalls            \* bound: calls per thread

RET_POINT == "wrapper_ret_point"
NO_FRAME_RET_POINT == "wrapper_no_frame_ret_point"

ASSUME PoolAssumption ==
    /\ Addresses = Sites \cup {RET_POINT, NO_FRAME_RET_POINT}
    /\ Sites \cap {RET_POINT, NO_FRAME_RET_POINT} = {}
    /\ FramelessCallers \in BOOLEAN
    /\ MaxDepth \in Nat /\ MaxCalls \in Nat

VARIABLES
    fields,             \* context -> its other words
    below,              \* the word before contextArray
    stack,              \* thread -> activations, the innermost last
    reg,                \* thread -> registers
    pc,
    calls,              \* thread -> calls made
    shadow              \* thread -> its calls as they are without profiling

vars == <<arrayVars, fields, below, stack, reg, pc, calls, shadow>>

\* Words of memory and registers are tagged with what they hold.
Frame(n) == <<"frame", n>>
Context(c) == <<"context", c>>
Data == <<"data">>
Time == <<"time">>
None == <<"none">>

Last(s) == s[Len(s)]
Front(s) == SubSeq(s, 1, Len(s) - 1)

FreeContext == [integerResult |-> NULL, floatingPointResult |-> NULL,
                callerLocVar |-> None, rbp |-> None, endTime |-> Time]

\* An activation: its return address, the rbp it has pushed (None without a
\* frame) and its first local variable.
Activation(ret, old) == [ret |-> ret, old |-> old, local |-> Data]

\* The registers as the program has them, with what matters to it in rbp.
Registers(bp) == [rbp |-> bp, r15 |-> NULL, framed |-> TRUE, rax |-> NULL, xmm0 |-> NULL,
                  to |-> NULL]

PoolInit ==
    /\ ArrayInit
    /\ fields = [c \in Contexts |-> FreeContext]
    /\ below = Data
    /\ stack = [t \in Threads |-> <<Activation(NULL, None)>>]
    /\ reg = [t \in Threads |-> Registers(Frame(1))]
    /\ pc = [t \in Threads |-> "user"]
    /\ calls = [t \in Threads |-> 0]
    /\ shadow = [t \in Threads |-> <<>>]

Goto(t, from, to) ==
    /\ ~exited
    /\ pc[t] = from
    /\ pc' = [pc EXCEPT ![t] = to]

-----------------------------------------------------------------------------
(* The word at -8(%rbp): a local variable of the frame rbp points to, or,   *)
(* when rbp holds a context, the last word of the context before it.        *)

Slot(t, bp) ==
    IF bp[1] = "frame" THEN stack[t][bp[2]].local
    ELSE IF bp[2] = 1 THEN below ELSE fields[bp[2] - 1].endTime

PutSlot(t, bp, w, array, frames) ==
    /\ stack' = [stack EXCEPT ![t] = IF bp[1] = "frame"
                                     THEN [frames EXCEPT ![bp[2]].local = w] ELSE frames]
    /\ fields' = IF bp[1] = "context" /\ bp[2] > 1
                 THEN [array EXCEPT ![bp[2] - 1].endTime = w] ELSE array
    /\ below' = IF bp = Context(1) THEN w ELSE below

-----------------------------------------------------------------------------
(* The program *)

\* A redirector jumps to the wrapper that the first bytes of its target ask
\* for, with a frame or without; the wrapper calls getNewContext.
Redirect(t, framed, bp) ==
    /\ Goto(t, "user", "fill")
    /\ Enter(t)
    /\ calls[t] < MaxCalls
    /\ calls' = [calls EXCEPT ![t] = @ + 1]
    /\ variant = "cdecl" => framed
    /\ framed /\ bp[1] = "context" => FramelessCallers
    /\ reg' = [reg EXCEPT ![t].framed = framed, ![t].rbp = bp]
    /\ UNCHANGED <<fields, below>>

Call(t, s, framed) ==
    /\ Len(stack[t]) < MaxDepth
    /\ Redirect(t, framed, reg[t].rbp)
    /\ stack' = [stack EXCEPT ![t] = Append(@, Activation(s, None))]
    /\ shadow' = [shadow EXCEPT ![t] = Append(@, [site |-> s, rbp |-> reg[t].rbp,
                                                  slot |-> Slot(t, reg[t].rbp)])]

\* leave pops the rbp that a function with a frame has pushed.
Leave(t) == IF Last(stack[t]).old = None THEN reg[t].rbp ELSE Last(stack[t]).old

\* A function leaves its frame and jumps to a redirector.
TailCall(t, framed) ==
    /\ Len(stack[t]) > 1
    /\ Redirect(t, framed, Leave(t))
    /\ stack' = [stack EXCEPT ![t][Len(stack[t])] = Activation(Last(stack[t]).ret, None)]
    /\ UNCHANGED shadow

\* A function returns; its results are its thread's and its call's own.
Return(t) ==
    /\ Len(stack[t]) > 1
    /\ Goto(t, "user", IF Last(stack[t]).ret = NO_FRAME_RET_POINT THEN "takeRbp" ELSE "takeSlot")
    /\ reg' = [reg EXCEPT ![t].rbp = Leave(t), ![t].rax = <<t, calls[t]>>,
                          ![t].xmm0 = <<t, calls[t]>>]
    /\ stack' = [stack EXCEPT ![t] = Front(@)]
    /\ UNCHANGED <<arrayVars, fields, below, calls, shadow>>

-----------------------------------------------------------------------------
(* wrapper and wrapper_no_stack_frame, before the call *)

\* The search for a context goes on in getNewContext.
GetContext(t) ==
    /\ GetNewContext(t)
    /\ UNCHANGED <<fields, below, stack, reg, pc, calls, shadow>>

FillFramed(t) ==
    /\ reg[t].framed
    /\ Goto(t, "fill", "plant")
    /\ Store(t, context[t], Last(stack[t]).ret)
    /\ fields' = [fields EXCEPT ![context[t]].callerLocVar = Slot(t, reg[t].rbp)]
    /\ UNCHANGED <<below, stack, reg, calls, shadow>>

FillFrameless(t) ==
    /\ ~reg[t].framed
    /\ Goto(t, "fill", "plant")
    /\ Store(t, context[t], Last(stack[t]).ret)
    /\ fields' = [fields EXCEPT ![context[t]].rbp = reg[t].rbp]
    /\ UNCHANGED <<below, stack, reg, calls, shadow>>

\* The address of the context is left for the return, the return address
\* becomes a point of the wrapper, and the function runs.
PlantInSlot(t) ==
    /\ reg[t].framed
    /\ Goto(t, "plant", "user")
    /\ LET n == Len(stack[t])
       IN  /\ PutSlot(t, reg[t].rbp, Context(context[t]), fields,
                      [stack[t] EXCEPT ![n] = Activation(RET_POINT, reg[t].rbp)])
           /\ reg' = [reg EXCEPT ![t] = Registers(Frame(n))]
    /\ UNCHANGED <<arrayVars, calls, shadow>>

PlantInRbp(t) ==
    /\ ~reg[t].framed
    /\ Goto(t, "plant", "user")
    /\ stack' = [stack EXCEPT ![t][Len(stack[t])].ret = NO_FRAME_RET_POINT]
    /\ reg' = [reg EXCEPT ![t] = Registers(Context(context[t]))]
    /\ UNCHANGED <<arrayVars, fields, below, calls, shadow>>

-----------------------------------------------------------------------------
(* wrapper_ret_point, wrapper_no_frame_ret_point.  A thread that finds no   *)
(* context in the slot follows a wild pointer: it has no next step here.    *)

WithResults(t, c) ==
    [fields EXCEPT ![c].integerResult = reg[t].rax, ![c].floatingPointResult = reg[t].xmm0]

\* The context comes from the caller's local variable, which gets its value
\* back (in cdecl_wrapper.c after record_end_time; the thread alone uses it).
TakeFromSlot(t) ==
    LET w == Slot(t, reg[t].rbp)
    IN  /\ Goto(t, "takeSlot", "end")
        /\ w[1] = "context"
        /\ PutSlot(t, reg[t].rbp, fields[w[2]].callerLocVar, WithResults(t, w[2]), stack[t])
        /\ reg' = [reg EXCEPT ![t].r15 = w[2]]
        /\ UNCHANGED <<arrayVars, calls, shadow>>

\* Faulty: the caller's rbp is not taken back.
TakeFromRbpKeeps(t) ==
    LET c == reg[t].rbp[2]
    IN  /\ Goto(t, "takeRbp", "end")
        /\ fields' = WithResults(t, c)
        /\ reg' = [reg EXCEPT ![t].r15 = c]
        /\ UNCHANGED <<arrayVars, below, stack, calls, shadow>>

TakeFromRbp(t) ==
    LET c == reg[t].rbp[2]
    IN  /\ Goto(t, "takeRbp", "end")
        /\ fields' = WithResults(t, c)
        /\ reg' = [reg EXCEPT ![t].r15 = c, ![t].rbp = fields[c].rbp]
        /\ UNCHANGED <<arrayVars, below, stack, calls, shadow>>

RecordEndTime(t) ==
    /\ Goto(t, "end", "leave")
    /\ fields' = [fields EXCEPT ![reg[t].r15].endTime = Time]
    /\ UNCHANGED <<arrayVars, below, stack, reg, calls, shadow>>

\* Faulty: the context that the thread took last is released.
LeaveContextLast(t) ==
    /\ Goto(t, "leave", "float")
    /\ reg' = [reg EXCEPT ![t].rax = fields[reg[t].r15].integerResult,
                          ![t].to = realReturnAddr[reg[t].r15]]
    /\ realReturnAddr' = [realReturnAddr EXCEPT ![context[t]] = NULL]
    /\ owned' = [u \in Threads |-> owned[u] \ {context[t]}]
    /\ UNCHANGED <<variant, freeContextNumber, spinlock, at, i, context, exited, busy,
                   fields, below, stack, calls, shadow>>

\* rax and the return address are loaded and the context is released.
LeaveContext(t) ==
    /\ Goto(t, "leave", "float")
    /\ reg' = [reg EXCEPT ![t].rax = fields[reg[t].r15].integerResult,
                          ![t].to = realReturnAddr[reg[t].r15]]
    /\ Release(t, reg[t].r15)
    /\ UNCHANGED <<fields, below, stack, calls, shadow>>

\* xmm0 is loaded last, from the context that has been released.
LoadFloat(t) ==
    /\ Goto(t, "float", "ret")
    /\ reg' = [reg EXCEPT ![t].xmm0 = fields[reg[t].r15].floatingPointResult]
    /\ UNCHANGED <<arrayVars, fields, below, stack, calls, shadow>>

\* ret, to the caller or to the return point of a function that tail-called.
Resume(t) ==
    /\ Goto(t, "ret", CASE reg[t].to = RET_POINT -> "takeSlot"
                        [] reg[t].to = NO_FRAME_RET_POINT -> "takeRbp"
                        [] OTHER -> "user")
    /\ shadow' = IF pc'[t] = "user" THEN [shadow EXCEPT ![t] = Front(@)] ELSE shadow
    /\ reg' = IF pc'[t] = "user" THEN [reg EXCEPT ![t] = Registers(@.rbp)] ELSE reg
    /\ UNCHANGED <<arrayVars, fields, below, stack, calls>>

-----------------------------------------------------------------------------

Program(t) ==
    \/ \E framed \in BOOLEAN : (\E s \in Sites : Call(t, s, framed)) \/ TailCall(t, framed)
    \/ Return(t)

Wrapper(t) ==
    \/ GetContext(t) \/ FillFramed(t) \/ FillFrameless(t) \/ PlantInSlot(t) \/ PlantInRbp(t)
    \/ TakeFromSlot(t) \/ TakeFromRbp(t) \/ RecordEndTime(t) \/ LeaveContext(t)
    \/ LoadFloat(t) \/ Resume(t)

\* The process has exited, or every call has been made and has returned.
Finished ==
    /\ \/ exited
       \/ \A t \in Threads : pc[t] = "user" /\ Len(stack[t]) = 1 /\ calls[t] = MaxCalls
    /\ UNCHANGED vars

PoolNext == (\E t \in Threads : Program(t) \/ Wrapper(t)) \/ Finished

\* Threads that are inside a wrapper are scheduled.
PoolSpec == PoolInit /\ [][PoolNext]_vars /\ \A t \in Threads : WF_vars(Wrapper(t))

-----------------------------------------------------------------------------
(* Properties *)

\* A wrapper returns to the call site, with the integer result of the
\* function, the caller's rbp, and the caller's local variable as it was.
ReturnsIntact ==
    \A t \in Threads :
        pc[t] = "ret" /\ reg[t].to \notin {RET_POINT, NO_FRAME_RET_POINT} =>
            LET call == Last(shadow[t])
            IN  /\ reg[t].to = call.site
                /\ reg[t].rax = <<t, calls[t]>>
                /\ reg[t].rbp = call.rbp
                /\ Slot(t, reg[t].rbp) = call.slot

\* The floating point result of a function reaches its caller.
FloatKept == \A t \in Threads : pc[t] = "ret" => reg[t].xmm0 = <<t, calls[t]>>

\* The wrappers use the array as ContextArray assumes: the context that a
\* return finds in a local variable or in rbp, and releases without the lock,
\* is one that its own thread has taken and has not released.
UsesArrayProperly == ArraySpec

\* A thread that enters a wrapper gets out of it, unless the program exits:
\* nobody keeps the lock, and every return finds its context.
WrappersEnd == \A t \in Threads : pc[t] # "user" ~> (pc[t] = "user" \/ exited)
=============================================================================
