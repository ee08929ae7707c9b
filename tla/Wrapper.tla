------------------------------ MODULE Wrapper ------------------------------
(***************************************************************************)
(* What wrapper, preProfile and postProfile of libelfperf.c do to the      *)
(* control flow of a program: the return address of a profiled call is     *)
(* kept in a WrappingContext, the stack slot is overwritten by wrapper_rp, *)
(* and the return through wrapper_rp takes the address back from the       *)
(* thread's list of contexts.                                              *)
(*                                                                         *)
(* Calls nest, tail calls reuse the caller's slot, and signal handlers     *)
(* that make profiled calls themselves interrupt the wrapper at any point. *)
(* The registers are the matter of WrapperAsm.  updateStat is its lock and *)
(* one addition, as GlobalStats justifies.                                 *)
(***************************************************************************)
EXTENDS Naturals, FiniteSets, Sequences

CONSTANTS
    Threads,
    Fns,            \* profiled functions
    Sites,          \* return addresses of call instructions
    Ids,            \* addresses mmap can give a WrappingContext
    NULL,
    MaxDepth,       \* bound: return addresses on a thread's stack
    MaxCalls,       \* bound: thread -> calls it makes
    MaxSignals      \* bound: thread -> signals it handles

RP == "wrapper_rp"
SIG == "sigreturn"

ASSUME WrapperAssumption ==
    /\ MaxDepth \in Nat
    /\ MaxCalls \in [Threads -> Nat]
    /\ MaxSignals \in [Threads -> Nat]
    /\ NULL \notin Threads \cup Fns \cup Sites \cup Ids
    /\ {RP, SIG} \cap Sites = {}

VARIABLES
    stack,              \* thread -> return slots, the top last
    saved,              \* thread -> state of the code its handlers interrupted
    s_wrappingContext,  \* thread -> its innermost context
    ctx,                \* contents of the contexts
    mapped,             \* contexts that are mapped
    pc,
    reg,                \* thread -> function called, context in hand, jump target, and
                        \* where the return in progress would go without profiling
    updateStatLock,     \* the thread that holds it, or NULL
    recorded,           \* function -> calls in its statistics
    calls,              \* thread -> calls made
    signals,            \* thread -> signals handled
    shadow,             \* thread -> the slots as they would be without profiling
    begun               \* function -> profiled calls made

heap == <<s_wrappingContext, ctx, mapped>>
statVars == <<updateStatLock, recorded>>
sigVars == <<saved, signals>>
ghosts == <<shadow, begun>>
vars == <<stack, saved, s_wrappingContext, ctx, mapped, pc, reg, updateStatLock,
          recorded, calls, signals, shadow, begun>>

NoReg == [fn |-> NULL, c |-> NULL, to |-> NULL, want |-> NULL]

WrapperInit ==
    /\ stack = [t \in Threads |-> <<>>]
    /\ saved = [t \in Threads |-> <<>>]
    /\ s_wrappingContext = [t \in Threads |-> NULL]
    /\ ctx = [c \in Ids |-> [old |-> NULL, realReturnAddr |-> NULL, functionPtr |-> NULL]]
    /\ mapped = {}
    /\ pc = [t \in Threads |-> "user"]
    /\ reg = [t \in Threads |-> NoReg]
    /\ updateStatLock = NULL
    /\ recorded = [f \in Fns |-> 0]
    /\ calls = [t \in Threads |-> 0]
    /\ signals = [t \in Threads |-> 0]
    /\ shadow = [t \in Threads |-> <<>>]
    /\ begun = [f \in Fns |-> 0]

Goto(t, from, to) ==
    /\ pc[t] = from
    /\ pc' = [pc EXCEPT ![t] = to]

Last(s) == s[Len(s)]
Front(s) == SubSeq(s, 1, Len(s) - 1)

-----------------------------------------------------------------------------
(* The program *)

Push(t, s) ==
    /\ Len(stack[t]) < MaxDepth
    /\ calls[t] < MaxCalls[t]
    /\ calls' = [calls EXCEPT ![t] = @ + 1]
    /\ stack' = [stack EXCEPT ![t] = Append(@, s)]
    /\ shadow' = [shadow EXCEPT ![t] = Append(@, s)]

\* A call of a function that is not profiled.
Call(t, s) ==
    /\ Goto(t, "user", "user")
    /\ Push(t, s)
    /\ UNCHANGED <<heap, reg, statVars, sigVars, begun>>

\* A call through a redirector, which pushes the function and enters wrapper.
CallProfiled(t, s, f) ==
    /\ Goto(t, "user", "map")
    /\ Push(t, s)
    /\ reg' = [reg EXCEPT ![t] = [NoReg EXCEPT !.fn = f]]
    /\ begun' = [begun EXCEPT ![f] = @ + 1]
    /\ UNCHANGED <<heap, statVars, sigVars>>

\* A function ends in a jump to a redirector: the slot on top is its caller's,
\* or wrapper_rp when it is profiled itself.
TailCallProfiled(t, f) ==
    /\ Goto(t, "user", "map")
    /\ stack[t] # <<>> /\ Last(stack[t]) # SIG
    /\ calls[t] < MaxCalls[t]
    /\ calls' = [calls EXCEPT ![t] = @ + 1]
    /\ reg' = [reg EXCEPT ![t] = [NoReg EXCEPT !.fn = f]]
    /\ begun' = [begun EXCEPT ![f] = @ + 1]
    /\ UNCHANGED <<stack, heap, statVars, sigVars, shadow>>

\* A ret instruction of the program.
Ret(t) ==
    /\ Goto(t, "user", "resume")
    /\ stack[t] # <<>> /\ Last(stack[t]) # SIG
    /\ reg' = [reg EXCEPT ![t] = [NoReg EXCEPT !.to = Last(stack[t]), !.want = Last(shadow[t])]]
    /\ stack' = [stack EXCEPT ![t] = Front(@)]
    /\ shadow' = [shadow EXCEPT ![t] = Front(@)]
    /\ UNCHANGED <<heap, statVars, calls, sigVars, begun>>

\* Control arrives at the address a ret has popped.
ResumeCaller(t) ==
    /\ Goto(t, "resume", "user")
    /\ reg[t].to \in Sites
    /\ reg' = [reg EXCEPT ![t] = NoReg]
    /\ UNCHANGED <<stack, heap, statVars, calls, sigVars, ghosts>>

ResumeWrapper(t) ==
    /\ Goto(t, "resume", "take")
    /\ reg[t].to = RP
    /\ reg' = [reg EXCEPT ![t].to = NULL]
    /\ UNCHANGED <<stack, heap, statVars, calls, sigVars, ghosts>>

\* A handler starts on top of whatever the thread was doing, and ends.
Signal(t) ==
    /\ signals[t] < MaxSignals[t]
    /\ signals' = [signals EXCEPT ![t] = @ + 1]
    /\ stack' = [stack EXCEPT ![t] = Append(@, SIG)]
    /\ saved' = [saved EXCEPT ![t] = Append(@, [pc |-> pc[t], reg |-> reg[t]])]
    /\ shadow' = [shadow EXCEPT ![t] = Append(@, SIG)]
    /\ pc' = [pc EXCEPT ![t] = "user"]
    /\ reg' = [reg EXCEPT ![t] = NoReg]
    /\ UNCHANGED <<heap, statVars, calls, begun>>

SigReturn(t) ==
    /\ pc[t] = "user"
    /\ stack[t] # <<>> /\ Last(stack[t]) = SIG
    /\ pc' = [pc EXCEPT ![t] = Last(saved[t]).pc]
    /\ reg' = [reg EXCEPT ![t] = Last(saved[t]).reg]
    /\ saved' = [saved EXCEPT ![t] = Front(@)]
    /\ stack' = [stack EXCEPT ![t] = Front(@)]
    /\ shadow' = [shadow EXCEPT ![t] = Front(@)]
    /\ UNCHANGED <<heap, statVars, calls, signals, begun>>

-----------------------------------------------------------------------------
(* preProfile, and the half of wrapper before the call *)

\* mmap, which succeeds, and context->old = s_wrappingContext.
MapContext(t) ==
    /\ mapped # Ids
    /\ Goto(t, "map", "link")
    /\ LET c == CHOOSE c \in Ids : c \notin mapped
       IN  /\ mapped' = mapped \cup {c}
           /\ ctx' = [ctx EXCEPT ![c] = [old |-> s_wrappingContext[t],
                                         realReturnAddr |-> NULL, functionPtr |-> NULL]]
           /\ reg' = [reg EXCEPT ![t].c = c]
    /\ UNCHANGED <<stack, s_wrappingContext, statVars, calls, sigVars, ghosts>>

\* Faulty: s_wrappingContext is not thread-local.
LinkContextShared(t) ==
    /\ Goto(t, "link", "fill")
    /\ s_wrappingContext' = [u \in Threads |-> reg[t].c]
    /\ UNCHANGED <<stack, ctx, mapped, reg, statVars, calls, sigVars, ghosts>>

LinkContext(t) ==
    /\ Goto(t, "link", "fill")
    /\ s_wrappingContext' = [s_wrappingContext EXCEPT ![t] = reg[t].c]
    /\ UNCHANGED <<stack, ctx, mapped, reg, statVars, calls, sigVars, ghosts>>

FillContext(t) ==
    /\ Goto(t, "fill", "swap")
    /\ ctx' = [ctx EXCEPT ![reg[t].c].realReturnAddr = Last(stack[t]),
                          ![reg[t].c].functionPtr = reg[t].fn]
    /\ UNCHANGED <<stack, s_wrappingContext, mapped, reg, statVars, calls, sigVars,
                   ghosts>>

\* The return slot becomes wrapper_rp and control goes to the function.
SwapReturnAddr(t) ==
    /\ Goto(t, "swap", "user")
    /\ stack' = [stack EXCEPT ![t][Len(stack[t])] = RP]
    /\ reg' = [reg EXCEPT ![t] = NoReg]
    /\ UNCHANGED <<heap, statVars, calls, sigVars, ghosts>>

-----------------------------------------------------------------------------
(* postProfile, and the half of wrapper from wrapper_rp on *)

TakeContext(t) ==
    /\ Goto(t, "take", "unlink")
    /\ reg' = [reg EXCEPT ![t].c = s_wrappingContext[t]]
    /\ UNCHANGED <<stack, heap, statVars, calls, sigVars, ghosts>>

\* Faulty: the context stays in the list.
UnlinkContextForgets(t) ==
    /\ Goto(t, "unlink", "lock")
    /\ UNCHANGED <<stack, heap, reg, statVars, calls, sigVars, ghosts>>

UnlinkContext(t) ==
    /\ Goto(t, "unlink", "lock")
    /\ s_wrappingContext' = [s_wrappingContext EXCEPT ![t] = ctx[reg[t].c].old]
    /\ UNCHANGED <<stack, ctx, mapped, reg, statVars, calls, sigVars, ghosts>>

\* record_end_time, updateStat.
AcquireStats(t) ==
    /\ Goto(t, "lock", "record")
    /\ updateStatLock = NULL
    /\ updateStatLock' = t
    /\ UNCHANGED <<stack, heap, reg, recorded, calls, sigVars, ghosts>>

\* A thread that finds the lock taken spins; when the owner is the code its
\* own signal handler interrupted, it does so for ever.
SpinForStats(t) ==
    /\ pc[t] = "lock"
    /\ updateStatLock # NULL
    /\ UNCHANGED vars

\* Faulty: the function is taken from s_wrappingContext, not from context.
RecordOuterCall(t) ==
    /\ Goto(t, "record", "unlock")
    /\ recorded' = IF s_wrappingContext[t] = NULL THEN recorded
                   ELSE [recorded EXCEPT ![ctx[s_wrappingContext[t]].functionPtr] = @ + 1]
    /\ UNCHANGED <<stack, heap, reg, updateStatLock, calls, sigVars, ghosts>>

RecordCall(t) ==
    /\ Goto(t, "record", "unlock")
    /\ recorded' = [recorded EXCEPT ![ctx[reg[t].c].functionPtr] = @ + 1]
    /\ UNCHANGED <<stack, heap, reg, updateStatLock, calls, sigVars, ghosts>>

ReleaseStats(t) ==
    /\ Goto(t, "unlock", "unmap")
    /\ updateStatLock' = NULL
    /\ UNCHANGED <<stack, heap, reg, recorded, calls, sigVars, ghosts>>

\* Faulty: no munmap.
UnmapContextForgets(t) ==
    /\ Goto(t, "unmap", "resume")
    /\ reg' = [reg EXCEPT ![t].to = ctx[reg[t].c].realReturnAddr, ![t].c = NULL]
    /\ UNCHANGED <<stack, heap, statVars, calls, sigVars, ghosts>>

\* returnAddr is read, the context unmapped, and wrapper returns to returnAddr.
UnmapContext(t) ==
    /\ Goto(t, "unmap", "resume")
    /\ reg' = [reg EXCEPT ![t].to = ctx[reg[t].c].realReturnAddr, ![t].c = NULL]
    /\ mapped' = mapped \ {reg[t].c}
    /\ UNCHANGED <<stack, s_wrappingContext, ctx, statVars, calls, sigVars, ghosts>>

-----------------------------------------------------------------------------

Program(t) ==
    \/ \E s \in Sites : Call(t, s)
    \/ \E s \in Sites, f \in Fns : CallProfiled(t, s, f)
    \/ \E f \in Fns : TailCallProfiled(t, f)
    \/ Ret(t) \/ ResumeCaller(t) \/ ResumeWrapper(t) \/ Signal(t) \/ SigReturn(t)

Profile(t) ==
    \/ MapContext(t) \/ LinkContext(t) \/ FillContext(t) \/ SwapReturnAddr(t)
    \/ TakeContext(t) \/ UnlinkContext(t) \/ AcquireStats(t) \/ SpinForStats(t)
    \/ RecordCall(t) \/ ReleaseStats(t) \/ UnmapContext(t)

Quiet == \A t \in Threads : pc[t] = "user" /\ stack[t] = <<>>

\* Every bounded call has been made and has returned.
Finished == Quiet /\ (\A t \in Threads : calls[t] = MaxCalls[t]) /\ UNCHANGED vars

WrapperNext == (\E t \in Threads : Program(t) \/ Profile(t)) \/ Finished

WrapperSpec == WrapperInit /\ [][WrapperNext]_vars

-----------------------------------------------------------------------------
(* Properties *)

Pointers == Ids \cup {NULL}
Addresses == Sites \cup {RP, NULL}
PCs == {"user", "map", "link", "fill", "swap", "resume", "take", "unlink", "lock",
        "record", "unlock", "unmap"}

Registers == [fn : Fns \cup {NULL}, c : Pointers, to : Addresses, want : Sites \cup {NULL}]
Contexts == [old : Pointers, realReturnAddr : Addresses, functionPtr : Fns \cup {NULL}]
Slots == Sites \cup {RP, SIG}

\* Contexts hold return addresses and functions where the code looks for them.
TypeOK ==
    /\ stack \in [Threads -> Seq(Slots)] /\ shadow \in [Threads -> Seq(Slots)]
    /\ saved \in [Threads -> Seq([pc : PCs, reg : Registers])]
    /\ s_wrappingContext \in [Threads -> Pointers]
    /\ ctx \in [Ids -> Contexts]
    /\ mapped \subseteq Ids
    /\ pc \in [Threads -> PCs]
    /\ reg \in [Threads -> Registers]

\* Profiling is transparent to control flow: a return that passes through
\* wrapper_rp, once or several times, ends at the call site that an
\* unprofiled run would return to.
ReturnsToCaller ==
    \A t \in Threads :
        pc[t] = "resume" /\ reg[t].to # RP => reg[t].to = reg[t].want

\* preProfile and postProfile never touch a context that is not mapped, and
\* a return through wrapper_rp always finds one.
ContextsLive ==
    \A t \in Threads :
        /\ pc[t] = "take" => s_wrappingContext[t] \in mapped
        /\ pc[t] \in {"link", "fill", "swap", "unlink", "lock", "record", "unlock",
                      "unmap"} => reg[t].c \in mapped

\* When all calls have returned, no context is left mapped.
NothingLeaks == Quiet => mapped = {}

\* When all calls have returned, each has been recorded once, for its own
\* function, however calls, tail calls and handlers nested.
EveryCallRecorded == Quiet => recorded = begun
=============================================================================
