---------------------------- MODULE ContextArray ----------------------------
(***************************************************************************)
(* The static contextArray from which the x86-64 library                   *)
(* (libelfperf_x64/libelfperf.c) and the older 32-bit wrapper              *)
(* (wrappers/cdecl_wrapper.c) take the context of a call.                  *)
(*                                                                         *)
(* In the former a context is in use while its realReturnAddr is not NULL; *)
(* getNewContext_ searches for a free one under a spinlock and exits when  *)
(* there is none, and the wrapper that used a context releases it without  *)
(* the lock.  getNewContext of the latter hands contexts out in order,     *)
(* under a mutex, and nothing takes them back.  ContextPool is the code    *)
(* that uses the array.                                                    *)
(***************************************************************************)
EXTENDS Integers

CONSTANTS
    Threads,
    NULL,
    Addresses,          \* what a wrapper stores into realReturnAddr
    CONTEXT_PREALLOCATED_NUMBER

STUB == "REAL_RETURN_ADDR_STUB"

ASSUME ArrayAssumption ==
    /\ CONTEXT_PREALLOCATED_NUMBER \in Nat
    /\ NULL \notin Addresses \cup {STUB}

VARIABLES
    variant,            \* which of the two libraries is loaded
    realReturnAddr,     \* context -> that word of it
    freeContextNumber,  \* cdecl_wrapper.c: contexts handed out
    spinlock,           \* getNewContextSpinlock, freeContextNumberLock
    at,                 \* thread -> where it is in getNewContext
    i,                  \* thread -> index of its search
    context,            \* thread -> what getNewContext last returned to it
    exited,
    owned,              \* thread -> contexts of its calls in progress
    busy                \* thread -> contexts in use when it took the lock

arrayVars == <<variant, realReturnAddr, freeContextNumber, spinlock, at, i, context,
               exited, owned, busy>>

Contexts == 1..CONTEXT_PREALLOCATED_NUMBER

InUse == {c \in Contexts : realReturnAddr[c] # NULL}

ArrayInit ==
    /\ variant \in {"x86_64", "cdecl"}
    /\ realReturnAddr = [c \in Contexts |-> NULL]
    /\ freeContextNumber = 0
    /\ spinlock = FALSE
    /\ at = [t \in Threads |-> "out"]
    /\ i = [t \in Threads |-> 1]
    /\ context = [t \in Threads |-> NULL]
    /\ exited = FALSE
    /\ owned = [t \in Threads |-> {}]
    /\ busy = [t \in Threads |-> {}]

Move(t, from, to) ==
    /\ ~exited
    /\ at[t] = from
    /\ at' = [at EXCEPT ![t] = to]

Enter(t) ==
    /\ Move(t, "out", "lock")
    /\ UNCHANGED <<variant, realReturnAddr, freeContextNumber, spinlock, i, context, exited,
                   owned, busy>>

\* Faulty: the lock is not waited for.
AcquireBlindly(t) ==
    /\ Move(t, "lock", IF variant = "cdecl" THEN "bump" ELSE "look")
    /\ spinlock' = TRUE
    /\ i' = [i EXCEPT ![t] = 1]
    /\ busy' = [busy EXCEPT ![t] = InUse]
    /\ UNCHANGED <<variant, realReturnAddr, freeContextNumber, context, exited, owned>>

\* The lock as a Boolean: how its word counts is the matter of GlobalStats.
Acquire(t) ==
    /\ Move(t, "lock", IF variant = "cdecl" THEN "bump" ELSE "look")
    /\ ~spinlock
    /\ spinlock' = TRUE
    /\ i' = [i EXCEPT ![t] = 1]
    /\ busy' = [busy EXCEPT ![t] = InUse]
    /\ UNCHANGED <<variant, realReturnAddr, freeContextNumber, context, exited, owned>>

\* Faulty: the search leaves out the last context.
LookShort(t) ==
    /\ Move(t, "look", IF i[t] >= CONTEXT_PREALLOCATED_NUMBER THEN "full"
                       ELSE IF realReturnAddr[i[t]] = NULL THEN "mark" ELSE "look")
    /\ i' = IF at'[t] = "look" THEN [i EXCEPT ![t] = @ + 1] ELSE i
    /\ UNCHANGED <<variant, realReturnAddr, freeContextNumber, spinlock, context, exited,
                   owned, busy>>

\* Faulty: a search that finds nothing starts over, with the lock held.
LookAgain(t) ==
    /\ Move(t, "look", IF i[t] \in Contexts /\ realReturnAddr[i[t]] = NULL
                       THEN "mark" ELSE "look")
    /\ i' = IF at'[t] = "mark" THEN i
            ELSE [i EXCEPT ![t] = IF @ > CONTEXT_PREALLOCATED_NUMBER THEN 1 ELSE @ + 1]
    /\ UNCHANGED <<variant, realReturnAddr, freeContextNumber, spinlock, context, exited,
                   owned, busy>>

\* One turn of the search.
Look(t) ==
    /\ Move(t, "look", IF i[t] > CONTEXT_PREALLOCATED_NUMBER THEN "full"
                       ELSE IF realReturnAddr[i[t]] = NULL THEN "mark" ELSE "look")
    /\ i' = IF at'[t] = "look" THEN [i EXCEPT ![t] = @ + 1] ELSE i
    /\ UNCHANGED <<variant, realReturnAddr, freeContextNumber, spinlock, context, exited,
                   owned, busy>>

Mark(t) ==
    /\ Move(t, "mark", "unlock")
    /\ realReturnAddr' = [realReturnAddr EXCEPT ![i[t]] = STUB]
    /\ context' = [context EXCEPT ![t] = i[t]]
    /\ owned' = [owned EXCEPT ![t] = @ \cup {i[t]}]
    /\ UNCHANGED <<variant, freeContextNumber, spinlock, i, exited, busy>>

\* cdecl_wrapper.c: the next context, or exit(1) with the mutex held.
Bump(t) ==
    /\ Move(t, "bump", "unlock")
    /\ freeContextNumber < CONTEXT_PREALLOCATED_NUMBER
    /\ freeContextNumber' = freeContextNumber + 1
    /\ context' = [context EXCEPT ![t] = freeContextNumber + 1]
    /\ owned' = [owned EXCEPT ![t] = @ \cup {freeContextNumber + 1}]
    /\ UNCHANGED <<variant, realReturnAddr, spinlock, i, exited, busy>>

BumpFull(t) ==
    /\ Move(t, "bump", "exit")
    /\ freeContextNumber >= CONTEXT_PREALLOCATED_NUMBER
    /\ UNCHANGED <<variant, realReturnAddr, freeContextNumber, spinlock, i, context, exited,
                   owned, busy>>

Unlock(t) ==
    /\ \/ Move(t, "unlock", "out") /\ busy' = [busy EXCEPT ![t] = {}]
       \/ Move(t, "full", "exit") /\ UNCHANGED busy
    /\ spinlock' = FALSE
    /\ i' = [i EXCEPT ![t] = 1]
    /\ UNCHANGED <<variant, realReturnAddr, freeContextNumber, context, exited, owned>>

\* "Context buffer is full!!! Exiting"
Exit(t) ==
    /\ Move(t, "exit", "exit")
    /\ exited' = TRUE
    /\ UNCHANGED <<variant, realReturnAddr, freeContextNumber, spinlock, i, context, owned, busy>>

\* What the wrappers do to a context themselves, without the lock: they store
\* the return address of the call, and when the call is over the x86-64 ones
\* free the context.
Store(t, c, a) ==
    /\ Move(t, "out", "out")
    /\ realReturnAddr' = [realReturnAddr EXCEPT ![c] = a]
    /\ UNCHANGED <<variant, freeContextNumber, spinlock, i, context, exited, owned, busy>>

Release(t, c) ==
    /\ Move(t, "out", "out")
    /\ realReturnAddr' = IF variant = "cdecl" THEN realReturnAddr
                         ELSE [realReturnAddr EXCEPT ![c] = NULL]
    /\ owned' = [owned EXCEPT ![t] = @ \ {c}]
    /\ UNCHANGED <<variant, freeContextNumber, spinlock, i, context, exited, busy>>

GetNewContext(t) ==
    \/ Acquire(t) \/ Look(t) \/ Mark(t) \/ Bump(t) \/ BumpFull(t) \/ Unlock(t) \/ Exit(t)

\* A thread stores into and releases the contexts it has, no others.
ArrayNext ==
    \E t \in Threads :
        \/ Enter(t)
        \/ GetNewContext(t)
        \/ \E c \in owned[t] : Release(t, c) \/ \E a \in Addresses : Store(t, c, a)

ArraySpec == ArrayInit /\ [][ArrayNext]_arrayVars

-----------------------------------------------------------------------------
(* Properties *)

\* Calls in progress, of one thread or of two, have different contexts: a
\* context is handed out again only when the call that had it is over,
\* although getNewContext_ is locked and the release is not.
ContextsExclusive ==
    /\ \A t, u \in Threads : t # u => owned[t] \cap owned[u] = {}
    /\ variant = "x86_64" => InUse = UNION {owned[t] : t \in Threads}
    /\ \A t \in Threads : at[t] = "mark" => i[t] \in Contexts \ InUse

\* "No free contexts - terminating app": the program is ended only when every
\* context was in use as the search began, although contexts are released
\* while it runs.
ExitsOnlyWhenFull ==
    \A t \in Threads : at[t] \in {"full", "exit"} =>
        IF variant = "cdecl" THEN freeContextNumber = CONTEXT_PREALLOCATED_NUMBER
        ELSE busy[t] = Contexts
=============================================================================
