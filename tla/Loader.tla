------------------------------- MODULE Loader -------------------------------
(***************************************************************************)
(* The hooks that put a redirector between a caller and a profiled         *)
(* function: the elfperf part of _dl_fixup in ld.so, the elfperf part of   *)
(* __dlsym in libdl.so, and the redirector table of libelfperf.so they     *)
(* share through static variables and SysV segments.                       *)
(*                                                                         *)
(* ld.so initialises elfperf on the first eligible fixup, under a          *)
(* double-checked spinlock, and hands the result to libdl.so through the   *)
(* segment ELFPERF_SHARED_MEMORY_ID_REDIRECTOR_CONTEXT.  Registration of   *)
(* a function is not under any lock.                                       *)
(***************************************************************************)
EXTENDS Naturals, FiniteSets

CONSTANTS
    Threads,        \* threads of the process
    Main,           \* the initial one
    Names,          \* names listed in ELFPERF_PROFILE_FUNCTION
    Missing,        \* listed names that dlsym does not find
    Resolve,        \* name -> the address symbol lookup gives
    NULL,
    Envs,           \* environments the process may run in
    MaxSpins,       \* bound: failed acquisitions during one hold of the lock
    MaxCalls        \* bound: fixups and dlsyms per thread

\* Unlisted names: dlopen, which the hook treats apart, and all others
\* (pthread_create and dlsym among them).
Plain == {"dlopen", "other"}

ASSUME LoaderAssumption ==
    /\ Main \in Threads
    /\ Missing \subseteq Names
    /\ Names \cap Plain = {}
    /\ NULL \notin {Resolve[n] : n \in Names} \cup {"stale", "table"}
    /\ NULL \notin [Names -> {Resolve[n] : n \in Names} \cup {NULL}]
    /\ MaxSpins \in Nat /\ MaxCalls \in Nat
    /\ Envs \subseteq [enabled : BOOLEAN, complete : BOOLEAN, statSeg : BOOLEAN,
                       infoSeg : BOOLEAN, ctxSeg : BOOLEAN, stale : BOOLEAN]

VARIABLES
    env,            \* enabled: both variables set; complete: libelfperf.so has
                    \* every symbol; statSeg, infoSeg, ctxSeg: the segment can
                    \* be had; stale: segments are left from an earlier process
    ld,             \* the statics of _dl_fixup
    dl,             \* the statics of __dlsym
    shm,            \* the segments: stat is "stale", NULL or "table"; context is
                    \* "absent", "zero", "stale", "torn" or "own"
    infos,          \* NULL, or name -> addr of its FunctionInfo
    code,           \* name -> what its redirector's bytes hold
    mappings,       \* redirector tables mapped so far
    started,        \* threads that exist
    bound,          \* some fixup has returned: its slot in the GOT is bound
    pc,
    cur,            \* thread -> name and resolved value of its current call
    calls,          \* thread -> fixups and dlsyms it has made
    alive           \* FALSE once the process has crashed

table == <<infos, code, mappings>>
threadVars == <<started, bound, cur, calls>>
vars == <<env, ld, dl, shm, infos, code, mappings, started, bound, pc, cur,
          calls, alive>>

\* An unregistered redirector: its first four bytes are 0.
Blank == [head |-> FALSE, fn |-> NULL, tail |-> FALSE]

Complete(n) == code[n].head /\ code[n].tail /\ code[n].fn = Resolve[n]

LoaderInit ==
    /\ env \in Envs
    /\ ld = [functionStorageInited |-> FALSE, initialized |-> FALSE,
             elfperfFuncs |-> FALSE, errorDuringElfperfFunctionLoad |-> FALSE,
             elfperfInitSpinlock |-> 0, names |-> FALSE, redirectors |-> FALSE]
    /\ dl = [elfperfContext |-> FALSE, context |-> "zero", elfperfFuncs |-> "zero",
             errorDuringElfperfContextLoading |-> FALSE]
    /\ shm = [stat |-> IF env.stale THEN "stale" ELSE NULL,
              context |-> IF env.stale /\ env.ctxSeg THEN "stale" ELSE "absent"]
    /\ infos = NULL
    /\ code = [n \in Names |-> Blank]
    /\ mappings = 0
    /\ started = {Main}
    /\ bound = FALSE
    /\ pc = [t \in Threads |-> "idle"]
    /\ cur = [t \in Threads |-> [name |-> "dlopen", value |-> NULL]]
    /\ calls = [t \in Threads |-> 0]
    /\ alive = TRUE

Goto(t, from, to) ==
    /\ alive
    /\ pc[t] = from
    /\ pc' = [pc EXCEPT ![t] = to]

Begin(t, n, v, to) ==
    /\ t \in started
    /\ calls[t] < MaxCalls
    /\ Goto(t, "idle", to)
    /\ cur' = [cur EXCEPT ![t] = [name |-> n, value |-> v]]
    /\ calls' = [calls EXCEPT ![t] = @ + 1]

-----------------------------------------------------------------------------
(* _dl_fixup *)

ValueOf(n) == IF n \in Names THEN Resolve[n] ELSE NULL

\* A lazily bound call: the symbol is looked up as always, then the first
\* test of the hook reads the two flags.
Fixup(t, n) ==
    /\ n \notin Missing
    /\ Begin(t, n, ValueOf(n),
             IF env.enabled /\ ~(ld.initialized \/ ld.functionStorageInited)
             THEN "storage" ELSE "conditions")
    /\ UNCHANGED <<env, started, bound, ld, table, shm, dl, alive>>

\* initFunctionStatisticsStorage: create or find the segment and store NULL.
InitStatisticsStorage(t) ==
    /\ Goto(t, "storage", "stored")
    /\ shm' = [shm EXCEPT !.stat = IF env.statSeg THEN NULL ELSE @]
    /\ UNCHANGED <<env, ld, table, dl, threadVars, alive>>

\* Faulty: functionStorageInited is never set.
SetStorageInitedForgets(t) ==
    /\ Goto(t, "stored", "conditions")
    /\ UNCHANGED <<env, ld, table, shm, dl, threadVars, alive>>

SetStorageInited(t) ==
    /\ Goto(t, "stored", "conditions")
    /\ ld' = [ld EXCEPT !.functionStorageInited = TRUE]
    /\ UNCHANGED <<env, table, shm, dl, threadVars, alive>>

\* goto skip_elfperf: profiling is off, the name is not listed, libelfperf.so
\* is not found from the caller's link map or the caller is a library that is
\* left alone (any call may be such a one), or loading failed before.
Skip(t) ==
    /\ Goto(t, "conditions", "return")
    /\ UNCHANGED <<env, ld, table, shm, dl, threadVars, alive>>

Proceed(t) ==
    /\ env.enabled
    /\ cur[t].name \in Names \cup {"dlopen"}
    /\ ~ld.errorDuringElfperfFunctionLoad
    /\ Goto(t, "conditions", IF ld.elfperfFuncs THEN "loaded" ELSE "load")
    /\ UNCHANGED <<env, ld, table, shm, dl, threadVars, alive>>

\* getElfperfFunctions: every symbol is found, or NULL is stored and the
\* error flag is set.
LoadFunctions(t) ==
    /\ Goto(t, "load", IF env.complete THEN "loaded" ELSE "return")
    /\ ld' = [ld EXCEPT !.elfperfFuncs = env.complete,
                        !.errorDuringElfperfFunctionLoad = @ \/ ~env.complete]
    /\ UNCHANGED <<env, table, shm, dl, threadVars, alive>>

\* The first, unlocked test of initialized.
TestInitialized(t) ==
    /\ Goto(t, "loaded", IF ld.initialized THEN "routines" ELSE "spin")
    /\ UNCHANGED <<env, ld, table, shm, dl, threadVars, alive>>

Spin(t) ==
    /\ ld.elfperfInitSpinlock <= MaxSpins
    /\ Goto(t, "spin", IF ld.elfperfInitSpinlock = 0 THEN "recheck" ELSE "spin")
    /\ ld' = [ld EXCEPT !.elfperfInitSpinlock = @ + 1]
    /\ UNCHANGED <<env, table, shm, dl, threadVars, alive>>

\* A waiter at the bound goes on spinning, with nothing for others to see.
KeepSpinning(t) ==
    /\ alive
    /\ pc[t] = "spin"
    /\ ld.elfperfInitSpinlock > MaxSpins
    /\ UNCHANGED vars

\* Faulty: no second test of initialized.
RecheckMissing(t) ==
    /\ Goto(t, "recheck", "names")
    /\ UNCHANGED <<env, ld, table, shm, dl, threadVars, alive>>

\* The second test, under the lock: somebody may have initialised meanwhile.
Recheck(t) ==
    /\ Goto(t, "recheck", IF ld.initialized THEN "routines" ELSE "names")
    /\ ld' = [ld EXCEPT !.elfperfInitSpinlock = IF ld.initialized THEN 0 ELSE @]
    /\ UNCHANGED <<env, table, shm, dl, threadVars, alive>>

\* Faulty: initialized is set before the rest is in place.
FillNamesEarlyFlag(t) ==
    /\ Goto(t, "names", "redirectors")
    /\ ld' = [ld EXCEPT !.names = TRUE, !.initialized = TRUE]
    /\ UNCHANGED <<env, table, shm, dl, threadVars, alive>>

\* context.names and context.count from get_fn_list.
FillNames(t) ==
    /\ Goto(t, "names", "redirectors")
    /\ ld' = [ld EXCEPT !.names = TRUE]
    /\ UNCHANGED <<env, table, shm, dl, threadVars, alive>>

\* initWrapperRedirectors, then infos = getFunctionInfoStorage(): a fresh
\* FunctionInfo array, a fresh zeroed redirector table.
InitWrapperRedirectors(t) ==
    /\ Goto(t, "redirectors", "segment")
    /\ infos' = IF env.infoSeg THEN [n \in Names |-> NULL] ELSE NULL
    /\ ld' = [ld EXCEPT !.redirectors = TRUE]
    /\ code' = [n \in Names |-> Blank]
    /\ mappings' = mappings + 1
    /\ UNCHANGED <<env, shm, dl, threadVars, alive>>

\* initElfperfContextStorage: shmget creates a zeroed segment, the struct is
\* then copied into it field by field.
CreateContextSegment(t) ==
    /\ Goto(t, "segment", IF env.ctxSeg THEN "copy" ELSE "finish")
    /\ shm' = [shm EXCEPT !.context = IF env.ctxSeg /\ @ = "absent" THEN "zero" ELSE @]
    /\ UNCHANGED <<env, ld, table, dl, threadVars, alive>>

CopyContext(t) ==
    /\ Goto(t, "copy", "copied")
    /\ shm' = [shm EXCEPT !.context = "torn"]
    /\ UNCHANGED <<env, ld, table, dl, threadVars, alive>>

ContextCopied(t) ==
    /\ Goto(t, "copied", "finish")
    /\ shm' = [shm EXCEPT !.context = "own"]
    /\ UNCHANGED <<env, ld, table, dl, threadVars, alive>>

SetInitialized(t) ==
    /\ Goto(t, "finish", "unlock")
    /\ ld' = [ld EXCEPT !.initialized = TRUE]
    /\ UNCHANGED <<env, table, shm, dl, threadVars, alive>>

\* Faulty: the lock word is counted down instead of cleared.
UnlockDecrements(t) ==
    /\ Goto(t, "unlock", "routines")
    /\ ld' = [ld EXCEPT !.elfperfInitSpinlock = @ - 1]
    /\ UNCHANGED <<env, table, shm, dl, threadVars, alive>>

Unlock(t) ==
    /\ Goto(t, "unlock", "routines")
    /\ ld' = [ld EXCEPT !.elfperfInitSpinlock = 0]
    /\ UNCHANGED <<env, table, shm, dl, threadVars, alive>>

-----------------------------------------------------------------------------
(* Registration of a redirector, by either hook and under no lock *)

\* isFunctionRedirectorRegistered: the first four bytes are not all 0.
Registered(n) == code[n].head

\* Faulty: the redirector is written before the FunctionInfo.
TestRegisteredSkipsInfo(t) ==
    /\ Goto(t, "routines",
            IF cur[t].name \notin Names THEN "return"
            ELSE IF Registered(cur[t].name) THEN "redirect" ELSE "head")
    /\ UNCHANGED <<env, ld, table, shm, dl, threadVars, alive>>

TestRegistered(t) ==
    /\ Goto(t, "routines",
            IF cur[t].name \notin Names THEN "return"
            ELSE IF Registered(cur[t].name) THEN "redirect" ELSE "info")
    /\ UNCHANGED <<env, ld, table, shm, dl, threadVars, alive>>

\* Faulty: the name is stored for the address.
SetInfoStoresName(t) ==
    /\ Goto(t, "info", "head")
    /\ infos' = IF infos = NULL THEN NULL
                ELSE [infos EXCEPT ![cur[t].name] = cur[t].name]
    /\ UNCHANGED <<env, ld, code, mappings, shm, dl, threadVars, alive>>

\* getInfoByName, tmp->addr = value; a missing FunctionInfo is only logged.
SetInfo(t) ==
    /\ Goto(t, "info", "head")
    /\ infos' = IF infos = NULL THEN NULL
                ELSE [infos EXCEPT ![cur[t].name] = cur[t].value]
    /\ UNCHANGED <<env, ld, code, mappings, shm, dl, threadVars, alive>>

\* Faulty: the slot is cleared before it is written.
WriteHeadClears(t) ==
    /\ Goto(t, "head", "fn")
    /\ code' = [code EXCEPT ![cur[t].name] = [Blank EXCEPT !.head = TRUE]]
    /\ UNCHANGED <<env, ld, infos, mappings, shm, dl, threadVars, alive>>

\* writeRedirectionCode: push %rax; mov ...,
WriteHead(t) ==
    /\ Goto(t, "head", "fn")
    /\ code' = [code EXCEPT ![cur[t].name].head = TRUE]
    /\ UNCHANGED <<env, ld, infos, mappings, shm, dl, threadVars, alive>>

\* ... $fcnPtr,
WriteFn(t) ==
    /\ Goto(t, "fn", "tail")
    /\ code' = [code EXCEPT ![cur[t].name].fn = cur[t].value]
    /\ UNCHANGED <<env, ld, infos, mappings, shm, dl, threadVars, alive>>

\* push %rax; mov $wrapper, %rax; jmp *%rax.
WriteTail(t) ==
    /\ Goto(t, "tail", "redirect")
    /\ code' = [code EXCEPT ![cur[t].name].tail = TRUE]
    /\ UNCHANGED <<env, ld, infos, mappings, shm, dl, threadVars, alive>>

\* getRedirectorAddressForName: the redirector replaces the resolved value
\* and the caller jumps to it.
Redirect(t) ==
    /\ Goto(t, "redirect", "run")
    /\ bound' = TRUE
    /\ UNCHANGED <<env, started, cur, calls, ld, table, shm, dl, alive>>

\* The call returns unredirected.
Return(t) ==
    /\ Goto(t, "return", "idle")
    /\ bound' = TRUE
    /\ UNCHANGED <<env, started, cur, calls, ld, table, shm, dl, alive>>

-----------------------------------------------------------------------------
(* __dlsym *)

\* dlsym is itself reached through a bound slot.
Dlsym(t, n) ==
    /\ bound
    /\ Begin(t, n, IF n \in Missing THEN NULL ELSE ValueOf(n), "dlsym")
    /\ UNCHANGED <<env, started, bound, ld, table, shm, dl, alive>>

DlsymEligible(t) ==
    env.enabled /\ cur[t].name \in Names /\ ~dl.errorDuringElfperfContextLoading

\* goto skip_elfperf_libdl.
DlsymSkip(t) ==
    /\ ~DlsymEligible(t)
    /\ Goto(t, "dlsym", "return")
    /\ UNCHANGED <<env, ld, table, shm, dl, threadVars, alive>>

\* if (elfperfContext == NULL) elfperfContext = getElfperfContextStorage().
DlsymAttach(t) ==
    /\ DlsymEligible(t) /\ ~dl.elfperfContext
    /\ Goto(t, "dlsym", IF shm.context = "absent" THEN "return" ELSE "dlcontext")
    /\ dl' = IF shm.context = "absent"
             THEN [dl EXCEPT !.errorDuringElfperfContextLoading = TRUE]
             ELSE [dl EXCEPT !.elfperfContext = TRUE]
    /\ UNCHANGED <<env, ld, table, shm, threadVars, alive>>

DlsymAttached(t) ==
    /\ DlsymEligible(t) /\ dl.elfperfContext
    /\ Goto(t, "dlsym", "dlregister")
    /\ UNCHANGED <<env, ld, table, shm, dl, threadVars, alive>>

DlsymCopyContext(t) ==
    /\ Goto(t, "dlcontext", "dlfuncs")
    /\ dl' = [dl EXCEPT !.context = shm.context]
    /\ UNCHANGED <<env, ld, table, shm, threadVars, alive>>

DlsymCopyFuncs(t) ==
    /\ Goto(t, "dlfuncs", "dlregister")
    /\ dl' = [dl EXCEPT !.elfperfFuncs = shm.context]
    /\ UNCHANGED <<env, ld, table, shm, threadVars, alive>>

DlsymReady == dl.context = "own" /\ dl.elfperfFuncs = "own"

\* "successful intialization": the libelfperf routines are called.
DlsymRegister(t) ==
    /\ DlsymReady
    /\ Goto(t, "dlregister", "routines")
    /\ UNCHANGED <<env, ld, table, shm, dl, threadVars, alive>>

\* A call through pointers that are not, or not yet, those of this process.
DlsymCrash(t) ==
    /\ ~DlsymReady
    /\ Goto(t, "dlregister", "dlregister")
    /\ alive' = FALSE
    /\ UNCHANGED <<env, ld, table, shm, dl, threadVars>>

-----------------------------------------------------------------------------
(* The program *)

\* The redirector runs the wrapper, which in the end records the call:
\* initSharedMemory stores the statistics table in its segment.
Run(t) ==
    /\ Goto(t, "run", "idle")
    /\ Complete(cur[t].name)
    /\ env.statSeg
    /\ shm' = [shm EXCEPT !.stat = "table"]
    /\ UNCHANGED <<env, ld, table, dl, threadVars, alive>>

\* Half-written code, the address NULL or a missing statistics segment.
RunCrash(t) ==
    /\ Goto(t, "run", "run")
    /\ ~(Complete(cur[t].name) /\ env.statSeg)
    /\ alive' = FALSE
    /\ UNCHANGED <<env, ld, table, shm, dl, threadVars>>

\* pthread_create is reached through a bound slot.
Spawn(t, u) ==
    /\ alive
    /\ t \in started /\ u \notin started
    /\ pc[t] = "idle"
    /\ bound
    /\ started' = started \cup {u}
    /\ UNCHANGED <<env, bound, cur, calls, pc, ld, table, shm, dl, alive>>

Initialise(t) ==
    \/ Recheck(t) \/ FillNames(t) \/ InitWrapperRedirectors(t)
    \/ CreateContextSegment(t) \/ CopyContext(t) \/ ContextCopied(t)
    \/ SetInitialized(t) \/ Unlock(t)

Register(t) ==
    \/ TestRegistered(t) \/ SetInfo(t)
    \/ WriteHead(t) \/ WriteFn(t) \/ WriteTail(t) \/ Redirect(t) \/ Return(t)

Step(t) ==
    \/ InitStatisticsStorage(t) \/ SetStorageInited(t) \/ Skip(t) \/ Proceed(t)
    \/ LoadFunctions(t) \/ TestInitialized(t) \/ Spin(t) \/ KeepSpinning(t)
    \/ Initialise(t)
    \/ Register(t)
    \/ DlsymSkip(t) \/ DlsymAttach(t) \/ DlsymAttached(t) \/ DlsymCopyContext(t)
    \/ DlsymCopyFuncs(t) \/ DlsymRegister(t) \/ DlsymCrash(t)
    \/ Run(t) \/ RunCrash(t)

\* The process has ended, or the bounded calls are made.
Finished ==
    /\ ~alive \/ \A t \in started : pc[t] = "idle" /\ calls[t] = MaxCalls
    /\ UNCHANGED vars

LoaderNext ==
    \/ \E t \in Threads :
        \/ \E n \in Names \cup Plain : Fixup(t, n) \/ Dlsym(t, n)
        \/ \E u \in Threads : Spawn(t, u)
        \/ Step(t)
    \/ Finished

LoaderSpec == LoaderInit /\ [][LoaderNext]_vars

\* Every thread inside a hook, or inside a profiled call, is scheduled.
FairLoaderSpec == LoaderSpec /\ \A t \in Threads : WF_vars(Step(t))

-----------------------------------------------------------------------------
(* Properties *)

Initialising == {"recheck", "names", "redirectors", "segment", "copy", "copied",
                 "finish", "unlock"}

PCs == {"idle", "storage", "stored", "conditions", "load", "loaded", "spin",
        "routines", "info", "head", "fn", "tail", "redirect", "run", "return",
        "dlsym", "dlcontext", "dlfuncs", "dlregister"} \cup Initialising

Values == {Resolve[n] : n \in Names} \cup {NULL}

SegmentStates == {"absent", "zero", "stale", "torn", "own"}

\* Every static, segment and redirector holds one of the values its code gives it.
TypeOK ==
    /\ env \in Envs
    /\ ld \in [functionStorageInited : BOOLEAN, initialized : BOOLEAN,
               elfperfFuncs : BOOLEAN, errorDuringElfperfFunctionLoad : BOOLEAN,
               elfperfInitSpinlock : 0..(MaxSpins + 1),
               names : BOOLEAN, redirectors : BOOLEAN]
    /\ dl \in [elfperfContext : BOOLEAN, context : SegmentStates,
               elfperfFuncs : SegmentStates, errorDuringElfperfContextLoading : BOOLEAN]
    /\ shm \in [stat : {"stale", "table", NULL}, context : SegmentStates]
    /\ infos \in [Names -> Values] \cup {NULL}
    /\ code \in [Names -> [head : BOOLEAN, fn : Values, tail : BOOLEAN]]
    /\ mappings \in Nat
    /\ started \subseteq Threads /\ bound \in BOOLEAN /\ alive \in BOOLEAN
    /\ pc \in [Threads -> PCs]
    /\ cur \in [Threads -> [name : Names \cup Plain, value : Values]]
    /\ calls \in [Threads -> 0..MaxCalls]

\* "Critical section - prevent miltiple initialization of elfperf": whatever
\* the interleaving of first fixups, one redirector table is ever mapped, and
\* no thread is about to map a second one.
InitOnce ==
    /\ mappings <= 1
    /\ mappings = 1 => \A t \in Threads : pc[t] \notin {"names", "redirectors"}

\* initialized, which is read without the lock, is only set when all that the
\* lock-free path uses is in place: pointers, names, redirectors, the
\* FunctionInfo array, and the context of this process for libdl.so.
InitializedMeansReady ==
    ld.initialized =>
        /\ ld.elfperfFuncs /\ ld.names /\ ld.redirectors
        /\ env.infoSeg => infos # NULL
        /\ env.ctxSeg => shm.context = "own"

\* The address a redirector passes to the wrapper, and so to the statistics,
\* has its FunctionInfo: printElfperfResults can name every record.
EveryAddressNamed ==
    env.infoSeg => \A n \in Names : code[n].fn # NULL => infos[n] = code[n].fn

\* The NULL that _dl_fixup stores in the statistics segment, on a test of two
\* flags made without a lock, never wipes out a published statistics table.
StatisticsNeverDropped ==
    [][shm.stat = "table" => shm'.stat = "table"]_vars

\* A redirector that is in place is never zeroed or changed again.
RedirectorsStay ==
    [][\A n \in Names : Complete(n) => Complete(n)']_vars

\* A thread that enters _dl_fixup, dlsym or a redirected call comes out of it
\* again, unless the process dies.
EveryHookReturns ==
    \A t \in Threads : pc[t] # "idle" ~> pc[t] = "idle" \/ ~alive

\* "Return true, if redirector for function with name = @name@ is already
\* registered": a thread that was told so jumps to finished code.
RegisteredMeansComplete ==
    \A t \in Threads : pc[t] = "run" /\ cur[t].value # NULL => Complete(cur[t].name)

\* "libdl.so: successful intialization": from there on __dlsym uses the
\* context and the function pointers that ld.so published.
SuccessfulInitialization ==
    \A t \in Threads : pc[t] = "dlregister" => DlsymReady

\* Failure of dlsym is a NULL result: what __dlsym redirects was found.
NotFoundIsNull ==
    \A t \in Threads : pc[t] = "run" => cur[t].value # NULL
=============================================================================
