--------------------------- MODULE Loader_proofs ---------------------------
(***************************************************************************)
(* The safety properties of Loader for any number of threads and names,    *)
(* any environment and any bounds.                                         *)
(***************************************************************************)
EXTENDS Loader, TLAPS

-----------------------------------------------------------------------------
(* The inductive invariant *)

\* The lock word is not 0 while a thread is in the critical section, and at
\* most one thread is.
LockInv ==
    /\ \A t \in Threads : pc[t] \in Initialising => ld.elfperfInitSpinlock > 0
    /\ \A t, u \in Threads : pc[t] \in Initialising /\ pc[u] \in Initialising => t = u

Mapped == {"segment", "copy", "copied", "finish"}

\* How far the initialisation is, by the place of the thread that makes it.
SetupInv ==
    /\ mappings \in {0, 1}
    /\ mappings = 1 => ld.initialized \/ \E t \in Threads : pc[t] \in Mapped
    /\ ld.initialized \/ shm.context = "own" \/ dl.context = "own" => mappings = 1
    /\ ld.elfperfFuncs => env.complete
    /\ InitializedMeansReady
    /\ \A t \in Threads :
        /\ pc[t] \in {"loaded", "spin"} \cup Initialising => ld.elfperfFuncs
        /\ pc[t] \in {"names", "redirectors"} => ~ld.initialized /\ mappings = 0
        /\ pc[t] \in {"redirectors"} \cup Mapped => ld.names
        /\ pc[t] \in Mapped => /\ ~ld.initialized /\ mappings = 1 /\ ld.redirectors
                               /\ env.infoSeg => infos # NULL
        /\ pc[t] \in {"copy", "copied"} => env.ctxSeg
        /\ pc[t] = "finish" /\ env.ctxSeg => shm.context = "own"
        /\ pc[t] = "unlock" => ld.initialized
        /\ pc[t] \in {"routines", "info", "head", "fn", "tail"} => mappings = 1

\* The value that either hook finds for a listed name.
Found(n) == IF n \in Missing THEN NULL ELSE Resolve[n]

\* What has been registered, and what the threads are about to register.
RegisterInv ==
    /\ mappings = 0 => code = [n \in Names |-> Blank]
    /\ \A n \in Names : code[n].fn \in {NULL, Found(n)}
    /\ env.infoSeg /\ mappings = 1 => infos # NULL
    /\ env.infoSeg => \A n \in Names : code[n].fn # NULL => infos[n] = Found(n)
    /\ \A t \in Threads :
        /\ cur[t].name \in Names => cur[t].value = Found(cur[t].name)
        /\ pc[t] \in {"info", "head", "fn", "tail"} => cur[t].name \in Names
        /\ pc[t] \in {"head", "fn", "tail"} /\ env.infoSeg => infos[cur[t].name] = cur[t].value

\* The statistics segment is set to NULL before the first fixup returns, when
\* there is one thread and no call has been recorded.
StorageInv ==
    /\ ~bound => started = {Main}
    /\ bound /\ env.enabled => ld.functionStorageInited
    /\ ld.initialized => ld.functionStorageInited
    /\ shm.stat = "table" => bound
    /\ \A t \in Threads :
        /\ pc[t] # "idle" => t \in started
        /\ pc[t] \in {"storage", "stored"} => env.enabled /\ ~ld.functionStorageInited
        /\ pc[t] \notin {"idle", "storage", "stored"} /\ env.enabled => ld.functionStorageInited
        /\ pc[t] \in {"load", "loaded", "spin"} \cup Initialising => env.enabled
        /\ pc[t] = "run" => bound

LdType ==
    [functionStorageInited : BOOLEAN, initialized : BOOLEAN, elfperfFuncs : BOOLEAN,
     errorDuringElfperfFunctionLoad : BOOLEAN, elfperfInitSpinlock : 0..(MaxSpins + 1),
     names : BOOLEAN, redirectors : BOOLEAN]

DlType ==
    [elfperfContext : BOOLEAN, context : SegmentStates, elfperfFuncs : SegmentStates,
     errorDuringElfperfContextLoading : BOOLEAN]

CodeType == [Names -> [head : BOOLEAN, fn : Values, tail : BOOLEAN]]

LoaderInv == TypeOK /\ LockInv /\ SetupInv /\ RegisterInv /\ StorageInv

-----------------------------------------------------------------------------
(* Preservation *)

LEMMA Initially == LoaderInit => LoaderInv
  <1> SUFFICES ASSUME LoaderInit PROVE LoaderInv
    OBVIOUS
  <1> USE LoaderAssumption DEF LoaderInit
  <1>1. TypeOK
    <2>1. ld \in LdType /\ dl \in DlType
      BY DEF LdType, DlType, SegmentStates
    <2>2. code \in CodeType
      BY DEF CodeType, Blank, Values
    <2>3. shm \in [stat : {"stale", "table", NULL}, context : SegmentStates]
      BY DEF SegmentStates
    <2>4. /\ pc \in [Threads -> PCs]
          /\ cur \in [Threads -> [name : Names \cup Plain, value : Values]]
      BY DEF PCs, Values, Plain
    <2>5. env \in Envs /\ infos = NULL /\ mappings \in Nat /\ started \subseteq Threads
      OBVIOUS
    <2>6. bound \in BOOLEAN /\ alive \in BOOLEAN
      BY Zenon
    <2>7. calls \in [Threads -> 0..MaxCalls]
      OBVIOUS
    <2> HIDE DEF LoaderInit
    <2> QED
      BY <2>1, <2>2, <2>3, <2>4, <2>5, <2>6, <2>7 DEF TypeOK, LdType, DlType, CodeType
  <1>2. LockInv
    BY DEF LockInv, Initialising
  <1>3. SetupInv
    BY DEF SetupInv, InitializedMeansReady, Mapped, Initialising
  <1>4. RegisterInv
    BY DEF RegisterInv, Blank, Plain
  <1>5. StorageInv
    BY DEF StorageInv, Initialising
  <1> QED
    BY <1>1, <1>2, <1>3, <1>4, <1>5 DEF LoaderInv

LEMMA TypeStep ==
    ASSUME TypeOK, [LoaderNext]_vars
    PROVE  TypeOK'
  <1> USE LoaderAssumption DEF TypeOK
  <1>1. CASE UNCHANGED vars
    BY <1>1 DEF vars, Values, PCs, Initialising, SegmentStates
  <1>2. ASSUME NEW t \in Threads, NEW n \in Names \cup Plain, Fixup(t, n) PROVE TypeOK'
    BY <1>2 DEF Fixup, Begin, Goto, ValueOf, table, threadVars, Values, PCs, Initialising,
       SegmentStates
  <1>3. ASSUME NEW t \in Threads, NEW n \in Names \cup Plain, Dlsym(t, n) PROVE TypeOK'
    BY <1>3 DEF Dlsym, Begin, Goto, ValueOf, table, threadVars, Values, PCs, Initialising,
       SegmentStates
  <1>4. ASSUME NEW t \in Threads, NEW u \in Threads, Spawn(t, u) PROVE TypeOK'
    BY <1>4 DEF Spawn, table, threadVars, Values, PCs, Initialising, SegmentStates
  <1>5. ASSUME NEW t \in Threads, Skip(t) \/ Proceed(t) \/ TestInitialized(t) \/
               TestRegistered(t) \/ DlsymSkip(t) \/ DlsymAttached(t) PROVE TypeOK'
    <2>1. pc' \in [Threads -> PCs]
      BY <1>5, SMTT(60) DEF Skip, Proceed, TestInitialized, TestRegistered, DlsymSkip, DlsymAttached, Goto,
               PCs, Initialising
    <2> QED
      BY <1>5, <2>1, ZenonT(60) DEF Skip, Proceed, TestInitialized, TestRegistered, DlsymSkip, DlsymAttached,
                     table, threadVars, Values
  <1>6. ASSUME NEW t \in Threads, Redirect(t) \/ Return(t) PROVE TypeOK'
    BY <1>6, ZenonT(60) DEF Redirect, Return, Goto, table, threadVars, Values, PCs, Initialising,
       SegmentStates
  <1>7. ASSUME NEW t \in Threads, DlsymCrash(t) \/ RunCrash(t) PROVE TypeOK'
    <2>1. pc' = pc /\ alive' = FALSE
      BY <1>7 DEF DlsymCrash, RunCrash, Goto
    <2>2. alive' \in BOOLEAN
      BY <2>1, ZenonT(60)
    <2> QED
      BY <1>7, <2>1, <2>2, ZenonT(60) DEF DlsymCrash, RunCrash, table, threadVars, Values
  <1>8. ASSUME NEW t \in Threads, InitStatisticsStorage(t) PROVE TypeOK'
    BY <1>8 DEF InitStatisticsStorage, Goto, table, threadVars, Values, PCs, Initialising,
       SegmentStates
  <1>9. ASSUME NEW t \in Threads, SetStorageInited(t) PROVE TypeOK'
    <2>1. ld' \in LdType
      BY <1>9, ZenonT(60) DEF SetStorageInited, LdType
    <2>2. pc' \in [Threads -> PCs]
      BY <1>9 DEF SetStorageInited, Goto, PCs, Initialising
    <2> QED
      BY <1>9, <2>1, <2>2 DEF SetStorageInited, table, threadVars, LdType
  <1>10. ASSUME NEW t \in Threads, LoadFunctions(t) PROVE TypeOK'
    <2>1. ld' \in LdType
      BY <1>10, ZenonT(60) DEF LoadFunctions, LdType
    <2>2. pc' \in [Threads -> PCs]
      BY <1>10 DEF LoadFunctions, Goto, PCs, Initialising
    <2> QED
      BY <1>10, <2>1, <2>2 DEF LoadFunctions, table, threadVars, LdType
  <1>11. ASSUME NEW t \in Threads, Spin(t) PROVE TypeOK'
    <2>1. ld' \in LdType
      BY <1>11 DEF Spin, LdType
    <2>2. pc' \in [Threads -> PCs]
      BY <1>11 DEF Spin, Goto, PCs, Initialising
    <2> QED
      BY <1>11, <2>1, <2>2 DEF Spin, table, threadVars, LdType
  <1>12. ASSUME NEW t \in Threads, Recheck(t) PROVE TypeOK'
    <2>1. ld' \in LdType
      BY <1>12 DEF Recheck, LdType
    <2>2. pc' \in [Threads -> PCs]
      BY <1>12 DEF Recheck, Goto, PCs, Initialising
    <2> QED
      BY <1>12, <2>1, <2>2 DEF Recheck, table, threadVars, LdType
  <1>13. ASSUME NEW t \in Threads, FillNames(t) PROVE TypeOK'
    <2>1. ld' \in LdType
      BY <1>13, ZenonT(60) DEF FillNames, LdType
    <2>2. pc' \in [Threads -> PCs]
      BY <1>13 DEF FillNames, Goto, PCs, Initialising
    <2> QED
      BY <1>13, <2>1, <2>2 DEF FillNames, table, threadVars, LdType
  <1>14. ASSUME NEW t \in Threads, InitWrapperRedirectors(t) PROVE TypeOK'
    <2>1. ld' \in LdType
      BY <1>14, ZenonT(60) DEF InitWrapperRedirectors, LdType
    <2>2. code' \in CodeType
      BY <1>14 DEF InitWrapperRedirectors, CodeType, Blank, Values
    <2>3. pc' \in [Threads -> PCs]
      BY <1>14 DEF InitWrapperRedirectors, Goto, PCs, Initialising
    <2>4. infos' \in [Names -> Values] \cup {NULL} /\ mappings' \in Nat
      BY <1>14 DEF InitWrapperRedirectors, Values
    <2> QED
      BY <1>14, <2>1, <2>2, <2>3, <2>4
         DEF InitWrapperRedirectors, table, threadVars, LdType, CodeType
  <1>15. ASSUME NEW t \in Threads, CreateContextSegment(t) PROVE TypeOK'
    BY <1>15 DEF CreateContextSegment, Goto, table, threadVars, Values, PCs, Initialising,
       SegmentStates
  <1>16. ASSUME NEW t \in Threads, CopyContext(t) PROVE TypeOK'
    BY <1>16 DEF CopyContext, Goto, table, threadVars, Values, PCs, Initialising,
       SegmentStates
  <1>17. ASSUME NEW t \in Threads, ContextCopied(t) PROVE TypeOK'
    BY <1>17 DEF ContextCopied, Goto, table, threadVars, Values, PCs, Initialising,
       SegmentStates
  <1>18. ASSUME NEW t \in Threads, SetInitialized(t) PROVE TypeOK'
    <2>1. ld' \in LdType
      BY <1>18, ZenonT(60) DEF SetInitialized, LdType
    <2>2. pc' \in [Threads -> PCs]
      BY <1>18 DEF SetInitialized, Goto, PCs, Initialising
    <2> QED
      BY <1>18, <2>1, <2>2 DEF SetInitialized, table, threadVars, LdType
  <1>19. ASSUME NEW t \in Threads, Unlock(t) PROVE TypeOK'
    <2>1. ld' \in LdType
      BY <1>19 DEF Unlock, LdType
    <2>2. pc' \in [Threads -> PCs]
      BY <1>19 DEF Unlock, Goto, PCs, Initialising
    <2> QED
      BY <1>19, <2>1, <2>2 DEF Unlock, table, threadVars, LdType
  <1>20. ASSUME NEW t \in Threads, SetInfo(t) PROVE TypeOK'
    <2>1. infos' \in [Names -> Values] \cup {NULL}
      BY <1>20, ZenonT(60) DEF SetInfo
    <2>2. pc' \in [Threads -> PCs]
      BY <1>20 DEF SetInfo, Goto, PCs, Initialising
    <2> QED
      BY <1>20, <2>1, <2>2 DEF SetInfo, table, threadVars
  <1>21. ASSUME NEW t \in Threads, WriteHead(t) PROVE TypeOK'
    <2>1. code' \in CodeType
      BY <1>21, ZenonT(60) DEF WriteHead, CodeType
    <2>2. pc' \in [Threads -> PCs]
      BY <1>21 DEF WriteHead, Goto, PCs, Initialising
    <2> QED
      BY <1>21, <2>1, <2>2 DEF WriteHead, table, threadVars, CodeType
  <1>22. ASSUME NEW t \in Threads, WriteFn(t) PROVE TypeOK'
    <2>1. code' \in CodeType
      BY <1>22, ZenonT(60) DEF WriteFn, CodeType
    <2>2. pc' \in [Threads -> PCs]
      BY <1>22 DEF WriteFn, Goto, PCs, Initialising
    <2> QED
      BY <1>22, <2>1, <2>2 DEF WriteFn, table, threadVars, CodeType
  <1>23. ASSUME NEW t \in Threads, WriteTail(t) PROVE TypeOK'
    <2>1. code' \in CodeType
      BY <1>23, ZenonT(60) DEF WriteTail, CodeType
    <2>2. pc' \in [Threads -> PCs]
      BY <1>23 DEF WriteTail, Goto, PCs, Initialising
    <2> QED
      BY <1>23, <2>1, <2>2 DEF WriteTail, table, threadVars, CodeType
  <1>24. ASSUME NEW t \in Threads, DlsymAttach(t) PROVE TypeOK'
    <2>1. dl' \in DlType
      BY <1>24, ZenonT(60) DEF DlsymAttach, DlType, SegmentStates
    <2>2. pc' \in [Threads -> PCs]
      BY <1>24 DEF DlsymAttach, Goto, PCs, Initialising
    <2> QED
      BY <1>24, <2>1, <2>2 DEF DlsymAttach, table, threadVars, DlType
  <1>25. ASSUME NEW t \in Threads, DlsymCopyContext(t) PROVE TypeOK'
    <2>1. dl' \in DlType
      BY <1>25 DEF DlsymCopyContext, DlType, SegmentStates
    <2>2. pc' \in [Threads -> PCs]
      BY <1>25 DEF DlsymCopyContext, Goto, PCs, Initialising
    <2> QED
      BY <1>25, <2>1, <2>2 DEF DlsymCopyContext, table, threadVars, DlType
  <1>26. ASSUME NEW t \in Threads, DlsymCopyFuncs(t) PROVE TypeOK'
    <2>1. dl' \in DlType
      BY <1>26 DEF DlsymCopyFuncs, DlType, SegmentStates
    <2>2. pc' \in [Threads -> PCs]
      BY <1>26 DEF DlsymCopyFuncs, Goto, PCs, Initialising
    <2> QED
      BY <1>26, <2>1, <2>2 DEF DlsymCopyFuncs, table, threadVars, DlType
  <1>27. ASSUME NEW t \in Threads, DlsymRegister(t) PROVE TypeOK'
    BY <1>27 DEF DlsymRegister, Goto, table, threadVars, Values, PCs, Initialising,
       SegmentStates
  <1>28. ASSUME NEW t \in Threads, Run(t) PROVE TypeOK'
    BY <1>28 DEF Run, Goto, table, threadVars, Values, PCs, Initialising, SegmentStates
  <1> QED
    BY <1>1, <1>2, <1>3, <1>4, <1>5, <1>6, <1>7, <1>8, <1>9, <1>10, <1>11, <1>12, <1>13, ZenonT(60),
       <1>14, <1>15, <1>16, <1>17, <1>18, <1>19, <1>20, <1>21, <1>22, <1>23, <1>24, <1>25,
       <1>26, <1>27, <1>28
       DEF LoaderNext, Step, Initialise, Register, KeepSpinning, Finished

LEMMA LockStep ==
    ASSUME TypeOK, LockInv, [LoaderNext]_vars
    PROVE  LockInv'
  <1> USE LoaderAssumption DEF LockInv, TypeOK
  <1>1. CASE UNCHANGED vars
    BY <1>1 DEF vars, Initialising
  <1>2. ASSUME NEW t \in Threads, NEW n \in Names \cup Plain, Fixup(t, n) PROVE LockInv'
    BY <1>2, SMTT(60) DEF Fixup, Begin, Goto, ValueOf, table, threadVars, Initialising
  <1>3. ASSUME NEW t \in Threads, NEW n \in Names \cup Plain, Dlsym(t, n) PROVE LockInv'
    BY <1>3 DEF Dlsym, Begin, Goto, ValueOf, table, threadVars, Initialising
  <1>4. ASSUME NEW t \in Threads, NEW u \in Threads, Spawn(t, u) PROVE LockInv'
    BY <1>4 DEF Spawn, table, threadVars, Initialising
  <1>5. ASSUME NEW t \in Threads, Skip(t) \/ Proceed(t) \/ TestInitialized(t) \/
               TestRegistered(t) \/ DlsymSkip(t) \/ DlsymAttached(t) PROVE LockInv'
    BY <1>5 DEF Skip, Proceed, TestInitialized, TestRegistered, DlsymSkip, DlsymAttached,
       Goto, table, threadVars, Initialising
  <1>6. ASSUME NEW t \in Threads, Redirect(t) \/ Return(t) PROVE LockInv'
    BY <1>6 DEF Redirect, Return, Goto, table, threadVars, Initialising
  <1>7. ASSUME NEW t \in Threads, DlsymCrash(t) \/ RunCrash(t) PROVE LockInv'
    BY <1>7 DEF DlsymCrash, RunCrash, Goto, table, threadVars, Initialising
  <1>8. ASSUME NEW t \in Threads, WriteHead(t) \/ WriteFn(t) \/ WriteTail(t) PROVE LockInv'
    BY <1>8 DEF WriteHead, WriteFn, WriteTail, Goto, table, threadVars, Initialising
  <1>9. ASSUME NEW t \in Threads, DlsymAttach(t) \/ DlsymCopyContext(t) \/
               DlsymCopyFuncs(t) \/ DlsymRegister(t) PROVE LockInv'
    BY <1>9 DEF DlsymAttach, DlsymCopyContext, DlsymCopyFuncs, DlsymRegister, Goto, table,
       threadVars, Initialising
  <1>10. ASSUME NEW t \in Threads, InitStatisticsStorage(t) PROVE LockInv'
    BY <1>10 DEF InitStatisticsStorage, Goto, table, threadVars, Initialising
  <1>11. ASSUME NEW t \in Threads, SetStorageInited(t) PROVE LockInv'
    BY <1>11 DEF SetStorageInited, Goto, table, threadVars, Initialising
  <1>12. ASSUME NEW t \in Threads, LoadFunctions(t) PROVE LockInv'
    BY <1>12 DEF LoadFunctions, Goto, table, threadVars, Initialising
  <1>13. ASSUME NEW t \in Threads, Spin(t) PROVE LockInv'
    BY <1>13 DEF Spin, Goto, table, threadVars, Initialising
  <1>14. ASSUME NEW t \in Threads, Recheck(t) PROVE LockInv'
    BY <1>14 DEF Recheck, Goto, table, threadVars, Initialising
  <1>15. ASSUME NEW t \in Threads, FillNames(t) PROVE LockInv'
    BY <1>15 DEF FillNames, Goto, table, threadVars, Initialising
  <1>16. ASSUME NEW t \in Threads, InitWrapperRedirectors(t) PROVE LockInv'
    BY <1>16 DEF InitWrapperRedirectors, Goto, table, threadVars, Initialising
  <1>17. ASSUME NEW t \in Threads, CreateContextSegment(t) PROVE LockInv'
    BY <1>17 DEF CreateContextSegment, Goto, table, threadVars, Initialising
  <1>18. ASSUME NEW t \in Threads, CopyContext(t) PROVE LockInv'
    BY <1>18 DEF CopyContext, Goto, table, threadVars, Initialising
  <1>19. ASSUME NEW t \in Threads, ContextCopied(t) PROVE LockInv'
    BY <1>19 DEF ContextCopied, Goto, table, threadVars, Initialising
  <1>20. ASSUME NEW t \in Threads, SetInitialized(t) PROVE LockInv'
    BY <1>20 DEF SetInitialized, Goto, table, threadVars, Initialising
  <1>21. ASSUME NEW t \in Threads, Unlock(t) PROVE LockInv'
    BY <1>21 DEF Unlock, Goto, table, threadVars, Initialising
  <1>22. ASSUME NEW t \in Threads, SetInfo(t) PROVE LockInv'
    BY <1>22 DEF SetInfo, Goto, table, threadVars, Initialising
  <1>23. ASSUME NEW t \in Threads, Run(t) PROVE LockInv'
    BY <1>23 DEF Run, Goto, table, threadVars, Initialising
  <1> QED
    BY <1>1, <1>2, <1>3, <1>4, <1>5, <1>6, <1>7, <1>8, <1>9, <1>10, <1>11, <1>12, <1>13, ZenonT(60),
       <1>14, <1>15, <1>16, <1>17, <1>18, <1>19, <1>20, <1>21, <1>22, <1>23
       DEF LoaderNext, Step, Initialise, Register, KeepSpinning, Finished

LEMMA SetupStep ==
    ASSUME TypeOK, LockInv, SetupInv, [LoaderNext]_vars
    PROVE  SetupInv'
  <1> USE LoaderAssumption DEF LockInv, SetupInv, TypeOK, InitializedMeansReady
  <1>1. CASE UNCHANGED vars
    BY <1>1 DEF vars, Initialising, Mapped
  <1>2. ASSUME NEW t \in Threads, NEW n \in Names \cup Plain, Fixup(t, n) PROVE SetupInv'
    BY <1>2 DEF Fixup, Begin, Goto, ValueOf, table, threadVars, Initialising, Mapped
  <1>3. ASSUME NEW t \in Threads, NEW n \in Names \cup Plain, Dlsym(t, n) PROVE SetupInv'
    BY <1>3 DEF Dlsym, Begin, Goto, ValueOf, table, threadVars, Initialising, Mapped
  <1>4. ASSUME NEW t \in Threads, NEW u \in Threads, Spawn(t, u) PROVE SetupInv'
    BY <1>4 DEF Spawn, table, threadVars, Initialising, Mapped
  <1>5. ASSUME NEW t \in Threads, Skip(t) \/ Proceed(t) \/ TestInitialized(t) \/
               TestRegistered(t) \/ DlsymSkip(t) \/ DlsymAttached(t) PROVE SetupInv'
    BY <1>5, SMTT(60) DEF Skip, Proceed, TestInitialized, TestRegistered, DlsymSkip, DlsymAttached,
       Goto, table, threadVars, Initialising, Mapped
  <1>6. ASSUME NEW t \in Threads, Redirect(t) \/ Return(t) PROVE SetupInv'
    BY <1>6 DEF Redirect, Return, Goto, table, threadVars, Initialising, Mapped
  <1>7. ASSUME NEW t \in Threads, DlsymCrash(t) \/ RunCrash(t) PROVE SetupInv'
    BY <1>7, SMTT(60) DEF DlsymCrash, RunCrash, Goto, table, threadVars, Initialising, Mapped
  <1>8. ASSUME NEW t \in Threads, WriteHead(t) \/ WriteFn(t) \/ WriteTail(t) PROVE SetupInv'
    BY <1>8 DEF WriteHead, WriteFn, WriteTail, Goto, table, threadVars, Initialising, Mapped
  <1>9. ASSUME NEW t \in Threads, InitStatisticsStorage(t) PROVE SetupInv'
    BY <1>9 DEF InitStatisticsStorage, Goto, table, threadVars, Initialising, Mapped
  <1>10. ASSUME NEW t \in Threads, SetStorageInited(t) PROVE SetupInv'
    BY <1>10 DEF SetStorageInited, Goto, table, threadVars, Initialising, Mapped
  <1>11. ASSUME NEW t \in Threads, LoadFunctions(t) PROVE SetupInv'
    BY <1>11 DEF LoadFunctions, Goto, table, threadVars, Initialising, Mapped
  <1>12. ASSUME NEW t \in Threads, Spin(t) PROVE SetupInv'
    BY <1>12 DEF Spin, Goto, table, threadVars, Initialising, Mapped
  <1>13. ASSUME NEW t \in Threads, Recheck(t) PROVE SetupInv'
    BY <1>13 DEF Recheck, Goto, table, threadVars, Initialising, Mapped
  <1>14. ASSUME NEW t \in Threads, FillNames(t) PROVE SetupInv'
    BY <1>14 DEF FillNames, Goto, table, threadVars, Initialising, Mapped
  <1>15. ASSUME NEW t \in Threads, InitWrapperRedirectors(t) PROVE SetupInv'
    BY <1>15 DEF InitWrapperRedirectors, Goto, table, threadVars, Initialising, Mapped
  <1>16. ASSUME NEW t \in Threads, CreateContextSegment(t) PROVE SetupInv'
    BY <1>16 DEF CreateContextSegment, Goto, table, threadVars, Initialising, Mapped
  <1>17. ASSUME NEW t \in Threads, CopyContext(t) PROVE SetupInv'
    BY <1>17 DEF CopyContext, Goto, table, threadVars, Initialising, Mapped
  <1>18. ASSUME NEW t \in Threads, ContextCopied(t) PROVE SetupInv'
    BY <1>18 DEF ContextCopied, Goto, table, threadVars, Initialising, Mapped
  <1>19. ASSUME NEW t \in Threads, SetInitialized(t) PROVE SetupInv'
    BY <1>19 DEF SetInitialized, Goto, table, threadVars, Initialising, Mapped
  <1>20. ASSUME NEW t \in Threads, Unlock(t) PROVE SetupInv'
    BY <1>20 DEF Unlock, Goto, table, threadVars, Initialising, Mapped
  <1>21. ASSUME NEW t \in Threads, SetInfo(t) PROVE SetupInv'
    <2>1. infos # NULL => infos' # NULL
      <3>1. CASE infos = NULL
        BY <3>1
      <3>2. CASE infos \in [Names -> Values]
        <4>1. cur[t].value \in Values
          BY DEF TypeOK
        <4>2. NULL \notin [Names -> Values]
          BY DEF Values
        <4>3. infos' \in [Names -> Values]
          BY <1>21, <3>2, <4>1, <4>2, ZenonT(60) DEF SetInfo
        <4> QED
          BY <4>2, <4>3
      <3> QED
        BY <3>1, <3>2 DEF TypeOK
    <2> QED
      BY <1>21, <2>1, SMTT(60) DEF SetInfo, Goto, table, threadVars, Initialising, Mapped
  <1>22. ASSUME NEW t \in Threads, DlsymAttach(t) PROVE SetupInv'
    BY <1>22 DEF DlsymAttach, Goto, table, threadVars, Initialising, Mapped
  <1>23. ASSUME NEW t \in Threads, DlsymCopyContext(t) PROVE SetupInv'
    BY <1>23 DEF DlsymCopyContext, Goto, table, threadVars, Initialising, Mapped
  <1>24. ASSUME NEW t \in Threads, DlsymCopyFuncs(t) PROVE SetupInv'
    BY <1>24 DEF DlsymCopyFuncs, Goto, table, threadVars, Initialising, Mapped
  <1>25. ASSUME NEW t \in Threads, DlsymRegister(t) PROVE SetupInv'
    BY <1>25, SMTT(60) DEF DlsymRegister, DlsymReady, Goto, table, threadVars, Initialising, Mapped
  <1>26. ASSUME NEW t \in Threads, Run(t) PROVE SetupInv'
    BY <1>26 DEF Run, Goto, table, threadVars, Initialising, Mapped
  <1> QED
    BY <1>1, <1>2, <1>3, <1>4, <1>5, <1>6, <1>7, <1>8, <1>9, <1>10, <1>11, <1>12, <1>13, ZenonT(60),
       <1>14, <1>15, <1>16, <1>17, <1>18, <1>19, <1>20, <1>21, <1>22, <1>23, <1>24, <1>25,
       <1>26
       DEF LoaderNext, Step, Initialise, Register, KeepSpinning, Finished

LEMMA RegisterStep ==
    ASSUME TypeOK, SetupInv, RegisterInv, [LoaderNext]_vars
    PROVE  RegisterInv'
  <1> USE LoaderAssumption DEF RegisterInv, TypeOK
  <1>1. CASE UNCHANGED vars
    BY <1>1 DEF vars, SetupInv, Found
  <1>2. ASSUME NEW t \in Threads, NEW n \in Names \cup Plain, Fixup(t, n) PROVE RegisterInv'
    BY <1>2, SMTT(60) DEF Fixup, Begin, Goto, ValueOf, table, threadVars, SetupInv, Found
  <1>3. ASSUME NEW t \in Threads, NEW n \in Names \cup Plain, Dlsym(t, n) PROVE RegisterInv'
    BY <1>3, SMTT(60) DEF Dlsym, Begin, Goto, ValueOf, table, threadVars, SetupInv, Found
  <1>4. ASSUME NEW t \in Threads, NEW u \in Threads, Spawn(t, u) PROVE RegisterInv'
    BY <1>4, SMTT(60) DEF Spawn, table, threadVars, SetupInv, Found
  <1>5. ASSUME NEW t \in Threads, Skip(t) \/ Proceed(t) \/ TestInitialized(t) \/
               TestRegistered(t) \/ DlsymSkip(t) \/ DlsymAttached(t) PROVE RegisterInv'
    BY <1>5, SMTT(60) DEF Skip, Proceed, TestInitialized, TestRegistered, DlsymSkip, DlsymAttached,
       Goto, table, threadVars, SetupInv, Found
  <1>6. ASSUME NEW t \in Threads, Redirect(t) \/ Return(t) PROVE RegisterInv'
    BY <1>6 DEF Redirect, Return, Goto, table, threadVars, SetupInv, Found
  <1>7. ASSUME NEW t \in Threads, DlsymCrash(t) \/ RunCrash(t) PROVE RegisterInv'
    BY <1>7, SMTT(60) DEF DlsymCrash, RunCrash, Goto, table, threadVars, SetupInv, Found
  <1>8. ASSUME NEW t \in Threads, InitStatisticsStorage(t) PROVE RegisterInv'
    BY <1>8 DEF InitStatisticsStorage, Goto, table, threadVars, SetupInv, Found
  <1>9. ASSUME NEW t \in Threads, SetStorageInited(t) PROVE RegisterInv'
    BY <1>9 DEF SetStorageInited, Goto, table, threadVars, SetupInv, Found
  <1>10. ASSUME NEW t \in Threads, LoadFunctions(t) PROVE RegisterInv'
    BY <1>10 DEF LoadFunctions, Goto, table, threadVars, SetupInv, Found
  <1>11. ASSUME NEW t \in Threads, Spin(t) PROVE RegisterInv'
    BY <1>11 DEF Spin, Goto, table, threadVars, SetupInv, Found
  <1>12. ASSUME NEW t \in Threads, Recheck(t) PROVE RegisterInv'
    BY <1>12 DEF Recheck, Goto, table, threadVars, SetupInv, Found
  <1>13. ASSUME NEW t \in Threads, FillNames(t) PROVE RegisterInv'
    BY <1>13 DEF FillNames, Goto, table, threadVars, SetupInv, Found
  <1>14. ASSUME NEW t \in Threads, InitWrapperRedirectors(t) PROVE RegisterInv'
    <2>1. mappings = 0 /\ mappings' = 1
      BY <1>14 DEF InitWrapperRedirectors, Goto, SetupInv
    <2>2. env.infoSeg => infos' \in [Names -> Values]
      BY <1>14 DEF InitWrapperRedirectors, Values
    <2>3. env.infoSeg => infos' # NULL
      BY <2>2 DEF Values
    <2>4. \A n \in Names : code'[n].fn = NULL
      BY <1>14 DEF InitWrapperRedirectors, Blank
    <2>5. \A u \in Threads : pc'[u] \notin {"info", "head", "fn", "tail"}
      BY <1>14, <2>1 DEF InitWrapperRedirectors, Goto, SetupInv
    <2> QED
      BY <1>14, <2>1, <2>3, <2>4, <2>5 DEF InitWrapperRedirectors, threadVars
  <1>15. ASSUME NEW t \in Threads, CreateContextSegment(t) PROVE RegisterInv'
    BY <1>15 DEF CreateContextSegment, Goto, table, threadVars, SetupInv, Found
  <1>16. ASSUME NEW t \in Threads, CopyContext(t) PROVE RegisterInv'
    BY <1>16 DEF CopyContext, Goto, table, threadVars, SetupInv, Found
  <1>17. ASSUME NEW t \in Threads, ContextCopied(t) PROVE RegisterInv'
    BY <1>17 DEF ContextCopied, Goto, table, threadVars, SetupInv, Found
  <1>18. ASSUME NEW t \in Threads, SetInitialized(t) PROVE RegisterInv'
    BY <1>18 DEF SetInitialized, Goto, table, threadVars, SetupInv, Found
  <1>19. ASSUME NEW t \in Threads, Unlock(t) PROVE RegisterInv'
    BY <1>19 DEF Unlock, Goto, table, threadVars, SetupInv, Found
  <1>20. ASSUME NEW t \in Threads, SetInfo(t) PROVE RegisterInv'
    <2>1. /\ infos # NULL => infos' = [infos EXCEPT ![cur[t].name] = cur[t].value]
          /\ infos = NULL => infos' = NULL
          /\ UNCHANGED <<env, code, mappings, cur>>
      BY <1>20 DEF SetInfo, threadVars
    <2>2. pc[t] = "info" /\ pc' = [pc EXCEPT ![t] = "head"] /\ mappings = 1
      BY <1>20 DEF SetInfo, Goto, SetupInv
    <2>3. cur[t].name \in Names /\ cur[t].value = Found(cur[t].name) /\ cur[t].value \in Values
      BY <2>2
    <2>4. env.infoSeg => infos \in [Names -> Values] /\ infos' \in [Names -> Values]
      BY <2>1, <2>2, <2>3, SMTT(60)
    <2>5. env.infoSeg => infos' # NULL
      BY <2>4 DEF Values
    <2>6. env.infoSeg => \A n \in Names :
              infos'[n] = IF n = cur[t].name THEN Found(n) ELSE infos[n]
      BY <2>1, <2>2, <2>3, <2>4
    <2> QED
      BY <2>1, <2>2, <2>3, <2>5, <2>6
  <1>21. ASSUME NEW t \in Threads, WriteHead(t) PROVE RegisterInv'
    BY <1>21 DEF WriteHead, Goto, table, threadVars, SetupInv, Found
  <1>22. ASSUME NEW t \in Threads, WriteFn(t) PROVE RegisterInv'
    BY <1>22 DEF WriteFn, Goto, table, threadVars, SetupInv, Found
  <1>23. ASSUME NEW t \in Threads, WriteTail(t) PROVE RegisterInv'
    BY <1>23 DEF WriteTail, Goto, table, threadVars, SetupInv, Found
  <1>24. ASSUME NEW t \in Threads, DlsymAttach(t) PROVE RegisterInv'
    BY <1>24 DEF DlsymAttach, Goto, table, threadVars, SetupInv, Found
  <1>25. ASSUME NEW t \in Threads, DlsymCopyContext(t) PROVE RegisterInv'
    BY <1>25 DEF DlsymCopyContext, Goto, table, threadVars, SetupInv, Found
  <1>26. ASSUME NEW t \in Threads, DlsymCopyFuncs(t) PROVE RegisterInv'
    BY <1>26 DEF DlsymCopyFuncs, Goto, table, threadVars, SetupInv, Found
  <1>27. ASSUME NEW t \in Threads, DlsymRegister(t) PROVE RegisterInv'
    BY <1>27, SMTT(60) DEF DlsymRegister, Goto, table, threadVars, SetupInv, Found
  <1>28. ASSUME NEW t \in Threads, Run(t) PROVE RegisterInv'
    BY <1>28 DEF Run, Goto, table, threadVars, SetupInv, Found
  <1> QED
    BY <1>1, <1>2, <1>3, <1>4, <1>5, <1>6, <1>7, <1>8, <1>9, <1>10, <1>11, <1>12, <1>13, ZenonT(60),
       <1>14, <1>15, <1>16, <1>17, <1>18, <1>19, <1>20, <1>21, <1>22, <1>23, <1>24, <1>25,
       <1>26, <1>27, <1>28
       DEF LoaderNext, Step, Initialise, Register, KeepSpinning, Finished

LEMMA StorageStep ==
    ASSUME TypeOK, StorageInv, [LoaderNext]_vars
    PROVE  StorageInv'
  <1> USE LoaderAssumption DEF StorageInv, TypeOK
  <1>1. CASE UNCHANGED vars
    BY <1>1 DEF vars, Initialising
  <1>2. ASSUME NEW t \in Threads, NEW n \in Names \cup Plain, Fixup(t, n) PROVE StorageInv'
    BY <1>2, SMTT(60) DEF Fixup, Begin, Goto, ValueOf, table, threadVars, Initialising
  <1>3. ASSUME NEW t \in Threads, NEW n \in Names \cup Plain, Dlsym(t, n) PROVE StorageInv'
    BY <1>3, SMTT(60) DEF Dlsym, Begin, Goto, ValueOf, table, threadVars, Initialising
  <1>4. ASSUME NEW t \in Threads, NEW u \in Threads, Spawn(t, u) PROVE StorageInv'
    BY <1>4 DEF Spawn, table, threadVars, Initialising
  <1>5. ASSUME NEW t \in Threads, Skip(t) \/ Proceed(t) \/ TestInitialized(t) \/
               TestRegistered(t) \/ DlsymSkip(t) \/ DlsymAttached(t) PROVE StorageInv'
    BY <1>5, SMTT(60) DEF Skip, Proceed, TestInitialized, TestRegistered, DlsymSkip, DlsymAttached,
       Goto, table, threadVars, Initialising
  <1>6. ASSUME NEW t \in Threads, Redirect(t) \/ Return(t) PROVE StorageInv'
    BY <1>6 DEF Redirect, Return, Goto, table, threadVars, Initialising
  <1>7. ASSUME NEW t \in Threads, DlsymCrash(t) \/ RunCrash(t) PROVE StorageInv'
    BY <1>7 DEF DlsymCrash, RunCrash, Goto, table, threadVars, Initialising
  <1>8. ASSUME NEW t \in Threads, WriteHead(t) \/ WriteFn(t) \/ WriteTail(t)
        PROVE  StorageInv'
    BY <1>8 DEF WriteHead, WriteFn, WriteTail, Goto, table, threadVars, Initialising
  <1>9. ASSUME NEW t \in Threads, InitStatisticsStorage(t) PROVE StorageInv'
    <2>1. shm'.stat = "table" => shm.stat = "table"
      BY <1>9 DEF InitStatisticsStorage
    <2> QED
      BY <1>9, <2>1 DEF InitStatisticsStorage, Goto, table, threadVars, Initialising
  <1>10. ASSUME NEW t \in Threads, SetStorageInited(t) PROVE StorageInv'
    BY <1>10 DEF SetStorageInited, Goto, table, threadVars, Initialising
  <1>11. ASSUME NEW t \in Threads, LoadFunctions(t) PROVE StorageInv'
    BY <1>11 DEF LoadFunctions, Goto, table, threadVars, Initialising
  <1>12. ASSUME NEW t \in Threads, Spin(t) PROVE StorageInv'
    BY <1>12 DEF Spin, Goto, table, threadVars, Initialising
  <1>13. ASSUME NEW t \in Threads, Recheck(t) PROVE StorageInv'
    BY <1>13 DEF Recheck, Goto, table, threadVars, Initialising
  <1>14. ASSUME NEW t \in Threads, FillNames(t) PROVE StorageInv'
    BY <1>14 DEF FillNames, Goto, table, threadVars, Initialising
  <1>15. ASSUME NEW t \in Threads, InitWrapperRedirectors(t) PROVE StorageInv'
    BY <1>15 DEF InitWrapperRedirectors, Goto, table, threadVars, Initialising
  <1>16. ASSUME NEW t \in Threads, CreateContextSegment(t) PROVE StorageInv'
    BY <1>16 DEF CreateContextSegment, Goto, table, threadVars, Initialising
  <1>17. ASSUME NEW t \in Threads, CopyContext(t) PROVE StorageInv'
    BY <1>17 DEF CopyContext, Goto, table, threadVars, Initialising
  <1>18. ASSUME NEW t \in Threads, ContextCopied(t) PROVE StorageInv'
    BY <1>18 DEF ContextCopied, Goto, table, threadVars, Initialising
  <1>19. ASSUME NEW t \in Threads, SetInitialized(t) PROVE StorageInv'
    BY <1>19 DEF SetInitialized, Goto, table, threadVars, Initialising
  <1>20. ASSUME NEW t \in Threads, Unlock(t) PROVE StorageInv'
    BY <1>20 DEF Unlock, Goto, table, threadVars, Initialising
  <1>21. ASSUME NEW t \in Threads, SetInfo(t) PROVE StorageInv'
    BY <1>21, SMTT(60) DEF SetInfo, Goto, table, threadVars, Initialising
  <1>22. ASSUME NEW t \in Threads, DlsymAttach(t) PROVE StorageInv'
    BY <1>22 DEF DlsymAttach, Goto, table, threadVars, Initialising
  <1>23. ASSUME NEW t \in Threads, DlsymCopyContext(t) PROVE StorageInv'
    BY <1>23 DEF DlsymCopyContext, Goto, table, threadVars, Initialising
  <1>24. ASSUME NEW t \in Threads, DlsymCopyFuncs(t) PROVE StorageInv'
    BY <1>24 DEF DlsymCopyFuncs, Goto, table, threadVars, Initialising
  <1>25. ASSUME NEW t \in Threads, DlsymRegister(t) PROVE StorageInv'
    BY <1>25, SMTT(60) DEF DlsymRegister, Goto, table, threadVars, Initialising
  <1>26. ASSUME NEW t \in Threads, Run(t) PROVE StorageInv'
    BY <1>26 DEF Run, Goto, table, threadVars, Initialising
  <1> QED
    BY <1>1, <1>2, <1>3, <1>4, <1>5, <1>6, <1>7, <1>8, <1>9, <1>10, <1>11, <1>12, <1>13, ZenonT(60),
       <1>14, <1>15, <1>16, <1>17, <1>18, <1>19, <1>20, <1>21, <1>22, <1>23, <1>24, <1>25,
       <1>26
       DEF LoaderNext, Step, Initialise, Register, KeepSpinning, Finished

LEMMA LoaderInvariant == LoaderSpec => []LoaderInv
  <1>1. LoaderInv /\ [LoaderNext]_vars => LoaderInv'
    BY TypeStep, LockStep, SetupStep, RegisterStep, StorageStep DEF LoaderInv
  <1> QED
    BY <1>1, Initially, PTL DEF LoaderSpec

-----------------------------------------------------------------------------
(* The theorems *)

\* The statics of both hooks, the segments and the redirectors keep their types.
THEOREM LoaderTypes == LoaderSpec => []TypeOK
  <1>1. LoaderInv => TypeOK
    BY DEF LoaderInv
  <1> QED
    BY <1>1, LoaderInvariant, PTL

\* One redirector table is ever mapped, however many threads make their first
\* fixup together.
THEOREM InitialisedOnce == LoaderSpec => []InitOnce
  <1>1. LoaderInv => InitOnce
    BY DEF LoaderInv, SetupInv, InitOnce
  <1> QED
    BY <1>1, LoaderInvariant, PTL

\* A thread that passes the unlocked test of initialized finds everything that
\* the initialisation sets up.
THEOREM ReadyWhenInitialised == LoaderSpec => []InitializedMeansReady
  <1>1. LoaderInv => InitializedMeansReady
    BY DEF LoaderInv, SetupInv
  <1> QED
    BY <1>1, LoaderInvariant, PTL

\* The report can name every address that a redirector passes to the wrapper,
\* although registration takes no lock.
THEOREM AddressesNamed == LoaderSpec => []EveryAddressNamed
  <1>1. LoaderInv => EveryAddressNamed
    BY DEF LoaderInv, RegisterInv, EveryAddressNamed
  <1> QED
    BY <1>1, LoaderInvariant, PTL

\* The NULL of initFunctionStatisticsStorage never replaces a published table.
THEOREM StatisticsKept == LoaderSpec => StatisticsNeverDropped
  <1>1. LoaderInv /\ [LoaderNext]_vars => (shm.stat = "table" => shm'.stat = "table")
    <2> SUFFICES ASSUME LoaderInv, [LoaderNext]_vars, shm.stat = "table"
                 PROVE  shm'.stat = "table"
      OBVIOUS
    <2> USE DEF LoaderInv
    <2>1. ASSUME NEW t \in Threads, InitStatisticsStorage(t) PROVE shm'.stat = "table"
      BY <2>1 DEF InitStatisticsStorage, Goto, StorageInv
    <2>2. ASSUME NEW t \in Threads,
                 CreateContextSegment(t) \/ CopyContext(t) \/ ContextCopied(t) \/ Run(t)
          PROVE  shm'.stat = "table"
      BY <2>2 DEF CreateContextSegment, CopyContext, ContextCopied, Run, TypeOK
    <2>3. CASE UNCHANGED shm
      BY <2>3
    <2>4. \/ UNCHANGED shm
          \/ \E t \in Threads :
                \/ InitStatisticsStorage(t) \/ CreateContextSegment(t)
                \/ CopyContext(t) \/ ContextCopied(t) \/ Run(t)
      BY ZenonT(60) DEF LoaderNext, Fixup, Dlsym, Spawn, Step, SetStorageInited, Skip, Proceed,
             LoadFunctions, TestInitialized, Spin, KeepSpinning, Initialise, Recheck,
             FillNames, InitWrapperRedirectors, SetInitialized, Unlock, Register,
             TestRegistered, SetInfo, WriteHead, WriteFn, WriteTail, Redirect, Return,
             DlsymSkip, DlsymAttach, DlsymAttached, DlsymCopyContext, DlsymCopyFuncs,
             DlsymRegister, DlsymCrash, RunCrash, Finished, vars
    <2> QED
      BY <2>1, <2>2, <2>3, <2>4
  <1> QED
    BY <1>1, LoaderInvariant, PTL DEF StatisticsNeverDropped, LoaderSpec

\* A finished redirector stays as it is, whoever registers its name again.
THEOREM RedirectorsKept == LoaderSpec => RedirectorsStay
  <1>1. LoaderInv /\ [LoaderNext]_vars => \A n \in Names : Complete(n) => Complete(n)'
    <2> SUFFICES ASSUME LoaderInv, [LoaderNext]_vars, NEW n \in Names, Complete(n)
                 PROVE  Complete(n)'
      OBVIOUS
    <2> USE LoaderAssumption DEF Complete
    <2>1. ASSUME NEW t \in Threads, InitWrapperRedirectors(t) PROVE FALSE
      BY <2>1 DEF InitWrapperRedirectors, Goto, LoaderInv, SetupInv, RegisterInv, Blank
    <2>2. ASSUME NEW t \in Threads, WriteHead(t) \/ WriteFn(t) \/ WriteTail(t)
          PROVE  Complete(n)'
      BY <2>2 DEF WriteHead, WriteFn, WriteTail, LoaderInv, RegisterInv, TypeOK, Found
    <2>3. \/ UNCHANGED code
          \/ \E t \in Threads :
                \/ InitWrapperRedirectors(t) \/ WriteHead(t) \/ WriteFn(t) \/ WriteTail(t)
      BY ZenonT(60) DEF LoaderNext, Fixup, Dlsym, Spawn, Step, InitStatisticsStorage, SetStorageInited,
             Skip, Proceed, LoadFunctions, TestInitialized, Spin, KeepSpinning, Initialise,
             Recheck, FillNames, CreateContextSegment, CopyContext, ContextCopied,
             SetInitialized, Unlock, Register, TestRegistered, SetInfo, Redirect, Return,
             DlsymSkip, DlsymAttach, DlsymAttached, DlsymCopyContext, DlsymCopyFuncs,
             DlsymRegister, DlsymCrash, Run, RunCrash, Finished, vars, table
    <2> QED
      BY <2>1, <2>2, <2>3
  <1> QED
    BY <1>1, LoaderInvariant, PTL DEF RedirectorsStay, LoaderSpec
=============================================================================
