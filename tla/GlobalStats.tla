---------------------------- MODULE GlobalStats ----------------------------
(***************************************************************************)
(* The statistics table of libelfperf.so (libelfperf/global_stats.c): an   *)
(* array of pointers to FunctionStatistic records, found and updated by    *)
(* updateStat under a fetch-and-add spinlock, and published through the    *)
(* SysV segment ELFPERF_SHARED_MEMORY_ID_STAT to the loader, which prints  *)
(* it without taking the lock.                                             *)
(*                                                                         *)
(* A thread enters updateStat from record_end_time with the address and    *)
(* the duration of the call that just ended.  Everything another thread    *)
(* or the loader can see in between is a step of its own.                  *)
(***************************************************************************)
EXTENDS Integers, FiniteSets

CONSTANTS
    Threads,        \* threads of the profiled process
    Addrs,          \* functionPtr values the redirectors push
    Ticks,          \* durations
    NULL,           \* the null pointer
    FnCount,        \* names in ELFPERF_PROFILE_FUNCTION: slots initStats maps
    STATS_LIMIT,    \* ld-routines.h: 10000000
    TimeMod,        \* 2^64: width of totalDiffTime
    LockMod,        \* 2^32: width of updateStatSpinlock
    MaxSpins,       \* bound: failed acquisitions during one hold of the lock
    MaxCalls        \* bound: calls of updateStat per thread

ASSUME StatsAssumption ==
    /\ FnCount \in Nat /\ STATS_LIMIT \in Nat
    /\ TimeMod \in Nat \ {0} /\ LockMod \in Nat \ {0}
    /\ MaxSpins \in Nat /\ MaxCalls \in Nat
    /\ Ticks \subseteq 0..(TimeMod - 1)
    /\ NULL \notin Addrs

\* Fewer failed acquisitions fit in one hold than the lock word can count.
ASSUME NoWrapAssumption == MaxSpins < LockMod - 1

\* The redirectors push one address per listed name.
ASSUME AddrsAssumption == IsFiniteSet(Addrs) /\ Cardinality(Addrs) <= FnCount

VARIABLES
    lock,           \* updateStatSpinlock
    s_stats,        \* slot -> the record it points to, or Empty
    s_statsCount,
    inited,         \* isSharedMemoryInited
    shmStat,        \* TRUE once the segment holds s_stats, FALSE while it holds NULL
    segment,        \* the segment exists and can be attached
    pc,             \* thread -> where it is in updateStat
    arg,            \* thread -> arguments of its current updateStat
    slot,           \* thread -> index found by the lookup or claimed in addNewStat
    calls,          \* thread -> updateStat calls it has made
    alive           \* FALSE once the process has ended

tableVars == <<s_stats, s_statsCount, inited, shmStat>>
threadVars == <<arg, slot, calls>>
vars == <<lock, s_stats, s_statsCount, inited, shmStat, segment,
          pc, arg, slot, calls, alive>>

\* The elements initStats maps: one per listed name.
Slots == 0..(FnCount - 1)

Empty == [addr |-> NULL, calls |-> 0, time |-> 0]

Records == [addr : Addrs \cup {NULL}, calls : Nat, time : 0..(TimeMod - 1)]

InSection == {"lookup", "count", "time", "init", "limit", "claim", "store",
              "unlock", "exiting"}

PCs == {"idle", "spin"} \cup InSection

StatsInit ==
    /\ lock = 0
    /\ s_stats = [i \in Slots |-> Empty]
    /\ s_statsCount = 0
    /\ inited = FALSE
    /\ shmStat = FALSE
    /\ segment \in BOOLEAN
    /\ pc = [t \in Threads |-> "idle"]
    /\ arg = [t \in Threads |-> [addr |-> NULL, diff |-> 0]]
    /\ slot = [t \in Threads |-> 0]
    /\ calls = [t \in Threads |-> 0]
    /\ alive = TRUE

Goto(t, from, to) ==
    /\ alive
    /\ pc[t] = from
    /\ pc' = [pc EXCEPT ![t] = to]

-----------------------------------------------------------------------------
(* updateStat *)

\* record_end_time calls updateStat(cont->functionPtr, duration).
Call(t, a, d) ==
    /\ calls[t] < MaxCalls
    /\ Goto(t, "idle", "spin")
    /\ arg' = [arg EXCEPT ![t] = [addr |-> a, diff |-> d]]
    /\ calls' = [calls EXCEPT ![t] = @ + 1]
    /\ UNCHANGED <<lock, tableVars, segment, slot, alive>>

\* Faulty: an acquisition that also accepts a lock word of 1.
SpinAcceptsOne(t) ==
    /\ lock <= MaxSpins
    /\ Goto(t, "spin", IF lock <= 1 THEN "lookup" ELSE "spin")
    /\ lock' = (lock + 1) % LockMod
    /\ UNCHANGED <<tableVars, segment, threadVars, alive>>

\* The spin loop: the fetch-and-add happens whether or not the lock is free.
Spin(t) ==
    /\ lock <= MaxSpins
    /\ Goto(t, "spin", IF lock = 0 THEN "lookup" ELSE "spin")
    /\ lock' = (lock + 1) % LockMod
    /\ UNCHANGED <<tableVars, segment, threadVars, alive>>

\* A waiter at the bound goes on spinning, with nothing for others to see.
KeepSpinning(t) ==
    /\ alive
    /\ pc[t] = "spin"
    /\ lock > MaxSpins
    /\ UNCHANGED vars

\* getFunctionStatistic: the first i below s_statsCount whose record matches.
Matches(i, a) == s_stats[i].addr = a

Found(i, a) ==
    /\ i \in 0..(s_statsCount - 1)
    /\ Matches(i, a)
    /\ \A j \in 0..(i - 1) : ~Matches(j, a)

LookupHit(t) ==
    /\ Goto(t, "lookup", "count")
    /\ \E i \in Slots :
        /\ Found(i, arg[t].addr)
        /\ slot' = [slot EXCEPT ![t] = i]
    /\ UNCHANGED <<lock, tableVars, segment, arg, calls, alive>>

\* Faulty: the scan stops one element early.
LookupMissShort(t) ==
    /\ Goto(t, "lookup", IF inited THEN "limit" ELSE "init")
    /\ \A i \in 0..(s_statsCount - 2) : ~Matches(i, arg[t].addr)
    /\ UNCHANGED <<lock, tableVars, segment, threadVars, alive>>

LookupMiss(t) ==
    /\ Goto(t, "lookup", IF inited THEN "limit" ELSE "init")
    /\ \A i \in 0..(s_statsCount - 1) : ~Matches(i, arg[t].addr)
    /\ UNCHANGED <<lock, tableVars, segment, threadVars, alive>>

\* Faulty: a hit starts the record over.
CountCallClears(t) ==
    /\ Goto(t, "count", "time")
    /\ s_stats' = [s_stats EXCEPT ![slot[t]].calls = 0]
    /\ UNCHANGED <<lock, s_statsCount, inited, shmStat, segment, threadVars, alive>>

CountCall(t) ==
    /\ Goto(t, "count", "time")
    /\ s_stats' = [s_stats EXCEPT ![slot[t]].calls = @ + 1]
    /\ UNCHANGED <<lock, s_statsCount, inited, shmStat, segment, threadVars, alive>>

\* Faulty: the sum does not wrap at the width of totalDiffTime.
AddTimeWide(t) ==
    /\ Goto(t, "time", "unlock")
    /\ s_stats' = [s_stats EXCEPT ![slot[t]].time = @ + arg[t].diff]
    /\ UNCHANGED <<lock, s_statsCount, inited, shmStat, segment, threadVars, alive>>

\* Faulty: the last duration replaces the total.
AddTimeReplaces(t) ==
    /\ Goto(t, "time", "unlock")
    /\ s_stats' = [s_stats EXCEPT ![slot[t]].time = arg[t].diff]
    /\ UNCHANGED <<lock, s_statsCount, inited, shmStat, segment, threadVars, alive>>

AddTime(t) ==
    /\ Goto(t, "time", "unlock")
    /\ s_stats' = [s_stats EXCEPT ![slot[t]].time = (@ + arg[t].diff) % TimeMod]
    /\ UNCHANGED <<lock, s_statsCount, inited, shmStat, segment, threadVars, alive>>

\* Faulty: the lock word is counted down instead of cleared.
UnlockDecrements(t) ==
    /\ Goto(t, "unlock", "idle")
    /\ lock' = lock - 1
    /\ UNCHANGED <<tableVars, segment, threadVars, alive>>

Unlock(t) ==
    /\ Goto(t, "unlock", "idle")
    /\ lock' = 0
    /\ UNCHANGED <<tableVars, segment, threadVars, alive>>

-----------------------------------------------------------------------------
(* addNewStat *)

\* Faulty: the table is mapped and its address is not stored in the segment.
InitSharedMemoryPrivate(t) ==
    /\ segment
    /\ Goto(t, "init", "limit")
    /\ s_stats' = [i \in Slots |-> Empty]
    /\ inited' = TRUE
    /\ UNCHANGED <<lock, s_statsCount, shmStat, segment, threadVars, alive>>

\* initSharedMemory: map a zeroed table, store its address in the segment.
InitSharedMemory(t) ==
    /\ segment
    /\ Goto(t, "init", "limit")
    /\ s_stats' = [i \in Slots |-> Empty]
    /\ shmStat' = TRUE
    /\ inited' = TRUE
    /\ UNCHANGED <<lock, s_statsCount, segment, threadVars, alive>>

\* getFunctionStatisticsStorage returned NULL and *shm is written regardless.
InitSharedMemoryCrash(t) ==
    /\ ~segment
    /\ Goto(t, "init", "init")
    /\ alive' = FALSE
    /\ UNCHANGED <<lock, tableVars, segment, threadVars>>

\* Faulty: > for >=.
CheckLimitLate(t) ==
    /\ Goto(t, "limit", IF s_statsCount > STATS_LIMIT THEN "exiting" ELSE "claim")
    /\ UNCHANGED <<lock, tableVars, segment, threadVars, alive>>

\* The STATS_LIMIT test; exit(1) is called with the lock still held.
CheckLimit(t) ==
    /\ Goto(t, "limit", IF s_statsCount >= STATS_LIMIT THEN "exiting" ELSE "claim")
    /\ UNCHANGED <<lock, tableVars, segment, threadVars, alive>>

\* Faulty: __sync_add_and_fetch for __sync_fetch_and_add.
ClaimNextSlot(t) ==
    /\ Goto(t, "claim", "store")
    /\ slot' = [slot EXCEPT ![t] = s_statsCount + 1]
    /\ s_statsCount' = s_statsCount + 1
    /\ UNCHANGED <<lock, s_stats, inited, shmStat, segment, arg, calls, alive>>

\* The index expression: __sync_fetch_and_add(&s_statsCount, 1).
ClaimSlot(t) ==
    /\ Goto(t, "claim", "store")
    /\ slot' = [slot EXCEPT ![t] = s_statsCount]
    /\ s_statsCount' = s_statsCount + 1
    /\ UNCHANGED <<lock, s_stats, inited, shmStat, segment, arg, calls, alive>>

\* The assignment of the filled record to the claimed element of s_stats.
StoreStat(t) ==
    /\ Goto(t, "store", "unlock")
    /\ s_stats' = [s_stats EXCEPT ![slot[t]] =
                      [addr |-> arg[t].addr, calls |-> 1, time |-> arg[t].diff]]
    /\ UNCHANGED <<lock, s_statsCount, inited, shmStat, segment, threadVars, alive>>

\* exit(1) ends the process, whatever the other threads are doing.
ProcessExit(t) ==
    /\ Goto(t, "exiting", "exiting")
    /\ alive' = FALSE
    /\ UNCHANGED <<lock, tableVars, segment, threadVars>>

-----------------------------------------------------------------------------

Update(t) ==
    \/ Spin(t) \/ KeepSpinning(t) \/ LookupHit(t) \/ LookupMiss(t)
    \/ CountCall(t) \/ AddTime(t) \/ Unlock(t)
    \/ InitSharedMemory(t) \/ InitSharedMemoryCrash(t) \/ CheckLimit(t)
    \/ ClaimSlot(t) \/ StoreStat(t) \/ ProcessExit(t)

\* The process has ended, or every thread has made its bounded calls.
Finished ==
    /\ ~alive \/ \A t \in Threads : pc[t] = "idle" /\ calls[t] = MaxCalls
    /\ UNCHANGED vars

StatsNext ==
    \/ \E t \in Threads :
        \/ \E a \in Addrs, d \in Ticks : Call(t, a, d)
        \/ Update(t)
    \/ Finished

StatsSpec == StatsInit /\ [][StatsNext]_vars

\* Every running thread is scheduled: it takes its next step inside updateStat.
FairStatsSpec == StatsSpec /\ \A t \in Threads : WF_vars(Update(t))

-----------------------------------------------------------------------------
(* Properties *)

\* Every variable stays in the range its C type and its use give it.
TypeOK ==
    /\ lock \in 0..(LockMod - 1)
    /\ s_stats \in [Slots -> Records]
    /\ s_statsCount \in Nat
    /\ inited \in BOOLEAN /\ shmStat \in BOOLEAN
    /\ segment \in BOOLEAN /\ alive \in BOOLEAN
    /\ pc \in [Threads -> PCs]
    /\ arg \in [Threads -> [addr : Addrs \cup {NULL}, diff : 0..(TimeMod - 1)]]
    /\ slot \in [Threads -> Nat]
    /\ calls \in [Threads -> 0..MaxCalls]

\* The spinlock of updateStat: at most one thread is between the acquiring
\* fetch-and-add and the store of 0, however many waiters keep incrementing
\* the lock word meanwhile.
MutualExclusion ==
    \A t, u \in Threads : pc[t] \in InSection /\ pc[u] \in InSection => t = u

\* updateStat keeps one record per function address, so getFunctionStatistic,
\* which returns the first match, sees all calls of a function.
OneRecordPerFunction ==
    \A i, j \in Slots :
        s_stats[i].addr # NULL /\ s_stats[i].addr = s_stats[j].addr => i = j

\* The loader prints elements until the first NULL one: the filled slots are
\* exactly those below s_statsCount, but for a slot claimed and not yet stored.
NoHoles ==
    \A i \in Slots :
        s_stats[i].addr # NULL <=>
            /\ i < s_statsCount
            /\ ~ \E t \in Threads : pc[t] = "store" /\ slot[t] = i

\* addNewStat only tests STATS_LIMIT, yet the element it stores to is always
\* one of those that initStats mapped, and the limit is never passed.
TableInBounds ==
    /\ \A t \in Threads : pc[t] = "store" => slot[t] \in Slots
    /\ s_statsCount <= STATS_LIMIT

\* A record that the loader could find through the segment is never dropped,
\* given to another function or counted down by a later step.
RecordsOnlyGrow ==
    [][\A i \in Slots : s_stats[i].addr # NULL =>
            /\ s_stats'[i].addr = s_stats[i].addr
            /\ s_stats'[i].calls >= s_stats[i].calls]_vars

\* Once a statistic exists, the segment points to the table that holds it:
\* what _dl_fini prints is not "Statistic is empty".
RecordsPublished == \A i \in Slots : s_stats[i].addr # NULL => shmStat

\* A thread that spins for the lock gets through updateStat, unless the
\* process ends first.
EveryCallReturns ==
    \A t \in Threads : pc[t] = "spin" ~> pc[t] = "idle" \/ ~alive

-----------------------------------------------------------------------------
(* The table implements the atomic map of AtomicStats.  A call takes       *)
(* effect when its count is incremented or its new record is stored; the   *)
(* ticks of a call that has been counted and not yet added are pending.    *)

SlotOf(a) == CHOOSE i \in Slots : s_stats[i].addr = a

Adders(a) == {t \in Threads : pc[t] = "time" /\ arg[t].addr = a}

PendingTime(a) ==
    IF Adders(a) = {} THEN 0 ELSE arg[CHOOSE t \in Adders(a) : TRUE].diff

AbsTotal ==
    [a \in Addrs |->
        IF \E i \in Slots : s_stats[i].addr = a
        THEN [calls |-> s_stats[SlotOf(a)].calls,
              time |-> (s_stats[SlotOf(a)].time + PendingTime(a)) % TimeMod]
        ELSE [calls |-> 0, time |-> 0]]

AbsCall ==
    [t \in Threads |->
        IF pc[t] = "idle" THEN [state |-> "none"]
        ELSE [state |-> IF pc[t] \in {"time", "unlock"} THEN "applied" ELSE "begun",
              addr |-> arg[t].addr, diff |-> arg[t].diff]]

Abstract == INSTANCE AtomicStats WITH total <- AbsTotal, call <- AbsCall

\* updateStat behaves as one atomic addition to the totals per call.
ImplementsAtomicStats == Abstract!ASpec
=============================================================================
