------------------------- MODULE GlobalStats_proofs -------------------------
(***************************************************************************)
(* Proofs about GlobalStats, for any number of threads, functions, slots   *)
(* and calls.                                                              *)
(***************************************************************************)
EXTENDS GlobalStats, FiniteSetTheorems, TLAPS

\* The lock word counts the holder and the failed attempts made meanwhile,
\* and is 0 exactly when nobody holds the lock.
LockInv ==
    /\ lock <= MaxSpins + 1
    /\ \A t \in Threads : pc[t] \in InSection => lock # 0

\* What a thread inside updateStat knows about the table at each point.
ThreadInv(t) ==
    /\ pc[t] # "idle" => arg[t].addr \in Addrs /\ arg[t].diff \in Ticks
    /\ pc[t] \in {"count", "time"} =>
        slot[t] \in Slots /\ s_stats[slot[t]].addr = arg[t].addr
    /\ pc[t] \in {"init", "limit", "claim", "store"} =>
        \A i \in Slots : s_stats[i].addr # arg[t].addr
    /\ pc[t] = "init" => ~inited
    /\ pc[t] \in {"limit", "claim", "store"} => inited
    /\ pc[t] = "claim" => s_statsCount < STATS_LIMIT
    /\ pc[t] = "store" => slot[t] \in Slots /\ s_statsCount = slot[t] + 1

TableInv ==
    /\ ~inited => s_statsCount = 0
    /\ inited => shmStat
    /\ s_statsCount <= FnCount /\ s_statsCount <= STATS_LIMIT

IInv ==
    /\ TypeOK
    /\ LockInv
    /\ MutualExclusion
    /\ \A t \in Threads : ThreadInv(t)
    /\ TableInv
    /\ NoHoles
    /\ OneRecordPerFunction

-----------------------------------------------------------------------------

LEMMA ModSmall == ASSUME NEW x \in Nat, NEW m \in Nat \ {0}, x < m PROVE x % m = x
  OBVIOUS

LEMMA ModRange == ASSUME NEW x \in Nat, NEW m \in Nat \ {0} PROVE x % m \in 0..(m - 1)
  OBVIOUS

LEMMA InitIInv == StatsInit => IInv
<1> SUFFICES ASSUME StatsInit PROVE IInv
  OBVIOUS
<1> USE StatsAssumption, NoWrapAssumption DEF StatsInit
<1>1. TypeOK
  <2>1. Empty \in Records
    BY DEF Empty, Records
  <2>2. pc \in [Threads -> PCs]
    BY DEF PCs
  <2>3. lock \in 0..(LockMod - 1) /\ 0 \in 0..(TimeMod - 1)
    OBVIOUS
  <2>4. inited \in BOOLEAN /\ shmStat \in BOOLEAN /\ segment \in BOOLEAN /\ alive \in BOOLEAN
    BY ZenonT(60)
  <2>5. arg \in [Threads -> [addr : Addrs \cup {NULL}, diff : 0..(TimeMod - 1)]]
    BY <2>3
  <2>6. slot \in [Threads -> Nat] /\ calls \in [Threads -> 0..MaxCalls] /\ s_statsCount \in Nat
    OBVIOUS
  <2>7. s_stats \in [Slots -> Records]
    BY <2>1
  <2> QED
    BY <2>2, <2>3, <2>4, <2>5, <2>6, <2>7, Zenon DEF TypeOK
<1>2. LockInv /\ MutualExclusion /\ \A t \in Threads : ThreadInv(t)
  BY DEF LockInv, MutualExclusion, ThreadInv, InSection
<1>3. TableInv
  BY DEF TableInv
<1>4. NoHoles /\ OneRecordPerFunction
  BY DEF NoHoles, OneRecordPerFunction, Empty, Slots
<1> QED
  BY <1>1, <1>2, <1>3, <1>4 DEF IInv

\* TypeOK is preserved by every step (it needs the slot bounds of IInv only
\* where a record is overwritten).
LEMMA TypeStep == IInv /\ [StatsNext]_vars => TypeOK'
<1> SUFFICES ASSUME IInv, [StatsNext]_vars PROVE TypeOK'
  OBVIOUS
<1> USE StatsAssumption, NoWrapAssumption DEF IInv, TypeOK, Goto, PCs, InSection
<1>1. ASSUME NEW t \in Threads, NEW a \in Addrs, NEW d \in Ticks, Call(t, a, d)
      PROVE  TypeOK'
  BY <1>1 DEF Call, tableVars
<1>2. ASSUME NEW t \in Threads, Spin(t) PROVE TypeOK'
  BY <1>2 DEF Spin, tableVars, threadVars
<1>3. ASSUME NEW t \in Threads, LookupHit(t) PROVE TypeOK'
  BY <1>3 DEF LookupHit, tableVars, Slots
<1>4. ASSUME NEW t \in Threads, LookupMiss(t) PROVE TypeOK'
  BY <1>4 DEF LookupMiss, tableVars, threadVars
<1>5. ASSUME NEW t \in Threads, CountCall(t) PROVE TypeOK'
  <2>1. slot[t] \in Slots
    BY <1>5 DEF CountCall, ThreadInv
  <2>2. s_stats' \in [Slots -> Records]
    BY <1>5, <2>1 DEF CountCall, Records
  <2> QED
    BY <1>5, <2>2 DEF CountCall, threadVars
<1>6. ASSUME NEW t \in Threads, AddTime(t) PROVE TypeOK'
  <2>1. slot[t] \in Slots
    BY <1>6 DEF AddTime, ThreadInv
  <2>2. (s_stats[slot[t]].time + arg[t].diff) % TimeMod \in 0..(TimeMod - 1)
    BY <2>1 DEF Records
  <2>3. s_stats' \in [Slots -> Records]
    <3> DEFINE sum == (s_stats[slot[t]].time + arg[t].diff) % TimeMod
               rec == [s_stats[slot[t]] EXCEPT !.time = sum]
    <3>1. s_stats' = [s_stats EXCEPT ![slot[t]] = rec]
      BY <1>6 DEF AddTime
    <3>2. s_stats \in [Slots -> Records] /\ s_stats[slot[t]] \in Records
      BY <2>1
    <3>3. rec \in Records
      <4> HIDE DEF sum, IInv, TypeOK
      <4>1. sum \in 0..(TimeMod - 1)
        BY <2>2 DEF sum
      <4> QED
        BY <3>2, <4>1 DEF Records
    <3> HIDE DEF rec, IInv, TypeOK
    <3> QED
      BY <2>1, <3>1, <3>2, <3>3
  <2> QED
    BY <1>6, <2>3 DEF AddTime, threadVars
<1>7. ASSUME NEW t \in Threads, Unlock(t) PROVE TypeOK'
  BY <1>7 DEF Unlock, tableVars, threadVars
<1>8. ASSUME NEW t \in Threads, InitSharedMemory(t) PROVE TypeOK'
  BY <1>8, SMTT(60) DEF InitSharedMemory, threadVars, Records, Empty
<1>9. ASSUME NEW t \in Threads, InitSharedMemoryCrash(t) PROVE TypeOK'
  BY <1>9, ZenonT(60) DEF InitSharedMemoryCrash, tableVars, threadVars
<1>10. ASSUME NEW t \in Threads, CheckLimit(t) PROVE TypeOK'
  BY <1>10 DEF CheckLimit, tableVars, threadVars
<1>11. ASSUME NEW t \in Threads, ClaimSlot(t) PROVE TypeOK'
  BY <1>11, SMTT(60) DEF ClaimSlot
<1>12. ASSUME NEW t \in Threads, StoreStat(t) PROVE TypeOK'
  BY <1>12, ZenonT(60) DEF StoreStat, threadVars, Records
<1>13. ASSUME NEW t \in Threads, ProcessExit(t) PROVE TypeOK'
  BY <1>13, ZenonT(60) DEF ProcessExit, tableVars, threadVars
<1>14. CASE UNCHANGED vars
  BY <1>14 DEF vars
<1> QED
  BY <1>1, <1>2, <1>3, <1>4, <1>5, <1>6, <1>7, <1>8, <1>9, <1>10, <1>11, <1>12, SMTT(60),
     <1>13, <1>14 DEF StatsNext, Update, Finished, KeepSpinning

\* The lock is acquired only when it is 0 and nobody is in the section, and
\* the word cannot come back to 0 by counting failed attempts.
LEMMA LockStep == IInv /\ [StatsNext]_vars => LockInv' /\ MutualExclusion'
<1> SUFFICES ASSUME IInv, [StatsNext]_vars PROVE LockInv' /\ MutualExclusion'
  OBVIOUS
<1> USE StatsAssumption, NoWrapAssumption
        DEF IInv, TypeOK, LockInv, MutualExclusion, Goto, InSection
<1>1. ASSUME NEW t \in Threads, NEW a \in Addrs, NEW d \in Ticks, Call(t, a, d)
      PROVE  LockInv' /\ MutualExclusion'
  BY <1>1 DEF Call
<1>2. ASSUME NEW t \in Threads, Spin(t) PROVE LockInv' /\ MutualExclusion'
  <2>1. lock' = lock + 1
    <3>1. lock + 1 \in Nat /\ lock + 1 < LockMod
      BY <1>2 DEF Spin
    <3> QED
      BY <1>2, <3>1, ModSmall, ZenonT(60) DEF Spin
  <2> QED
    BY <1>2, <2>1 DEF Spin
<1>3. ASSUME NEW t \in Threads, Unlock(t) PROVE LockInv' /\ MutualExclusion'
  BY <1>3, SMTT(60) DEF Unlock
<1>4. ASSUME NEW t \in Threads, pc[t] \in InSection, lock' = lock,
             \E p \in PCs : pc' = [pc EXCEPT ![t] = p]
      PROVE  LockInv' /\ MutualExclusion'
  BY <1>4
<1>5. ASSUME NEW t \in Threads,
             \/ LookupHit(t) \/ LookupMiss(t) \/ CountCall(t) \/ AddTime(t)
             \/ InitSharedMemory(t) \/ InitSharedMemoryCrash(t) \/ CheckLimit(t)
             \/ ClaimSlot(t) \/ StoreStat(t) \/ ProcessExit(t)
      PROVE  LockInv' /\ MutualExclusion'
  BY <1>5, <1>4 DEF LookupHit, LookupMiss, CountCall, AddTime, InitSharedMemory,
       InitSharedMemoryCrash, CheckLimit, ClaimSlot, StoreStat, ProcessExit, PCs
<1>6. CASE UNCHANGED vars
  BY <1>6 DEF vars
<1> QED
  BY <1>1, <1>2, <1>3, <1>5, <1>6 DEF StatsNext, Update, Finished, KeepSpinning

\* A claimed slot is one the table has: the records below s_statsCount belong
\* to different functions, none of them the one being added.
LEMMA RoomForOneMore ==
    ASSUME IInv, NEW t \in Threads, pc[t] = "claim"
    PROVE  s_statsCount + 1 <= FnCount
<1> DEFINE D == 0..(s_statsCount - 1)
           A == Addrs \ {arg[t].addr}
           owner == [i \in D |-> s_stats[i].addr]
<1> USE StatsAssumption DEF IInv, TypeOK
<1>1. D \subseteq Slots
  BY DEF TableInv, Slots
<1>2. \A i \in D : s_stats[i].addr # NULL
  BY <1>1 DEF NoHoles, MutualExclusion, InSection
<1>3. \A i \in D : s_stats[i].addr \in A
  BY <1>1, <1>2 DEF ThreadInv, Records
<1>4. owner \in Injection(D, A)
  <2>1. owner \in [D -> A]
    BY <1>3
  <2>2. \A i, j \in D : owner[i] = owner[j] => i = j
    BY <1>1, <1>2 DEF OneRecordPerFunction
  <2> QED
    BY <2>1, <2>2, ZenonT(60) DEF Injection, IsInjective
<1>5. arg[t].addr \in Addrs
  BY DEF ThreadInv
<1>6. IsFiniteSet(A) /\ Cardinality(A) = Cardinality(Addrs) - 1
  BY <1>5, AddrsAssumption, FS_RemoveElement, SMTT(60)
<1>7. IsFiniteSet(D) /\ Cardinality(D) = s_statsCount
  <2>1. s_statsCount - 1 \in Int /\ 0 \in Int
    OBVIOUS
  <2>2. IsFiniteSet(0..(s_statsCount - 1))
        /\ Cardinality(0..(s_statsCount - 1)) =
              IF 0 > s_statsCount - 1 THEN 0 ELSE s_statsCount - 1 - 0 + 1
    BY <2>1, FS_Interval, ZenonT(60)
  <2> QED
    BY <2>2
<1>8. Cardinality(D) <= Cardinality(A)
  <2> HIDE DEF D, A, owner
  <2> QED
    BY <1>4, <1>6, FS_Injection
<1>9. Cardinality(Addrs) \in Nat
  BY AddrsAssumption, FS_CardinalityType
<1> QED
  BY <1>6, <1>7, <1>8, <1>9, AddrsAssumption, SMTT(60)

\* Everything IInv says of the table and of the threads' view of it.
DataInv ==
    /\ \A t \in Threads : ThreadInv(t)
    /\ TableInv
    /\ NoHoles
    /\ OneRecordPerFunction

\* The thread in the section is the only one that ThreadInv ties to the table:
\* the others are outside and know no more than their arguments.
LEMMA Others ==
    ASSUME IInv, NEW t \in Threads, pc[t] \in InSection
    PROVE  \A u \in Threads : u # t => pc[u] \in {"idle", "spin"}
BY DEF IInv, TypeOK, MutualExclusion, PCs

\* A step of the thread in the section that touches neither the table nor a
\* claimed slot leaves everything but its own view as it was.
LEMMA QuietStep ==
    ASSUME IInv, NEW t \in Threads, NEW from \in InSection, NEW to \in PCs,
           pc[t] = from, pc' = [pc EXCEPT ![t] = to],
           from # "store", to # "store",
           UNCHANGED tableVars, arg' = arg, ThreadInv(t)'
    PROVE  DataInv'
<1>1. \A u \in Threads : u # t => pc[u] \in {"idle", "spin"}
  BY Others
<1>2. pc \in [Threads -> PCs] /\ \A u \in Threads : ThreadInv(u)
  BY DEF IInv, TypeOK
<1>3. \A u \in Threads : u # t => pc'[u] = pc[u]
  BY <1>2
<1>4. \A u \in Threads : pc[u] # "store" /\ pc'[u] # "store"
  BY <1>1, <1>2, <1>3
<1>5. s_stats' = s_stats /\ s_statsCount' = s_statsCount /\ inited' = inited /\ shmStat' = shmStat
  BY DEF tableVars
<1>6. ASSUME NEW u \in Threads PROVE ThreadInv(u)'
  <2>1. CASE u = t
    BY <2>1
  <2>2. CASE u # t
    BY <2>2, <1>1, <1>2, <1>3 DEF ThreadInv
  <2> QED
    BY <2>1, <2>2
<1>7. TableInv'
  BY <1>5 DEF TableInv, IInv
<1>8. NoHoles'
  BY <1>4, <1>5 DEF NoHoles, IInv
<1>9. OneRecordPerFunction'
  BY <1>5 DEF OneRecordPerFunction, IInv
<1> QED
  BY <1>6, <1>7, <1>8, <1>9 DEF DataInv

LEMMA DataStep == IInv /\ [StatsNext]_vars => DataInv'
<1> SUFFICES ASSUME IInv, [StatsNext]_vars PROVE DataInv'
  OBVIOUS
<1> USE StatsAssumption DEF IInv, TypeOK, Goto
<1>1. ASSUME NEW t \in Threads, NEW a \in Addrs, NEW d \in Ticks, Call(t, a, d)
      PROVE  DataInv'
  BY <1>1, SMTT(60) DEF Call, DataInv, ThreadInv, TableInv, NoHoles,
              OneRecordPerFunction, tableVars
<1>2. ASSUME NEW t \in Threads, Spin(t) PROVE DataInv'
  BY <1>2, SMTT(60) DEF Spin, DataInv, ThreadInv, TableInv, NoHoles,
              OneRecordPerFunction, tableVars, threadVars
<1>3. ASSUME NEW t \in Threads, LookupHit(t) PROVE DataInv'
  <2>1. PICK i \in Slots : Found(i, arg[t].addr) /\ slot' = [slot EXCEPT ![t] = i]
    BY <1>3, ZenonT(60) DEF LookupHit
  <2>2. pc[t] = "lookup" /\ pc' = [pc EXCEPT ![t] = "count"] /\ UNCHANGED tableVars /\ arg' = arg
    BY <1>3 DEF LookupHit
  <2>3. s_stats[i].addr = arg[t].addr /\ slot'[t] = i /\ pc'[t] = "count"
    BY <2>1, <2>2 DEF Found, Matches
  <2>4. ThreadInv(t)'
    BY <2>2, <2>3 DEF ThreadInv, tableVars
  <2> HIDE DEF IInv, TypeOK
  <2> QED
    BY <2>2, <2>4, QuietStep, ZenonT(60) DEF InSection, PCs
<1>4. ASSUME NEW t \in Threads, LookupMiss(t) PROVE DataInv'
  <2>1. \A i \in Slots : s_stats[i].addr # arg[t].addr
    BY <1>4, Others, SMTT(60) DEF LookupMiss, Matches, ThreadInv, NoHoles, InSection, Slots
  <2> DEFINE to == IF inited THEN "limit" ELSE "init"
  <2>2. pc[t] = "lookup" /\ pc' = [pc EXCEPT ![t] = to] /\ UNCHANGED tableVars /\ arg' = arg
    BY <1>4 DEF LookupMiss, threadVars
  <2>3. pc'[t] = to
    BY <2>2
  <2>4. ThreadInv(t)'
    BY <2>1, <2>2, <2>3 DEF ThreadInv, tableVars
  <2>5. to \in PCs /\ to # "store"
    BY DEF PCs, InSection
  <2> HIDE DEF IInv, TypeOK, to
  <2> QED
    BY <2>2, <2>4, <2>5, QuietStep, ZenonT(60) DEF InSection
<1>5. ASSUME NEW t \in Threads, CountCall(t) PROVE DataInv'
  <2>1. \A i \in Slots : s_stats'[i].addr = s_stats[i].addr
    BY <1>5, SMTT(60) DEF CountCall, ThreadInv, Records
  <2> QED
    BY <1>5, <2>1, Others, SMTT(60) DEF CountCall, DataInv, ThreadInv, TableInv, NoHoles, OneRecordPerFunction, threadVars, InSection
<1>6. ASSUME NEW t \in Threads, AddTime(t) PROVE DataInv'
  <2>1. \A i \in Slots : s_stats'[i].addr = s_stats[i].addr
    BY <1>6, SMTT(60) DEF AddTime, ThreadInv, Records
  <2> QED
    BY <1>6, <2>1, Others, SMTT(60) DEF AddTime, DataInv, ThreadInv, TableInv, NoHoles, OneRecordPerFunction, threadVars, InSection
<1>7. ASSUME NEW t \in Threads, Unlock(t) PROVE DataInv'
  <2>1. pc[t] = "unlock" /\ pc' = [pc EXCEPT ![t] = "idle"] /\ UNCHANGED tableVars /\ arg' = arg
    BY <1>7 DEF Unlock, threadVars
  <2>2. ThreadInv(t)'
    BY <2>1 DEF ThreadInv, tableVars
  <2> HIDE DEF IInv, TypeOK
  <2> QED
    BY <2>1, <2>2, QuietStep, ZenonT(60) DEF InSection, PCs
<1>8. ASSUME NEW t \in Threads, InitSharedMemory(t) PROVE DataInv'
  <2>1. s_statsCount = 0 /\ s_statsCount' = 0
    BY <1>8 DEF InitSharedMemory, ThreadInv, TableInv
  <2>2. \A i \in Slots : s_stats'[i].addr = NULL
    BY <1>8 DEF InitSharedMemory, Empty
  <2>3. (\A u \in Threads : ThreadInv(u))'
    <3>1. /\ pc[t] = "init" /\ pc'[t] = "limit" /\ inited' = TRUE
          /\ \A u \in Threads : u # t => pc'[u] = pc[u]
          /\ arg' = arg /\ arg[t].addr \in Addrs /\ NULL \notin Addrs
      BY <1>8 DEF InitSharedMemory, threadVars, ThreadInv
    <3>2. \A u \in Threads : u # t => pc[u] \in {"idle", "spin"}
      BY <3>1, Others DEF InSection
    <3>3. \A u \in Threads : ThreadInv(u)
      OBVIOUS
    <3> HIDE DEF IInv, TypeOK
    <3>4. ThreadInv(t)'
      BY <2>2, <3>1, <3>3 DEF ThreadInv
    <3>5. \A u \in Threads : u # t => ThreadInv(u)'
      BY <3>1, <3>2, <3>3 DEF ThreadInv
    <3> QED
      BY <3>4, <3>5
  <2>4. TableInv'
    BY <1>8, <2>1 DEF InitSharedMemory, TableInv
  <2>5. NoHoles' /\ OneRecordPerFunction'
    BY <2>1, <2>2, SMTT(60) DEF NoHoles, OneRecordPerFunction, Slots
  <2> QED
    BY <2>3, <2>4, <2>5 DEF DataInv
<1>9. ASSUME NEW t \in Threads, InitSharedMemoryCrash(t) PROVE DataInv'
  <2>1. pc[t] = "init" /\ pc' = [pc EXCEPT ![t] = "init"] /\ UNCHANGED tableVars /\ arg' = arg
    BY <1>9 DEF InitSharedMemoryCrash, threadVars
  <2>2. ThreadInv(t)'
    BY <2>1 DEF ThreadInv, tableVars
  <2> HIDE DEF IInv, TypeOK
  <2> QED
    BY <2>1, <2>2, QuietStep, ZenonT(60) DEF InSection, PCs
<1>10. ASSUME NEW t \in Threads, CheckLimit(t) PROVE DataInv'
  <2> DEFINE to == IF s_statsCount >= STATS_LIMIT THEN "exiting" ELSE "claim"
  <2>1. pc[t] = "limit" /\ pc' = [pc EXCEPT ![t] = to] /\ UNCHANGED tableVars /\ arg' = arg
    BY <1>10 DEF CheckLimit, threadVars
  <2>2. pc'[t] = to
    BY <2>1
  <2>3. ThreadInv(t)'
    BY <2>1, <2>2, SMTT(60) DEF ThreadInv, tableVars
  <2>4. to \in PCs /\ to # "store"
    BY DEF PCs, InSection
  <2> HIDE DEF IInv, TypeOK, to
  <2> QED
    BY <2>1, <2>3, <2>4, QuietStep, ZenonT(60) DEF InSection
<1>11. ASSUME NEW t \in Threads, ClaimSlot(t) PROVE DataInv'
  <2>1. s_statsCount + 1 <= FnCount
    BY <1>11, RoomForOneMore DEF ClaimSlot
  <2>2. s_statsCount + 1 <= STATS_LIMIT
    BY <1>11, SMTT(60) DEF ClaimSlot, ThreadInv
  <2>3. (\A u \in Threads : ThreadInv(u))'
    <3>1. /\ pc[t] = "claim" /\ pc'[t] = "store" /\ slot'[t] = s_statsCount
          /\ \A u \in Threads : u # t => pc'[u] = pc[u]
          /\ s_statsCount' = s_statsCount + 1 /\ s_statsCount \in Nat
          /\ s_stats' = s_stats /\ inited' = inited /\ arg' = arg
      BY <1>11 DEF ClaimSlot
    <3>2. \A u \in Threads : u # t => pc[u] \in {"idle", "spin"}
      BY <3>1, Others, SMTT(60) DEF InSection
    <3>3. s_statsCount \in Slots
      BY <2>1, <3>1, SMTT(60) DEF Slots
    <3>4. \A u \in Threads : ThreadInv(u)
      OBVIOUS
    <3> HIDE DEF IInv, TypeOK
    <3>5. ThreadInv(t)'
      BY <3>1, <3>3, <3>4 DEF ThreadInv
    <3>6. \A u \in Threads : u # t => ThreadInv(u)'
      BY <3>1, <3>2, <3>4 DEF ThreadInv
    <3> QED
      BY <3>5, <3>6
  <2>4. NoHoles' /\ OneRecordPerFunction'
    BY <1>11, Others, SMTT(60) DEF ClaimSlot, NoHoles, OneRecordPerFunction, InSection, Slots
  <2> QED
    BY <1>11, <2>1, <2>2, <2>3, <2>4, SMTT(60) DEF ClaimSlot, DataInv, TableInv,
                                         ThreadInv
<1>12. ASSUME NEW t \in Threads, StoreStat(t) PROVE DataInv'
  <2>1. /\ slot[t] \in Slots
        /\ s_stats'[slot[t]].addr = arg[t].addr /\ arg[t].addr \in Addrs
        /\ \A i \in Slots : i # slot[t] => s_stats'[i] = s_stats[i]
    BY <1>12, SMTT(60) DEF StoreStat, ThreadInv
  <2>2. /\ pc[t] = "store" /\ pc'[t] = "unlock" /\ \A u \in Threads : u # t => pc'[u] = pc[u]
        /\ s_statsCount' = s_statsCount /\ inited' = inited /\ shmStat' = shmStat
        /\ arg' = arg /\ slot' = slot
    BY <1>12 DEF StoreStat, threadVars
  <2>3. \A u \in Threads : u # t => pc[u] \in {"idle", "spin"}
    BY <2>2, Others DEF InSection
  <2>4. /\ \A u \in Threads : ThreadInv(u)
        /\ TableInv /\ NoHoles /\ OneRecordPerFunction
        /\ NULL \notin Addrs /\ s_statsCount = slot[t] + 1
        /\ \A i \in Slots : s_stats[i].addr # arg[t].addr
    BY <2>2 DEF ThreadInv
  <2> HIDE StatsAssumption DEF IInv, TypeOK, Goto
  <2>5. (\A u \in Threads : ThreadInv(u))'
    BY <2>2, <2>3, <2>4 DEF ThreadInv
  <2>6. TableInv'
    BY <2>2, <2>4 DEF TableInv
  <2>7. NoHoles'
    BY <2>1, <2>2, <2>3, <2>4, SMTT(60) DEF NoHoles, Slots
  <2>8. OneRecordPerFunction'
    <3> SUFFICES ASSUME NEW i \in Slots, NEW j \in Slots, s_stats'[i].addr # NULL,
                        s_stats'[i].addr = s_stats'[j].addr
                 PROVE  i = j
      BY DEF OneRecordPerFunction
    <3>1. CASE i # slot[t] /\ j # slot[t]
      <4>1. s_stats'[i] = s_stats[i] /\ s_stats'[j] = s_stats[j]
        BY <2>1, <3>1
      <4> QED
        BY <2>4, <4>1 DEF OneRecordPerFunction
    <3>2. CASE i = slot[t] \/ j = slot[t]
      BY <2>1, <2>4, <3>2
    <3> QED
      BY <3>1, <3>2
  <2> QED
    BY <2>5, <2>6, <2>7, <2>8 DEF DataInv
<1>13. ASSUME NEW t \in Threads, ProcessExit(t) PROVE DataInv'
  <2>1. pc[t] = "exiting" /\ pc' = [pc EXCEPT ![t] = "exiting"] /\ UNCHANGED tableVars /\ arg' = arg
    BY <1>13 DEF ProcessExit, threadVars
  <2>2. ThreadInv(t)'
    BY <2>1 DEF ThreadInv, tableVars
  <2> HIDE DEF IInv, TypeOK
  <2> QED
    BY <2>1, <2>2, QuietStep, ZenonT(60) DEF InSection, PCs
<1>14. CASE UNCHANGED vars
  BY <1>14, SMTT(60) DEF vars, DataInv, ThreadInv, TableInv, NoHoles,
               OneRecordPerFunction
<1> QED
  BY <1>1, <1>2, <1>3, <1>4, <1>5, <1>6, <1>7, <1>8, <1>9, <1>10, <1>11, <1>12,
     <1>13, <1>14 DEF StatsNext, Update, Finished, KeepSpinning

LEMMA IInvStep == IInv /\ [StatsNext]_vars => IInv'
BY TypeStep, LockStep, DataStep DEF IInv, DataInv

\* The inductive invariant holds in every reachable state of updateStat.
THEOREM InductiveInvariant == StatsSpec => []IInv
BY InitIInv, IInvStep, PTL DEF StatsSpec

\* TypeOK: all variables of the statistics table keep their C ranges.
THEOREM TypeCorrect == StatsSpec => []TypeOK
<1>1. IInv => TypeOK
  BY DEF IInv
<1> QED
  BY <1>1, InductiveInvariant, PTL

\* The fetch-and-add spinlock of updateStat excludes, whatever the number of
\* threads, as long as the waiters cannot count the lock word around to 0
\* during one hold (NoWrapAssumption).
THEOREM SpinlockExcludes == StatsSpec => []MutualExclusion
<1>1. IInv => MutualExclusion
  BY DEF IInv
<1> QED
  BY <1>1, InductiveInvariant, PTL

\* updateStat never creates a second record for a function.
THEOREM UniqueRecords == StatsSpec => []OneRecordPerFunction
<1>1. IInv => OneRecordPerFunction
  BY DEF IInv
<1> QED
  BY <1>1, InductiveInvariant, PTL

\* The loader's walk to the first NULL element misses no stored record.
THEOREM TableIsPrefix == StatsSpec => []NoHoles
<1>1. IInv => NoHoles
  BY DEF IInv
<1> QED
  BY <1>1, InductiveInvariant, PTL

\* addNewStat stays inside the table initStats mapped although it only
\* compares the count with STATS_LIMIT: one function per name is enough.
THEOREM NoOverrun == StatsSpec => []TableInBounds
<1>1. IInv => TableInBounds
  BY DEF IInv, TableInv, ThreadInv, TableInBounds
<1> QED
  BY <1>1, InductiveInvariant, PTL

\* A stored record can be reached through the statistics segment.
THEOREM RecordsReachable == StatsSpec => []RecordsPublished
<1>1. IInv => RecordsPublished
  BY SMTT(60) DEF IInv, TypeOK, TableInv, NoHoles, RecordsPublished, Slots
<1> QED
  BY <1>1, InductiveInvariant, PTL

-----------------------------------------------------------------------------

\* A step keeps every stored record, its function and its count.
LEMMA GrowStep ==
    ASSUME IInv, [StatsNext]_vars, NEW i \in Slots, s_stats[i].addr # NULL
    PROVE  s_stats'[i].addr = s_stats[i].addr /\ s_stats'[i].calls >= s_stats[i].calls
<1> USE StatsAssumption DEF IInv, TypeOK, Goto
<1>1. s_stats[i].calls \in Nat
  BY DEF Records
<1>2. ASSUME s_stats' = s_stats
      PROVE  s_stats'[i].addr = s_stats[i].addr /\ s_stats'[i].calls >= s_stats[i].calls
  BY <1>1, <1>2, SMTT(60)
<1>3. ASSUME NEW t \in Threads, CountCall(t)
      PROVE  s_stats'[i].addr = s_stats[i].addr /\ s_stats'[i].calls >= s_stats[i].calls
  BY <1>1, <1>3, SMTT(60) DEF CountCall, ThreadInv, Records
<1>4. ASSUME NEW t \in Threads, AddTime(t)
      PROVE  s_stats'[i].addr = s_stats[i].addr /\ s_stats'[i].calls >= s_stats[i].calls
  BY <1>1, <1>4, SMTT(60) DEF AddTime, ThreadInv, Records
<1>5. ASSUME NEW t \in Threads, InitSharedMemory(t) PROVE FALSE
  BY <1>5, SMTT(60) DEF InitSharedMemory, ThreadInv, TableInv, NoHoles, Slots
<1>6. ASSUME NEW t \in Threads, StoreStat(t)
      PROVE  s_stats'[i].addr = s_stats[i].addr /\ s_stats'[i].calls >= s_stats[i].calls
  <2>1. slot[t] # i
    BY <1>1, <1>6 DEF StoreStat, NoHoles
  <2>2. s_stats'[i] = s_stats[i]
    BY <1>6, <2>1, SMTT(60) DEF StoreStat
  <2>3. s_stats[i].calls \in Nat
    BY DEF Records
  <2> HIDE DEF IInv, TypeOK
  <2> QED
    BY <2>2, <2>3, SMTT(60)
<1> QED
  BY <1>2, <1>3, <1>4, <1>5, <1>6, ZenonT(60)
     DEF StatsNext, Update, Finished, KeepSpinning, vars, tableVars, Call, Spin, LookupHit,
         LookupMiss, Unlock, InitSharedMemoryCrash, CheckLimit, ClaimSlot, ProcessExit

\* No step of updateStat drops a record or counts one down.
THEOREM RecordsMonotonic == StatsSpec => RecordsOnlyGrow
<1>1. IInv /\ [StatsNext]_vars =>
        [\A i \in Slots : s_stats[i].addr # NULL =>
            /\ s_stats'[i].addr = s_stats[i].addr
            /\ s_stats'[i].calls >= s_stats[i].calls]_vars
  BY GrowStep
<1> QED
  BY <1>1, InductiveInvariant, PTL DEF StatsSpec, RecordsOnlyGrow

-----------------------------------------------------------------------------
(* updateStat implements AtomicStats. *)

LEMMA SlotOfUnique ==
    ASSUME OneRecordPerFunction, NEW i \in Slots, s_stats[i].addr # NULL
    PROVE  SlotOf(s_stats[i].addr) = i
BY DEF SlotOf, OneRecordPerFunction

\* Ticks are pending for the function whose call was just counted ...
LEMMA PendingOne ==
    ASSUME IInv, NEW t \in Threads, pc[t] = "time", NEW a
    PROVE  PendingTime(a) = IF a = arg[t].addr THEN arg[t].diff ELSE 0
<1>1. \A u \in Threads : pc[u] = "time" => u = t
  BY DEF IInv, MutualExclusion, InSection
<1>2. Adders(a) = IF a = arg[t].addr THEN {t} ELSE {}
  BY <1>1 DEF Adders
<1> QED
  BY <1>2 DEF PendingTime

\* ... and for no other.
LEMMA PendingNone ==
    ASSUME NEW a, \A u \in Threads : pc[u] # "time" PROVE PendingTime(a) = 0
BY DEF PendingTime, Adders

LEMMA TotalUnchanged ==
    ASSUME s_stats' = s_stats,
           \A a \in Addrs : PendingTime(a)' = PendingTime(a)
    PROVE  AbsTotal' = AbsTotal
BY DEF AbsTotal, SlotOf

\* A step of thread t away from "time" that leaves the table alone and the
\* arguments of other threads changes no total.
LEMMA QuietTotal ==
    ASSUME IInv, s_stats' = s_stats, NEW t \in Threads,
           pc[t] # "time", pc'[t] # "time",
           \A u \in Threads : u # t => pc'[u] = pc[u] /\ arg'[u] = arg[u]
    PROVE  AbsTotal' = AbsTotal
<1>1. ASSUME NEW a \in Addrs PROVE PendingTime(a)' = PendingTime(a)
  <2>1. Adders(a)' = Adders(a)
    BY DEF Adders
  <2>2. ASSUME Adders(a) # {}
        PROVE  arg'[CHOOSE u \in Adders(a) : TRUE] = arg[CHOOSE u \in Adders(a) : TRUE]
    BY <2>2 DEF Adders
  <2> QED
    BY <2>1, <2>2, SMTT(60) DEF PendingTime
<1> QED
  BY <1>1, TotalUnchanged

LEMMA InitRefines == StatsInit => Abstract!AInit
<1> SUFFICES ASSUME StatsInit PROVE Abstract!AInit
  OBVIOUS
<1>1. \A a \in Addrs, i \in Slots : s_stats[i].addr # a
  BY StatsAssumption DEF StatsInit, Empty
<1>2. AbsTotal = [a \in Addrs |-> [calls |-> 0, time |-> 0]]
  BY <1>1 DEF AbsTotal
<1>3. AbsCall = [t \in Threads |-> Abstract!NoCall]
  BY SMTT(60) DEF StatsInit, AbsCall, Abstract!NoCall
<1> QED
  BY <1>2, <1>3 DEF Abstract!AInit

\* The abstract call of a thread as its program counter gives it.
LEMMA CallIs ==
    ASSUME NEW t \in Threads
    PROVE  /\ pc[t] = "idle" => AbsCall[t] = Abstract!NoCall
           /\ pc[t] # "idle" =>
                /\ AbsCall[t].addr = arg[t].addr /\ AbsCall[t].diff = arg[t].diff
                /\ AbsCall[t].state =
                     IF pc[t] \in {"time", "unlock"} THEN "applied" ELSE "begun"
BY SMTT(60) DEF AbsCall, Abstract!NoCall

\* Steps that no caller can tell from doing nothing.
LEMMA StutterStep ==
    ASSUME IInv, NEW t \in Threads,
           \/ Spin(t) \/ LookupHit(t) \/ LookupMiss(t) \/ InitSharedMemoryCrash(t)
           \/ CheckLimit(t) \/ ClaimSlot(t) \/ ProcessExit(t)
    PROVE  AbsTotal' = AbsTotal /\ AbsCall' = AbsCall
<1> USE DEF IInv, TypeOK, Goto
<1>1. /\ s_stats' = s_stats /\ arg' = arg
      /\ pc[t] \notin {"idle", "time", "unlock"} /\ pc'[t] \notin {"idle", "time", "unlock"}
      /\ \A u \in Threads : u # t => pc'[u] = pc[u]
  BY SMTT(60) DEF Spin, LookupHit, LookupMiss, InitSharedMemoryCrash, CheckLimit, ClaimSlot,
         ProcessExit, tableVars, threadVars
<1>2. AbsTotal' = AbsTotal
  BY <1>1, QuietTotal
<1>3. AbsCall' = AbsCall
  BY <1>1, ZenonT(60) DEF AbsCall
<1> QED
  BY <1>2, <1>3

\* The first mapping of the table: no record is stored before or after it.
LEMMA InitSharedMemoryStutters ==
    ASSUME IInv, NEW t \in Threads, InitSharedMemory(t)
    PROVE  AbsTotal' = AbsTotal /\ AbsCall' = AbsCall
<1> USE DEF IInv, TypeOK, Goto, InitSharedMemory
<1>1. \A i \in Slots : s_stats[i].addr = NULL /\ s_stats'[i].addr = NULL
  <2>1. s_statsCount = 0
    BY DEF ThreadInv, TableInv
  <2>2. \A i \in Slots : s_stats[i].addr = NULL
    BY <2>1, SMTT(60) DEF NoHoles, Slots
  <2>3. \A i \in Slots : s_stats'[i].addr = NULL
    BY DEF Empty
  <2> QED
    BY <2>2, <2>3, ZenonT(60)
<1>2. AbsTotal' = AbsTotal
  BY <1>1, StatsAssumption, SMTT(60) DEF AbsTotal
<1>3. AbsCall' = AbsCall
  BY SMTT(60) DEF AbsCall, threadVars
<1> QED
  BY <1>2, <1>3

LEMMA CallRefines ==
    ASSUME IInv, NEW t \in Threads, NEW a \in Addrs, NEW d \in Ticks, Call(t, a, d)
    PROVE  Abstract!ABegin(t, a, d)
<1> USE DEF IInv, TypeOK, Goto, Call, tableVars
<1>1. AbsTotal' = AbsTotal
  BY QuietTotal, ZenonT(60)
<1>2. AbsCall[t] = Abstract!NoCall
  BY CallIs, ZenonT(60)
<1>3. AbsCall' = [AbsCall EXCEPT ![t] = [state |-> "begun", addr |-> a, diff |-> d]]
  BY ZenonT(60) DEF AbsCall
<1> QED
  BY <1>1, <1>2, <1>3, SMTT(60) DEF Abstract!ABegin

LEMMA UnlockRefines ==
    ASSUME IInv, NEW t \in Threads, Unlock(t)
    PROVE  Abstract!AEnd(t)
<1> USE DEF IInv, TypeOK, Goto, Unlock, tableVars, threadVars
<1>1. AbsTotal' = AbsTotal
  BY QuietTotal
<1>2. AbsCall[t].state = "applied"
  BY CallIs, SMTT(60)
<1>3. AbsCall' = [AbsCall EXCEPT ![t] = Abstract!NoCall]
  BY ZenonT(60) DEF AbsCall, Abstract!NoCall
<1> QED
  BY <1>1, <1>2, <1>3 DEF Abstract!AEnd

\* What AbsTotal says of a function with a record, and of one without.
LEMMA TotalIs ==
    ASSUME OneRecordPerFunction, NULL \notin Addrs, NEW a \in Addrs
    PROVE  /\ \A i \in Slots : s_stats[i].addr = a =>
                AbsTotal[a] = [calls |-> s_stats[i].calls,
                               time |-> (s_stats[i].time + PendingTime(a)) % TimeMod]
           /\ (\A i \in Slots : s_stats[i].addr # a) =>
                AbsTotal[a] = [calls |-> 0, time |-> 0]
BY SlotOfUnique, SMTT(60) DEF AbsTotal

\* The whole effect of a call, its ticks included, is dated at the increment
\* of totalCallsNumber.
LEMMA CountCallRefines ==
    ASSUME IInv, IInv', NEW t \in Threads, CountCall(t)
    PROVE  Abstract!AApply(t)
<1> USE StatsAssumption DEF IInv, TypeOK, Goto, CountCall, threadVars
<1> DEFINE k == slot[t]
           f == arg[t].addr
<1>1. k \in Slots /\ s_stats[k].addr = f /\ f \in Addrs /\ arg[t].diff \in Nat
  BY SMTT(60) DEF ThreadInv
<1>2. /\ s_stats'[k].addr = f /\ s_stats'[k].time = s_stats[k].time
      /\ s_stats'[k].calls = s_stats[k].calls + 1
      /\ \A i \in Slots : i # k => s_stats'[i] = s_stats[i]
      /\ \A i \in Slots : s_stats'[i].addr = s_stats[i].addr
  BY <1>1, SMTT(60) DEF Records
<1>3. \A a \in Addrs : PendingTime(a) = 0
  BY PendingNone, Others DEF InSection
<1>4. \A a \in Addrs : PendingTime(a)' = IF a = f THEN arg[t].diff ELSE 0
  <2>1. \A a \in Addrs : Adders(a)' = IF a = f THEN {t} ELSE {}
    BY Others, SMTT(60) DEF Adders, InSection
  <2>2. (CHOOSE u \in {t} : TRUE) = t
    OBVIOUS
  <2>3. ASSUME NEW a \in Addrs
        PROVE  PendingTime(a)' = IF a = f THEN arg[t].diff ELSE 0
    <3>1. CASE a = f
      <4>1. Adders(a)' = {t}
        BY <2>1, <3>1
      <4> QED
        BY <4>1, <2>2, <3>1, SMTT(60) DEF PendingTime
    <3>2. CASE a # f
      BY <2>1, <3>2 DEF PendingTime
    <3> QED
      BY <3>1, <3>2
  <2> QED
    BY <2>3
<1>5. s_stats[k].time \in Nat /\ s_stats[k].time < TimeMod
  BY <1>1, SMTT(60) DEF Records
<1>6. AbsTotal[f] = [calls |-> s_stats[k].calls, time |-> s_stats[k].time]
  BY <1>1, <1>3, <1>5, TotalIs, ModSmall, SMTT(60)
<1>7. \A a \in Addrs : SlotOf(a)' = SlotOf(a)
  BY <1>2, SMTT(60) DEF SlotOf
<1>8. SlotOf(f) = k
  BY <1>1, SlotOfUnique
<1>9. AbsTotal' = [AbsTotal EXCEPT ![f] =
                     [calls |-> s_stats[k].calls + 1,
                      time |-> (s_stats[k].time + arg[t].diff) % TimeMod]]
  <2>1. AbsTotal'[f] = [calls |-> s_stats[k].calls + 1,
                        time |-> (s_stats[k].time + arg[t].diff) % TimeMod]
    BY <1>1, <1>2, <1>4, <1>7, <1>8, SMTT(60) DEF AbsTotal
  <2>2. ASSUME NEW a \in Addrs, a # f PROVE AbsTotal'[a] = AbsTotal[a]
    <3>1. CASE \E i \in Slots : s_stats[i].addr = a
      <4>1. SlotOf(a) \in Slots /\ SlotOf(a) # k
        BY <3>1, <1>1, <2>2 DEF SlotOf
      <4> QED
        BY <3>1, <4>1, <2>2, <1>2, <1>3, <1>4, <1>7, SMTT(60) DEF AbsTotal
    <3>2. CASE \A i \in Slots : s_stats[i].addr # a
      BY <3>2, <1>2 DEF AbsTotal
    <3> QED
      BY <3>1, <3>2
  <2>3. /\ AbsTotal = [a \in Addrs |-> AbsTotal[a]]
        /\ AbsTotal' = [a \in Addrs |-> AbsTotal'[a]]
    BY Zenon DEF AbsTotal
  <2> QED
    BY <2>1, <2>2, <2>3, <1>1
<1>10. AbsCall[t].state = "begun" /\ AbsCall[t].addr = f /\ AbsCall[t].diff = arg[t].diff
  BY CallIs
<1>11. AbsCall' = [AbsCall EXCEPT ![t] =
                     [state |-> "applied", addr |-> f, diff |-> arg[t].diff]]
  BY ZenonT(60) DEF AbsCall
<1>12. AbsTotal[f].calls = s_stats[k].calls /\ AbsTotal[f].time = s_stats[k].time
  BY <1>6, SMTT(60)
<1> HIDE DEF IInv, TypeOK, Goto, CountCall, threadVars
<1> QED
  BY <1>9, <1>10, <1>11, <1>12, SMTT(60) DEF Abstract!AApply

\* The ticks that were pending are added: nothing changes for a caller.
LEMMA AddTimeStutters ==
    ASSUME IInv, NEW t \in Threads, AddTime(t)
    PROVE  AbsTotal' = AbsTotal /\ AbsCall' = AbsCall
<1> USE StatsAssumption DEF IInv, TypeOK, Goto, AddTime, threadVars
<1> DEFINE k == slot[t]
           f == arg[t].addr
           sum == (s_stats[k].time + arg[t].diff) % TimeMod
<1>1. k \in Slots /\ s_stats[k].addr = f /\ f \in Addrs /\ arg[t].diff \in Nat
  BY SMTT(60) DEF ThreadInv
<1>2. s_stats[k].time \in Nat /\ sum \in 0..(TimeMod - 1)
  BY <1>1, ModRange, SMTT(60) DEF Records
<1>3. /\ s_stats'[k].addr = f /\ s_stats'[k].time = sum
      /\ s_stats'[k].calls = s_stats[k].calls
      /\ \A i \in Slots : i # k => s_stats'[i] = s_stats[i]
      /\ \A i \in Slots : s_stats'[i].addr = s_stats[i].addr
  BY <1>1 DEF Records
<1>4. \A a \in Addrs : PendingTime(a) = IF a = f THEN arg[t].diff ELSE 0
  BY PendingOne
<1>5. \A a \in Addrs : PendingTime(a)' = 0
  <2>1. \A a \in Addrs : Adders(a)' = {}
    BY Others DEF Adders, InSection
  <2> QED
    BY <2>1 DEF PendingTime
<1> HIDE DEF IInv, TypeOK, Goto, AddTime, threadVars
<1>6. \A a \in Addrs : SlotOf(a)' = SlotOf(a)
  BY <1>3, SMTT(60) DEF SlotOf
<1>7. SlotOf(f) = k
  BY <1>1, SlotOfUnique, StatsAssumption DEF IInv
<1>8. AbsTotal'[f] = AbsTotal[f]
  <2>1. AbsTotal[f] = [calls |-> s_stats[k].calls, time |-> sum]
    BY <1>1, <1>4, <1>7, SMTT(60) DEF AbsTotal
  <2>2. AbsTotal'[f] = [calls |-> s_stats[k].calls, time |-> (sum + 0) % TimeMod]
    <3> HIDE DEF sum
    <3> QED
      BY <1>1, <1>3, <1>5, <1>6, <1>7, SMTT(60) DEF AbsTotal
  <2>3. (sum + 0) % TimeMod = sum
    <3> HIDE DEF sum
    <3>1. sum \in Nat /\ sum < TimeMod /\ sum + 0 = sum /\ TimeMod \in Nat \ {0}
      BY <1>2, SMTT(60)
    <3> QED
      BY <3>1, ModSmall
  <2> QED
    BY <2>1, <2>2, <2>3, SMTT(60)
<1>9. ASSUME NEW a \in Addrs, a # f PROVE AbsTotal'[a] = AbsTotal[a]
  <2>1. CASE \E i \in Slots : s_stats[i].addr = a
    <3>1. SlotOf(a) \in Slots /\ SlotOf(a) # k
      BY <2>1, <1>1, <1>9, SMTT(60) DEF SlotOf
    <3> QED
      BY <2>1, <3>1, <1>9, <1>3, <1>4, <1>5, <1>6, SMTT(60) DEF AbsTotal
  <2>2. CASE \A i \in Slots : s_stats[i].addr # a
    BY <2>2, <1>3, SMTT(60) DEF AbsTotal
  <2> QED
    BY <2>1, <2>2
<1>10. AbsTotal' = AbsTotal
  <2>1. /\ AbsTotal = [a \in Addrs |-> AbsTotal[a]]
        /\ AbsTotal' = [a \in Addrs |-> AbsTotal'[a]]
    BY Zenon DEF AbsTotal
  <2> QED
    BY <2>1, <1>8, <1>9
<1>11. AbsCall' = AbsCall
  BY SMTT(60) DEF AbsCall, IInv, TypeOK, Goto, AddTime, threadVars
<1> QED
  BY <1>10, <1>11

\* The first call of a function takes effect when its record is stored.
LEMMA StoreStatRefines ==
    ASSUME IInv, NEW t \in Threads, StoreStat(t)
    PROVE  Abstract!AApply(t)
<1>1. /\ pc[t] = "store" /\ ThreadInv(t) /\ NoHoles
      /\ s_stats \in [Slots -> Records] /\ arg' = arg
      /\ s_stats' = [s_stats EXCEPT ![slot[t]] =
                        [addr |-> arg[t].addr, calls |-> 1, time |-> arg[t].diff]]
  BY DEF IInv, TypeOK, Goto, StoreStat, threadVars
<1>2. slot[t] \in Slots /\ arg[t].addr \in Addrs /\ arg[t].diff \in Nat
  <2>1. slot[t] \in Slots /\ arg[t].addr \in Addrs /\ arg[t].diff \in Ticks
    BY <1>1, SMTT(60) DEF ThreadInv
  <2>2. \A x \in Ticks : x \in Nat
    BY StatsAssumption
  <2> QED
    BY <2>1, <2>2
<1>3. PICK k \in Slots, f \in Addrs, d \in Nat :
        k = slot[t] /\ f = arg[t].addr /\ d = arg[t].diff
  BY <1>2
<1>4. (\A i \in Slots : s_stats[i].addr # f) /\ s_stats[k].addr = NULL
  <2>1. \A i \in Slots : s_stats[i].addr # f
    BY <1>1, <1>3, SMTT(60) DEF ThreadInv
  <2>2. s_stats[k].addr = NULL
    BY <1>1, <1>3 DEF NoHoles
  <2> QED
    BY <2>1, <2>2
<1>5. /\ s_stats'[k] = [addr |-> f, calls |-> 1, time |-> d]
      /\ \A i \in Slots : i # k => s_stats'[i] = s_stats[i]
  BY <1>1, <1>3
<1>6. \A a \in Addrs : PendingTime(a) = 0
  BY <1>1, PendingNone, Others DEF InSection
<1>7. \A a \in Addrs : PendingTime(a)' = 0
  <2>1. \A a \in Addrs : Adders(a)' = {}
    BY Others DEF Adders, InSection, IInv, TypeOK, Goto, StoreStat
  <2> QED
    BY <2>1 DEF PendingTime
<1>8. AbsTotal[f] = [calls |-> 0, time |-> 0]
  BY <1>4, SMTT(60) DEF AbsTotal
<1>9. AbsTotal'[f] = [calls |-> 0 + 1, time |-> (0 + d) % TimeMod]
  <2>1. \A i \in Slots : s_stats'[i].addr = f <=> i = k
    BY <1>4, <1>5, SMTT(60)
  <2>2. SlotOf(f)' = k
    BY <2>1 DEF SlotOf
  <2>3. AbsTotal'[f] = [calls |-> s_stats'[k].calls,
                        time |-> (s_stats'[k].time + 0) % TimeMod]
    BY <1>7, <2>1, <2>2 DEF AbsTotal
  <2> QED
    BY <1>5, <2>3, SMTT(60)
<1>10. ASSUME NEW a \in Addrs, a # f PROVE AbsTotal'[a] = AbsTotal[a]
  <2>1. \A i \in Slots : s_stats'[i].addr = a <=> s_stats[i].addr = a
    <3>1. NULL # a
      BY StatsAssumption
    <3>2. s_stats'[k].addr # a /\ s_stats[k].addr # a
      BY <1>4, <1>5, <1>10, <3>1, SMTT(60)
    <3> QED
      BY <1>5, <3>2
  <2>2. SlotOf(a)' = SlotOf(a)
    BY <2>1 DEF SlotOf
  <2>3. CASE \E i \in Slots : s_stats[i].addr = a
    <3>1. SlotOf(a) \in Slots /\ s_stats[SlotOf(a)].addr = a
      BY <2>3 DEF SlotOf
    <3>2. SlotOf(a) # k
      BY <3>1, <1>4, StatsAssumption
    <3> QED
      BY <2>1, <2>2, <2>3, <3>1, <3>2, <1>5, <1>6, <1>7, SMTT(60) DEF AbsTotal
  <2>4. CASE \A i \in Slots : s_stats[i].addr # a
    BY <2>1, <2>4, SMTT(60) DEF AbsTotal
  <2> QED
    BY <2>3, <2>4
<1>11. AbsTotal' = [AbsTotal EXCEPT ![f] = [calls |-> 0 + 1, time |-> (0 + d) % TimeMod]]
  <2>1. /\ AbsTotal = [a \in Addrs |-> AbsTotal[a]]
        /\ AbsTotal' = [a \in Addrs |-> AbsTotal'[a]]
    BY Zenon DEF AbsTotal
  <2> QED
    BY <2>1, <1>9, <1>10
<1>12. AbsCall[t].state = "begun" /\ AbsCall[t].addr = f /\ AbsCall[t].diff = d
  BY <1>1, <1>3, CallIs, SMTT(60)
<1>13. AbsCall' = [AbsCall EXCEPT ![t] = [state |-> "applied", addr |-> f, diff |-> d]]
  BY <1>3, ZenonT(60) DEF AbsCall, IInv, TypeOK, Goto, StoreStat, threadVars
<1>14. AbsTotal[f].calls = 0 /\ AbsTotal[f].time = 0
  BY <1>8, SMTT(60)
<1> QED
  BY <1>11, <1>12, <1>13, <1>14 DEF Abstract!AApply

\* updateStat, with its lock, its lookup and its growing table, is one atomic
\* addition per call to a map from function to count and ticks.
THEOREM StatsRefinement == StatsSpec => ImplementsAtomicStats
<1>1. IInv /\ [StatsNext]_vars => [Abstract!ANext]_(Abstract!absVars)
  <2> SUFFICES ASSUME IInv, [StatsNext]_vars
               PROVE  [Abstract!ANext]_(Abstract!absVars)
    OBVIOUS
  <2>1. ASSUME AbsTotal' = AbsTotal /\ AbsCall' = AbsCall
        PROVE  [Abstract!ANext]_(Abstract!absVars)
    BY <2>1 DEF Abstract!absVars
  <2>2. ASSUME NEW t \in Threads, NEW a \in Addrs, NEW d \in Ticks, Call(t, a, d)
        PROVE  Abstract!ANext
    BY <2>2, CallRefines DEF Abstract!ANext
  <2>3. ASSUME NEW t \in Threads, CountCall(t) \/ StoreStat(t) PROVE Abstract!ANext
    BY <2>3, CountCallRefines, StoreStatRefines, IInvStep DEF Abstract!ANext
  <2>4. ASSUME NEW t \in Threads, Unlock(t) PROVE Abstract!ANext
    BY <2>4, UnlockRefines DEF Abstract!ANext
  <2>5. CASE UNCHANGED vars
    <3>1. AbsTotal' = AbsTotal /\ AbsCall' = AbsCall
      BY <2>5, ZenonT(60) DEF vars, AbsTotal, AbsCall, SlotOf, PendingTime, Adders
    <3> QED
      BY <3>1, <2>1
  <2> QED
    BY <2>1, <2>2, <2>3, <2>4, <2>5, StutterStep, InitSharedMemoryStutters, ZenonT(60),
       AddTimeStutters DEF StatsNext, Update, Finished, KeepSpinning
<1> QED
  BY <1>1, InitRefines, InductiveInvariant, PTL
     DEF StatsSpec, ImplementsAtomicStats, Abstract!ASpec
=============================================================================
