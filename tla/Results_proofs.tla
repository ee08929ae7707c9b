--------------------------- MODULE Results_proofs ---------------------------
(***************************************************************************)
(* What the report at exit prints, for any number of threads, functions    *)
(* and calls.  The table's own invariant is that of GlobalStats_proofs.    *)
(***************************************************************************)
EXTENDS Results, GlobalStats_proofs

-----------------------------------------------------------------------------
(* The inductive invariant *)

\* n calls, each of at most m ticks, can have taken total.
Backed(total, n) ==
    \A m \in 0..(TimeMod - 1) : (\A d \in Ticks : d <= m) => total <= n * m

\* A record has no ticks of a call that it does not count, those that the
\* thread in the critical section is about to add included.
TimeInv ==
    \A i \in Slots :
        /\ Backed(s_stats[i].time, s_stats[i].calls)
        /\ \A t \in Threads : pc[t] = "time" /\ slot[t] = i =>
              Backed(s_stats[i].time + arg[t].diff, s_stats[i].calls)

\* The table has everything that it had when exit was called.
GrownInv ==
    /\ before \in [Slots -> Records]
    /\ \A i \in Slots : before[i].addr # NULL =>
          s_stats[i].addr = before[i].addr /\ s_stats[i].calls >= before[i].calls

Lines == [addr : Addrs \cup {NULL}, calls : Nat, total : 0..(TimeMod - 1)]

LineOf(line, i) ==
    /\ i \in Slots /\ s_stats[i].addr # NULL
    /\ line.addr = s_stats[i].addr
    /\ before[i].addr # NULL => line.calls >= before[i].calls
    /\ Backed(line.total, line.calls)

\* The n lines of an output are those of the first n records.
Printout(out, n) ==
    /\ out \in Seq(Lines)
    /\ Len(out) = n
    /\ \A k \in 1..n : LineOf(out[k], k - 1)

WalkInv ==
    /\ ri \in Nat /\ opened \in BOOLEAN
    /\ totalTime \in 0..(TimeMod - 1)
    /\ Printout(console, IF rpc = "file" THEN ri + 1 ELSE ri)
    /\ Printout(file, IF opened THEN ri ELSE 0)
    /\ rpc = "running" => ri = 0 /\ ~opened
    /\ rpc \in {"time", "console", "file"} => ri \in Slots /\ s_stats[ri].addr # NULL
    /\ rpc \in {"console", "file"} => Backed(totalTime, s_stats[ri].calls)

\* Where the report stopped there was nothing, or an unknown function, in the
\* table as it was when exit was called.
EndInv ==
    /\ shmStat => segment
    /\ rpc = "done" => ri >= FnCount \/ before[ri].addr = NULL
    /\ rpc = "failed" => ri \in Slots /\ before[ri].addr \notin Known
    /\ rpc \in {"noinfo", "empty", "crashed"} /\ storages.info /\ storages.context =>
          \A i \in Slots : before[i].addr = NULL

ResultsInv == IInv /\ TimeInv /\ GrownInv /\ WalkInv /\ EndInv

-----------------------------------------------------------------------------
(* Backed *)

LEMMA TimesMonotone ==
    ASSUME NEW n \in Nat, NEW k \in Nat, NEW m \in Nat, k >= n
    PROVE  n * m <= k * m
  BY Z3

LEMMA TimesNext ==
    ASSUME NEW n \in Nat, NEW m \in Nat PROVE (n + 1) * m = n * m + m
  BY Z3

LEMMA TimesNat ==
    ASSUME NEW n \in Nat, NEW m \in Nat PROVE n * m \in Nat
  BY Z3

LEMMA BackedMore ==
    ASSUME NEW total \in Nat, NEW less \in Nat, NEW n \in Nat, NEW k \in Nat,
           less <= total, k >= n, Backed(total, n)
    PROVE  Backed(less, k)
  <1> SUFFICES ASSUME NEW m \in 0..(TimeMod - 1), \A d \in Ticks : d <= m
               PROVE  less <= k * m
    BY DEF Backed
  <1>1. m \in Nat /\ total <= n * m
    BY StatsAssumption DEF Backed
  <1>2. n * m <= k * m /\ n * m \in Nat /\ k * m \in Nat
    BY <1>1, TimesMonotone, TimesNat
  <1> QED
    BY <1>1, <1>2

LEMMA BackedAdd ==
    ASSUME NEW total \in Nat, NEW n \in Nat, NEW d \in Ticks, Backed(total, n)
    PROVE  Backed(total + d, n + 1)
  <1> SUFFICES ASSUME NEW m \in 0..(TimeMod - 1), \A e \in Ticks : e <= m
               PROVE  total + d <= (n + 1) * m
    BY DEF Backed
  <1>1. m \in Nat /\ d \in Nat /\ d <= m /\ total <= n * m
    BY StatsAssumption DEF Backed
  <1>2. (n + 1) * m = n * m + m /\ n * m \in Nat
    BY <1>1, TimesNext, TimesNat
  <1> QED
    BY <1>1, <1>2

LEMMA BackedNothing == Backed(0, 0)
  <1>1. \A m \in Nat : 0 <= 0 * m
    BY TimesNat
  <1> QED
    BY <1>1, StatsAssumption DEF Backed

LEMMA BackedOne == ASSUME NEW d \in Ticks PROVE Backed(d, 1)
  <1>1. Backed(0 + d, 0 + 1)
    BY BackedNothing, BackedAdd
  <1>2. 0 + d = d
    BY StatsAssumption
  <1> QED
    BY <1>1, <1>2

-----------------------------------------------------------------------------
(* The table under the report *)

\* A step of the report leaves the table alone, and a step of another thread
\* is one of GlobalStats that leaves the report alone.
Frozen == UNCHANGED <<lock, tableVars, segment, pc, threadVars>>

LEMMA Kinds ==
    ASSUME [ResultsNext]_<<vars, reportVars>>
    PROVE  \/ [StatsNext]_vars /\ UNCHANGED reportVars
           \/ (\E t \in Threads : BeginReport(t)) /\ Frozen
           \/ (NextRecord \/ ReadTime \/ PrintToConsole \/ PrintToFile) /\ Frozen
           \/ EndProcess /\ Frozen /\ UNCHANGED reportVars
  BY SMTT(60) DEF ResultsNext, OtherThread, StatsNext, Report, ProcessOver, Frozen, EndProcess,
         BeginReport, NextRecord, ReadTime, PrintToConsole, PrintToFile, vars, tableVars,
         threadVars, reportVars

LEMMA TableInvStep ==
    ASSUME IInv, [ResultsNext]_<<vars, reportVars>>
    PROVE  IInv'
  <1>1. CASE [StatsNext]_vars
    BY <1>1, IInvStep
  <1>2. CASE UNCHANGED vars
    BY <1>2, IInvStep
  <1>3. CASE EndProcess
    <2>1. alive' \in BOOLEAN
      BY <1>3, Zenon DEF EndProcess
    <2> QED
      BY <1>3, <2>1 DEF EndProcess, IInv, TypeOK, LockInv, MutualExclusion, ThreadInv, TableInv,
         NoHoles, OneRecordPerFunction, tableVars, threadVars
  <1> QED
    BY <1>1, <1>2, <1>3
       DEF ResultsNext, OtherThread, StatsNext, Report, ProcessOver, BeginReport, NextRecord,
           ReadTime, PrintToConsole, PrintToFile

LEMMA TimeStep ==
    ASSUME IInv, TimeInv, [StatsNext]_vars \/ Frozen
    PROVE  TimeInv'
  <1> USE StatsAssumption DEF Goto
  <1>0. /\ s_stats \in [Slots -> Records] /\ pc \in [Threads -> PCs]
        /\ slot \in [Threads -> Nat]
        /\ \A t \in Threads : ThreadInv(t)
        /\ MutualExclusion
    BY DEF IInv, TypeOK
  <1>1. ASSUME s_stats' = s_stats,
               \A t \in Threads : pc'[t] = "time" =>
                   pc[t] = "time" /\ slot'[t] = slot[t] /\ arg'[t] = arg[t]
        PROVE  TimeInv'
    BY <1>1 DEF TimeInv, Backed
  <1>2. ASSUME NEW t \in Threads, CountCall(t) PROVE TimeInv'
    <2> SUFFICES ASSUME NEW i \in Slots
                 PROVE  /\ Backed(s_stats'[i].time, s_stats'[i].calls)
                        /\ \A u \in Threads : pc'[u] = "time" /\ slot'[u] = i =>
                              Backed(s_stats'[i].time + arg'[u].diff, s_stats'[i].calls)
      BY DEF TimeInv, Backed
    <2>1. /\ pc[t] = "count" /\ pc' = [pc EXCEPT ![t] = "time"]
          /\ s_stats' = [s_stats EXCEPT ![slot[t]].calls = @ + 1]
          /\ slot' = slot /\ arg' = arg /\ slot[t] \in Slots /\ arg[t].diff \in Ticks
      BY <1>0, <1>2 DEF CountCall, threadVars, ThreadInv
    <2>2. \A u \in Threads : pc'[u] = "time" => u = t
      BY <1>0, <2>1 DEF MutualExclusion, InSection
    <2>3. s_stats[i].time \in Nat /\ s_stats[i].calls \in Nat
          /\ Backed(s_stats[i].time, s_stats[i].calls)
      BY <1>0 DEF Records, TimeInv
    <2>4. CASE i # slot[t]
      <3>1. s_stats'[i] = s_stats[i]
        BY <2>1, <2>4, <1>0
      <3> QED
        BY <3>1, <2>1, <2>2, <2>3, <2>4
    <2>5. CASE i = slot[t]
      <3>1. s_stats'[i].time = s_stats[i].time /\ s_stats'[i].calls = s_stats[i].calls + 1
        BY <2>1, <2>5, <1>0 DEF Records
      <3>2. Backed(s_stats[i].time + arg[t].diff, s_stats[i].calls + 1)
        BY <2>1, <2>3, BackedAdd
      <3>3. Backed(s_stats[i].time, s_stats[i].calls + 1)
        BY <2>3, BackedMore
      <3> QED
        BY <2>1, <2>2, <3>1, <3>2, <3>3
    <2> QED
      BY <2>4, <2>5
  <1>3. ASSUME NEW t \in Threads, AddTime(t) PROVE TimeInv'
    <2> SUFFICES ASSUME NEW i \in Slots
                 PROVE  /\ Backed(s_stats'[i].time, s_stats'[i].calls)
                        /\ \A u \in Threads : pc'[u] = "time" /\ slot'[u] = i =>
                              Backed(s_stats'[i].time + arg'[u].diff, s_stats'[i].calls)
      BY DEF TimeInv, Backed
    <2>1. /\ pc[t] = "time" /\ pc' = [pc EXCEPT ![t] = "unlock"]
          /\ s_stats' = [s_stats EXCEPT ![slot[t]].time = (@ + arg[t].diff) % TimeMod]
          /\ slot[t] \in Slots /\ arg[t].diff \in Ticks
      BY <1>0, <1>3 DEF AddTime, threadVars, ThreadInv
    <2>2. \A u \in Threads : pc'[u] # "time"
      BY <1>0, <2>1 DEF MutualExclusion, InSection
    <2>3. CASE i # slot[t]
      <3>1. s_stats'[i] = s_stats[i]
        BY <2>1, <2>3, <1>0
      <3> QED
        BY <3>1, <2>2 DEF TimeInv
    <2>4. CASE i = slot[t]
      <3> DEFINE sum == s_stats[i].time + arg[t].diff
      <3>1. s_stats[i].time \in Nat /\ s_stats[i].calls \in Nat /\ arg[t].diff \in Nat
        BY <1>0, <2>1 DEF Records
      <3>2. sum \in Nat
        BY <3>1
      <3>3. Backed(sum, s_stats[i].calls)
        BY <2>1, <2>4 DEF TimeInv
      <3>4. s_stats'[i].time = sum % TimeMod /\ s_stats'[i].calls = s_stats[i].calls
        BY <2>1, <2>4, <1>0 DEF Records
      <3> HIDE DEF sum
      <3>5. sum % TimeMod \in Nat /\ sum % TimeMod <= sum
        BY <3>2
      <3>6. Backed(sum % TimeMod, s_stats[i].calls)
        BY <3>1, <3>2, <3>3, <3>5, BackedMore
      <3> QED
        BY <2>2, <3>4, <3>6
    <2> QED
      BY <2>3, <2>4
  <1>4. ASSUME NEW t \in Threads, StoreStat(t) PROVE TimeInv'
    <2> SUFFICES ASSUME NEW i \in Slots
                 PROVE  /\ Backed(s_stats'[i].time, s_stats'[i].calls)
                        /\ \A u \in Threads : pc'[u] = "time" /\ slot'[u] = i =>
                              Backed(s_stats'[i].time + arg'[u].diff, s_stats'[i].calls)
      BY DEF TimeInv, Backed
    <2>1. /\ pc[t] = "store" /\ pc' = [pc EXCEPT ![t] = "unlock"]
          /\ s_stats' = [s_stats EXCEPT ![slot[t]] =
                            [addr |-> arg[t].addr, calls |-> 1, time |-> arg[t].diff]]
          /\ slot[t] \in Slots /\ arg[t].diff \in Ticks
      BY <1>0, <1>4 DEF StoreStat, ThreadInv
    <2>2. \A u \in Threads : pc'[u] # "time"
      BY <1>0, <2>1 DEF MutualExclusion, InSection
    <2>3. CASE i # slot[t]
      <3>1. s_stats'[i] = s_stats[i]
        BY <2>1, <2>3, <1>0
      <3> QED
        BY <3>1, <2>2 DEF TimeInv
    <2>4. CASE i = slot[t]
      BY <2>1, <2>2, <2>4, <1>0, BackedOne, ZenonT(60)
    <2> QED
      BY <2>3, <2>4
  <1>5. ASSUME NEW t \in Threads, InitSharedMemory(t) PROVE TimeInv'
    <2> SUFFICES ASSUME NEW i \in Slots
                 PROVE  /\ Backed(s_stats'[i].time, s_stats'[i].calls)
                        /\ \A u \in Threads : pc'[u] = "time" /\ slot'[u] = i =>
                              Backed(s_stats'[i].time + arg'[u].diff, s_stats'[i].calls)
      BY DEF TimeInv, Backed
    <2>1. /\ pc[t] = "init" /\ pc' = [pc EXCEPT ![t] = "limit"]
          /\ s_stats' = [j \in Slots |-> Empty]
      BY <1>5 DEF InitSharedMemory
    <2>2. \A u \in Threads : pc'[u] # "time"
      BY <1>0, <2>1 DEF MutualExclusion, InSection
    <2>3. s_stats'[i].time = 0 /\ s_stats'[i].calls = 0
      BY <2>1 DEF Empty
    <2> QED
      BY <2>2, <2>3, BackedNothing
  <1>6. CASE Frozen
    BY <1>1, <1>6 DEF Frozen, tableVars, threadVars
  <1>7. CASE UNCHANGED vars
    BY <1>1, <1>7 DEF vars
  <1>8. ASSUME NEW t \in Threads, NEW a \in Addrs, NEW d \in Ticks, Call(t, a, d)
        PROVE  TimeInv'
    BY <1>0, <1>1, <1>8, SMTT(60) DEF Call, tableVars, IInv, TypeOK
  <1>9. ASSUME NEW t \in Threads, LookupHit(t) PROVE TimeInv'
    BY <1>0, <1>1, <1>9 DEF LookupHit, tableVars
  <1>10. ASSUME NEW t \in Threads, ClaimSlot(t) PROVE TimeInv'
    BY <1>0, <1>1, <1>10 DEF ClaimSlot
  <1>11. ASSUME NEW t \in Threads,
                Spin(t) \/ LookupMiss(t) \/ Unlock(t) \/ InitSharedMemoryCrash(t) \/
                CheckLimit(t) \/ ProcessExit(t)
         PROVE  TimeInv'
    BY <1>0, <1>1, <1>11, SMTT(60)
       DEF Spin, LookupMiss, Unlock, InitSharedMemoryCrash, CheckLimit, ProcessExit, tableVars,
           threadVars
  <1> QED
    BY <1>2, <1>3, <1>4, <1>5, <1>6, <1>7, <1>8, <1>9, <1>10, <1>11, SMTT(60)
       DEF StatsNext, Update, KeepSpinning, Finished

\* A record that exists stays, with its function and at least its calls.
LEMMA Stays ==
    ASSUME IInv, [StatsNext]_vars \/ Frozen
    PROVE  /\ s_stats \in [Slots -> Records]
           /\ \A i \in Slots : s_stats[i].addr # NULL =>
                 s_stats'[i].addr = s_stats[i].addr /\ s_stats'[i].calls >= s_stats[i].calls
  <1>1. s_stats \in [Slots -> Records]
    BY DEF IInv, TypeOK
  <1>2. CASE [StatsNext]_vars
    BY <1>1, <1>2, GrowStep
  <1>3. CASE Frozen
    BY <1>1, <1>3 DEF Frozen, tableVars, Records
  <1> QED
    BY <1>1, <1>2, <1>3

\* What has been printed stays right while other threads run.
LEMMA PrintoutStays ==
    ASSUME IInv, [StatsNext]_vars \/ Frozen, before' = before,
           NEW out, NEW n \in Nat, Printout(out, n)
    PROVE  \A k \in 1..n :
               /\ k - 1 \in Slots /\ s_stats'[k - 1].addr # NULL
               /\ out[k].addr = s_stats'[k - 1].addr
               /\ before'[k - 1].addr # NULL => out[k].calls >= before'[k - 1].calls
               /\ Backed(out[k].total, out[k].calls)
  BY Stays, SMTT(60) DEF Printout, LineOf

LEMMA GrownStep ==
    ASSUME IInv, IInv', GrownInv, [ResultsNext]_<<vars, reportVars>>
    PROVE  GrownInv'
  <1>1. s_stats' \in [Slots -> Records]
    BY DEF IInv, TypeOK
  <1>2. CASE before' = before /\ ([StatsNext]_vars \/ Frozen)
    <2>1. \A i \in Slots : s_stats[i].addr # NULL =>
              s_stats'[i].addr = s_stats[i].addr /\ s_stats'[i].calls >= s_stats[i].calls
      BY <1>2, Stays
    <2>2. \A i \in Slots : s_stats[i].calls \in Nat /\ s_stats'[i].calls \in Nat
                            /\ before[i].calls \in Nat
      BY <1>1, <1>2, Stays DEF GrownInv, Records
    <2> QED
      BY <1>2, <2>1, <2>2 DEF GrownInv
  <1>3. CASE before' = s_stats /\ Frozen
    BY <1>1, <1>3 DEF GrownInv, Frozen, tableVars, Records
  <1> QED
    BY <1>2, <1>3, Kinds, SMTT(60) DEF BeginReport, NextRecord, ReadTime, PrintToConsole, PrintToFile,
       reportVars

\* One more line.
LEMMA PrintoutGrows ==
    ASSUME NEW out, NEW n \in Nat, Printout(out, n), NEW line \in Lines, LineOf(line, n)
    PROVE  Printout(Append(out, line), n + 1)
  <1>1. out \in Seq(Lines) /\ Len(out) = n
    BY DEF Printout
  <1>2. /\ Append(out, line) \in Seq(Lines) /\ Len(Append(out, line)) = n + 1
        /\ \A k \in 1..n : Append(out, line)[k] = out[k]
        /\ Append(out, line)[n + 1] = line
    BY <1>1
  <1>3. \A k \in 1..(n + 1) : LineOf(Append(out, line)[k], k - 1)
    <2> SUFFICES ASSUME NEW k \in 1..(n + 1) PROVE LineOf(Append(out, line)[k], k - 1)
      BY ZenonT(60)
    <2>1. CASE k = n + 1
      <3>1. k - 1 = n /\ Append(out, line)[k] = line
        BY <1>2, <2>1
      <3> QED
        BY <3>1
    <2>2. CASE k \in 1..n
      <3>1. Append(out, line)[k] = out[k] /\ LineOf(out[k], k - 1)
        BY <1>2, <2>2 DEF Printout
      <3> QED
        BY <3>1
    <2>3. k = n + 1 \/ k \in 1..n
      OBVIOUS
    <2> QED
      BY <2>1, <2>2, <2>3, ZenonT(60)
  <1> QED
    BY <1>2, <1>3 DEF Printout

LEMMA LineStays ==
    ASSUME s_stats' = s_stats, before' = before
    PROVE  \A line, i : LineOf(line, i) => LineOf(line, i)'
  BY DEF LineOf, Backed

LEMMA WalkStep ==
    ASSUME IInv, IInv', TimeInv, GrownInv, WalkInv, [ResultsNext]_<<vars, reportVars>>
    PROVE  WalkInv'
  <1> DEFINE n == IF rpc = "file" THEN ri + 1 ELSE ri
             f == IF opened THEN ri ELSE 0
  <1>0. /\ n \in Nat /\ f \in Nat /\ ri \in Nat
        /\ Printout(console, n) /\ Printout(file, f)
        /\ s_stats \in [Slots -> Records] /\ s_stats' \in [Slots -> Records]
    BY SMTT(60) DEF WalkInv, IInv, TypeOK
  <1>1. CASE ([StatsNext]_vars \/ Frozen) /\ UNCHANGED reportVars
    <2>1. UNCHANGED <<rpc, opened, ri, totalTime, console, file, before>>
      BY <1>1 DEF reportVars
    <2>2. Printout(console, n)' /\ Printout(file, f)'
      <3>1. n' = n /\ f' = f /\ before' = before
        BY <2>1
      <3>2. \A k \in 1..n : LineOf(console[k], k - 1)'
        BY <1>0, <1>1, <2>1, <3>1, PrintoutStays, SMTT(60) DEF LineOf, Backed
      <3>3. \A k \in 1..f : LineOf(file[k], k - 1)'
        BY <1>0, <1>1, <2>1, <3>1, PrintoutStays, SMTT(60) DEF LineOf, Backed
      <3> QED
        BY <1>0, <2>1, <3>1, <3>2, <3>3 DEF Printout
    <2>3. rpc \in {"time", "console", "file"} => ri \in Slots /\ s_stats'[ri].addr # NULL
      BY <1>1, Stays DEF WalkInv
    <2>4. rpc \in {"console", "file"} => Backed(totalTime, s_stats'[ri].calls)
      <3> SUFFICES ASSUME rpc \in {"console", "file"} PROVE Backed(totalTime, s_stats'[ri].calls)
        OBVIOUS
      <3>1. ri \in Slots /\ Backed(totalTime, s_stats[ri].calls) /\ totalTime \in Nat
        BY StatsAssumption DEF WalkInv
      <3>2. s_stats'[ri].calls >= s_stats[ri].calls
        BY <1>1, <3>1, Stays DEF WalkInv
      <3>3. s_stats[ri].calls \in Nat /\ s_stats'[ri].calls \in Nat
        BY <1>0, <3>1 DEF Records
      <3> QED
        BY <3>1, <3>2, <3>3, BackedMore, SMTT(60)
    <2> QED
      BY <2>1, <2>2, <2>3, <2>4, SMTT(60) DEF WalkInv, Backed
  <1>2. ASSUME NEW t \in Threads, BeginReport(t), Frozen PROVE WalkInv'
    <2>1. /\ rpc = "running" /\ rpc' \in {"crashed", "noinfo", "empty", "loop"}
          /\ UNCHANGED <<ri, totalTime, console, file>>
      BY <1>2 DEF BeginReport, IInv, TypeOK
    <2>2. ri = 0 /\ n = 0 /\ f = 0
      BY <2>1 DEF WalkInv
    <2>3. Printout(console, n)' /\ Printout(file, f)'
      BY <1>0, <2>1, <2>2, SMTT(60) DEF Printout
    <2>4. opened' \in BOOLEAN
      BY <1>2 DEF BeginReport
    <2> QED
      BY <2>1, <2>2, <2>3, <2>4, SMTT(60) DEF WalkInv
  <1>3. ASSUME NextRecord, Frozen PROVE WalkInv'
    <2>1. /\ rpc = "loop" /\ rpc' \in {"time", "failed", "done"}
          /\ rpc' = "time" => ri < FnCount /\ s_stats[ri].addr # NULL
          /\ UNCHANGED <<opened, ri, totalTime, console, file, before, s_stats>>
      BY <1>3 DEF NextRecord, InRange, Frozen, tableVars
    <2>2. Printout(console, n)' /\ Printout(file, f)'
      BY <1>0, <2>1, LineStays DEF Printout
    <2> QED
      BY <2>1, <2>2, StatsAssumption, SMTT(60) DEF WalkInv, Slots
  <1>4. ASSUME ReadTime, Frozen PROVE WalkInv'
    <2>1. /\ rpc = "time" /\ rpc' = "console" /\ totalTime' = s_stats[ri].time
          /\ UNCHANGED <<opened, ri, console, file, before, s_stats>>
      BY <1>4 DEF ReadTime, Frozen, tableVars
    <2>2. Printout(console, n)' /\ Printout(file, f)'
      BY <1>0, <2>1, LineStays DEF Printout
    <2>3. ri \in Slots /\ s_stats[ri].addr # NULL /\ Backed(s_stats[ri].time, s_stats[ri].calls)
      BY <2>1, SMTT(60) DEF WalkInv, TimeInv
    <2>4. totalTime' \in 0..(TimeMod - 1)
      BY <1>0, <2>1, <2>3 DEF Records
    <2> QED
      BY <2>1, <2>2, <2>3, <2>4, SMTT(60) DEF WalkInv, Backed
  <1>5. ASSUME PrintToConsole \/ PrintToFile
        PROVE  /\ Line(s_stats[ri].calls) \in Lines
               /\ LineOf(Line(s_stats[ri].calls), ri)
    <2>1. rpc \in {"console", "file"}
      BY <1>5 DEF PrintToConsole, PrintToFile
    <2>2. /\ ri \in Slots /\ s_stats[ri].addr # NULL /\ totalTime \in 0..(TimeMod - 1)
          /\ Backed(totalTime, s_stats[ri].calls)
      BY <2>1 DEF WalkInv
    <2>3. s_stats[ri].addr \in Addrs \cup {NULL} /\ s_stats[ri].calls \in Nat
      BY <1>0, <2>2 DEF Records
    <2> QED
      BY <2>2, <2>3, SMTT(60) DEF Line, Lines, LineOf, GrownInv
  <1>6. ASSUME PrintToConsole, Frozen PROVE WalkInv'
    <2>1. /\ rpc = "console" /\ rpc' = "file"
          /\ console' = Append(console, Line(s_stats[ri].calls))
          /\ UNCHANGED <<opened, ri, totalTime, file, before, s_stats>>
      BY <1>6 DEF PrintToConsole, Frozen, tableVars
    <2>2. Printout(Append(console, Line(s_stats[ri].calls)), ri + 1)
      BY <1>0, <1>5, <1>6, <2>1, PrintoutGrows
    <2>3. Printout(console, n)' /\ Printout(file, f)'
      BY <1>0, <2>1, <2>2, LineStays DEF Printout
    <2> QED
      BY <2>1, <2>3, SMTT(60) DEF WalkInv, Backed
  <1>7. ASSUME PrintToFile, Frozen PROVE WalkInv'
    <2>1. /\ rpc = "file" /\ rpc' = "loop" /\ ri' = ri + 1
          /\ file' = IF opened THEN Append(file, Line(s_stats[ri].calls)) ELSE file
          /\ UNCHANGED <<opened, totalTime, console, before, s_stats>>
      BY <1>7 DEF PrintToFile, Frozen, tableVars
    <2>2. opened => Printout(Append(file, Line(s_stats[ri].calls)), ri + 1)
      BY <1>0, <1>5, <1>7, PrintoutGrows
    <2>3. Printout(console, n)' /\ Printout(file, f)'
      BY <1>0, <2>1, <2>2, LineStays DEF Printout
    <2> QED
      BY <1>0, <2>1, <2>3, SMTT(60) DEF WalkInv
  <1> QED
    BY <1>1, <1>2, <1>3, <1>4, <1>6, <1>7, Kinds

LEMMA EndStep ==
    ASSUME IInv, GrownInv, WalkInv, EndInv, [ResultsNext]_<<vars, reportVars>>
    PROVE  EndInv'
  <1> USE StatsAssumption, ResultsAssumption
  <1>1. shmStat' => segment'
    <2>1. ASSUME NEW t \in Threads, InitSharedMemory(t) PROVE segment'
      BY <2>1 DEF InitSharedMemory
    <2>2. UNCHANGED <<shmStat, segment>> \/ \E t \in Threads : InitSharedMemory(t)
      BY Kinds, ZenonT(60) DEF Frozen, StatsNext, Update, Finished, KeepSpinning, vars, tableVars, Call, Spin,
         LookupHit, LookupMiss, CountCall, AddTime, StoreStat, Unlock, InitSharedMemoryCrash,
         CheckLimit, ClaimSlot, ProcessExit
    <2> QED
      BY <2>1, <2>2, ZenonT(60) DEF EndInv
  <1>2. CASE UNCHANGED reportVars
    BY <1>1, <1>2 DEF EndInv, reportVars
  <1>3. ASSUME NEW t \in Threads, BeginReport(t), Frozen PROVE EndInv'
    <2>1. ~shmStat => \A i \in Slots : s_stats[i].addr = NULL
      BY SMTT(60) DEF IInv, TypeOK, TableInv, NoHoles, Slots
    <2>2. /\ before' = s_stats /\ storages' = storages
          /\ \/ rpc' = "crashed" /\ (~segment \/ ~storages.context)
             \/ rpc' = "noinfo" /\ ~storages.info
             \/ rpc' = "empty" /\ ~shmStat
             \/ rpc' = "loop"
      BY <1>3 DEF BeginReport, IInv, TypeOK
    <2> QED
      BY <1>1, <2>1, <2>2, SMTT(60) DEF EndInv
  <1>4. ASSUME NextRecord, Frozen PROVE EndInv'
    <2>1. /\ UNCHANGED <<storages, ri, before, s_stats>>
          /\ \/ rpc' = "time"
             \/ rpc' = "failed" /\ InRange /\ s_stats[ri].addr # NULL /\ s_stats[ri].addr \notin Known
             \/ rpc' = "done" /\ ~(InRange /\ s_stats[ri].addr # NULL)
      BY <1>4 DEF NextRecord, Frozen, tableVars
    <2>2. ri \in Nat /\ (InRange => ri \in Slots)
      BY DEF WalkInv, InRange, Slots
    <2>3. rpc' = "failed" => ri \in Slots /\ before[ri].addr \notin Known
      BY <2>1, <2>2 DEF GrownInv
    <2>4. rpc' = "done" => ri >= FnCount \/ before[ri].addr = NULL
      BY <2>1, <2>2, SMTT(60) DEF GrownInv, InRange
    <2> QED
      BY <1>1, <2>1, <2>3, <2>4, SMTT(60) DEF EndInv
  <1>5. ASSUME ReadTime \/ PrintToConsole \/ PrintToFile PROVE EndInv'
    BY <1>1, <1>5, SMTT(60) DEF EndInv, ReadTime, PrintToConsole, PrintToFile
  <1> QED
    BY <1>2, <1>3, <1>4, <1>5, Kinds

LEMMA ResultsInitially == ResultsInit => ResultsInv
  <1> SUFFICES ASSUME ResultsInit PROVE ResultsInv
    OBVIOUS
  <1> USE StatsAssumption
  <1>1. IInv
    BY InitIInv DEF ResultsInit
  <1>2. /\ s_stats = [i \in Slots |-> Empty] /\ before = s_stats
        /\ pc = [t \in Threads |-> "idle"] /\ shmStat = FALSE
        /\ rpc = "running" /\ opened = FALSE /\ ri = 0 /\ totalTime = 0
        /\ console = <<>> /\ file = <<>>
    BY DEF ResultsInit, StatsInit
  <1>3. TimeInv
    BY <1>2, BackedNothing, SMTT(60) DEF TimeInv, Empty
  <1>4. GrownInv
    BY <1>1, <1>2 DEF GrownInv, IInv, TypeOK, Empty
  <1>5. WalkInv
    <2>1. Printout(<<>>, 0)
      BY DEF Printout
    <2>2. opened \in BOOLEAN
      BY <1>2, Zenon
    <2> QED
      BY <1>2, <2>1, <2>2 DEF WalkInv
  <1>6. EndInv
    BY <1>2 DEF EndInv
  <1> QED
    BY <1>1, <1>3, <1>4, <1>5, <1>6 DEF ResultsInv

LEMMA ResultsInvariant == ResultsSpec => []ResultsInv
  <1>1. ResultsInv /\ [ResultsNext]_<<vars, reportVars>> => ResultsInv'
    <2> SUFFICES ASSUME ResultsInv, [ResultsNext]_<<vars, reportVars>> PROVE ResultsInv'
      OBVIOUS
    <2>1. IInv'
      BY TableInvStep DEF ResultsInv
    <2>2. TimeInv'
      BY Kinds, TimeStep DEF ResultsInv
    <2> QED
      BY <2>1, <2>2, GrownStep, WalkStep, EndStep DEF ResultsInv
  <1> QED
    BY <1>1, ResultsInitially, PTL DEF ResultsSpec

-----------------------------------------------------------------------------
(* The theorems *)

\* The two outputs, as the invariant describes them.
LEMMA OutputIs ==
    ASSUME ResultsInv, NEW out \in Outputs
    PROVE  \E n \in Nat : n >= ri /\ Printout(out, n)
  BY DEF ResultsInv, WalkInv, Outputs

\* The report has all the calls that the table had when exit was called,
\* although threads change the table while it is walked without the lock.
THEOREM CallsReported == ResultsSpec => []CompletedCallsReported
  <1>1. ResultsInv => CompletedCallsReported
    <2> SUFFICES ASSUME ResultsInv, rpc \in Ended, storages.info, storages.context,
                        NEW i \in Slots, before[i].addr # NULL,
                        \A j \in 0..i : before[j].addr \in Known,
                        NEW out \in Outputs
                 PROVE  \E k \in 1..Len(out) :
                            out[k].addr = before[i].addr /\ out[k].calls >= before[i].calls
      BY SMTT(60) DEF CompletedCallsReported
    <2> USE StatsAssumption, ResultsAssumption
    <2>1. rpc \in {"done", "failed"}
      BY DEF ResultsInv, EndInv, Ended
    <2>2. i < ri
      <3>1. ri \in Nat /\ i \in Nat /\ i < FnCount
        BY SMTT(60) DEF ResultsInv, WalkInv, Slots
      <3>2. ASSUME ri <= i PROVE FALSE
        <4>1. ri \in 0..i /\ ri < FnCount
          BY <3>1, <3>2
        <4>2. before[ri].addr \in Known /\ before[ri].addr # NULL
          BY <4>1
        <4> QED
          BY <2>1, <4>1, <4>2, SMTT(60) DEF ResultsInv, EndInv
      <3> QED
        BY <3>1, <3>2
    <2>3. PICK n \in Nat : n >= ri /\ Printout(out, n)
      BY OutputIs
    <2>4. i + 1 \in 1..n /\ (i + 1) - 1 = i
      BY <2>2, <2>3, SMTT(60) DEF Slots, ResultsInv, WalkInv
    <2>5. LineOf(out[i + 1], i) /\ i + 1 \in 1..Len(out)
      BY <2>3, <2>4 DEF Printout
    <2> QED
      BY <2>5, SMTT(60) DEF LineOf, ResultsInv, GrownInv
  <1> QED
    BY <1>1, ResultsInvariant, PTL

\* No function is printed twice.
THEOREM PrintedOnce == ResultsSpec => []ReportedOnce
  <1>1. ResultsInv => ReportedOnce
    <2> SUFFICES ASSUME ResultsInv, NEW out \in Outputs,
                        NEW k \in 1..Len(out), NEW l \in 1..Len(out),
                        out[k].addr = out[l].addr
                 PROVE  k = l
      BY DEF ReportedOnce
    <2>1. PICK n \in Nat : Printout(out, n)
      BY OutputIs
    <2>2. LineOf(out[k], k - 1) /\ LineOf(out[l], l - 1)
      BY <2>1 DEF Printout
    <2>3. k - 1 = l - 1
      BY <2>2, ZenonT(60) DEF LineOf, ResultsInv, IInv, OneRecordPerFunction
    <2> QED
      BY <2>1, <2>3 DEF Printout
  <1> QED
    BY <1>1, ResultsInvariant, PTL

\* No printed total holds ticks of a call that its line does not count.
THEOREM PrintedTimeBacked == ResultsSpec => []TimeBackedByCalls
  <1>1. ResultsInv => TimeBackedByCalls
    <2> SUFFICES ASSUME ResultsInv, NEW out \in Outputs, NEW k \in 1..Len(out)
                 PROVE  Backed(out[k].total, out[k].calls)
      BY DEF TimeBackedByCalls, Backed
    <2>1. PICK n \in Nat : Printout(out, n)
      BY OutputIs
    <2> QED
      BY <2>1, SMTT(60) DEF Printout, LineOf
  <1> QED
    BY <1>1, ResultsInvariant, PTL
=============================================================================
