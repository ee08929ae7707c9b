------------------------------ MODULE Results ------------------------------
(***************************************************************************)
(* printElfperfResults, which _dl_fini runs when a thread has called exit: *)
(* it walks the statistics table of GlobalStats without the spinlock while *)
(* the other threads go on updating it.  The caller of exit may also be a  *)
(* thread inside addNewStat that met STATS_LIMIT and holds the lock.       *)
(***************************************************************************)
EXTENDS GlobalStats, Sequences

CONSTANTS
    Known,          \* addresses that have a FunctionInfo
    PrintMod        \* 2^32: what %u of _dl_dprintf takes from the arguments

ASSUME ResultsAssumption ==
    /\ Known \subseteq Addrs
    /\ PrintMod \in Nat \ {0}

VARIABLES
    storages,       \* which of the other two segments can be had
    rpc,            \* "running" before exit; then where the report is, or how it ended
    exiter,         \* the thread that called exit
    opened,         \* the result file could be opened
    ri, totalTime,  \* locals of printElfperfResults
    console, file,  \* lines written, as they are passed to _dl_dprintf
    before          \* the table when exit was called

reportVars == <<storages, rpc, exiter, opened, ri, totalTime, console, file, before>>

Ended == {"noinfo", "empty", "failed", "done", "crashed"}

ResultsInit ==
    /\ StatsInit
    /\ storages \in [info : BOOLEAN, context : BOOLEAN]
    /\ rpc = "running"
    /\ exiter = NULL
    /\ opened = FALSE
    /\ ri = 0
    /\ totalTime = 0
    /\ console = <<>>
    /\ file = <<>>
    /\ before = s_stats

\* The accessors, up to the loop: *(getFunctionStatisticsStorage()) and
\* elfperfContext->context are dereferenced without a test.  A file that
\* cannot be opened is only logged.
BeginReport(t) ==
    /\ alive
    /\ rpc = "running"
    /\ pc[t] \in {"idle", "exiting"}
    /\ exiter' = t
    /\ opened' \in BOOLEAN
    /\ before' = s_stats
    /\ rpc' = CASE ~segment -> "crashed"
                [] segment /\ ~storages.info -> "noinfo"
                [] segment /\ storages.info /\ ~shmStat -> "empty"
                [] segment /\ storages.info /\ shmStat ->
                       IF storages.context THEN "loop" ELSE "crashed"
    /\ UNCHANGED <<vars, storages, ri, totalTime, console, file>>

InRange == ri < FnCount

\* Faulty: the report waits for the spinlock.
NextRecordLocked ==
    /\ alive
    /\ rpc = "loop"
    /\ rpc' = IF lock # 0 THEN "loop"
              ELSE IF InRange /\ s_stats[ri].addr # NULL
              THEN IF s_stats[ri].addr \in Known THEN "time" ELSE "failed"
              ELSE "done"
    /\ UNCHANGED <<vars, storages, exiter, opened, ri, totalTime, console, file, before>>

\* The loop test and getInfoByAddr; an unknown address ends the report.
NextRecord ==
    /\ alive
    /\ rpc = "loop"
    /\ rpc' = IF InRange /\ s_stats[ri].addr # NULL
              THEN IF s_stats[ri].addr \in Known THEN "time" ELSE "failed"
              ELSE "done"
    /\ UNCHANGED <<vars, storages, exiter, opened, ri, totalTime, console, file, before>>

ReadTime ==
    /\ alive
    /\ rpc = "time"
    /\ totalTime' = s_stats[ri].time
    /\ rpc' = "console"
    /\ UNCHANGED <<vars, storages, exiter, opened, ri, console, file, before>>

Line(n) == [addr |-> s_stats[ri].addr, calls |-> n, total |-> totalTime]

\* Faulty: the number of calls was read before the time.
PrintToConsoleStale ==
    /\ alive
    /\ rpc = "console"
    /\ console' = Append(console, Line(before[ri].calls))
    /\ rpc' = "file"
    /\ UNCHANGED <<vars, storages, exiter, opened, ri, totalTime, file, before>>

\* The line on the console and the line in the file each load the number of
\* calls.
PrintToConsole ==
    /\ alive
    /\ rpc = "console"
    /\ console' = Append(console, Line(s_stats[ri].calls))
    /\ rpc' = "file"
    /\ UNCHANGED <<vars, storages, exiter, opened, ri, totalTime, file, before>>

\* Faulty: the loop index does not advance.
PrintToFileAgain ==
    /\ alive
    /\ rpc = "file"
    /\ file' = Append(file, Line(s_stats[ri].calls))
    /\ rpc' = "loop"
    /\ UNCHANGED <<vars, storages, exiter, opened, ri, totalTime, console, before>>

\* Faulty: the index advances twice.
PrintToFileSkips ==
    /\ alive
    /\ rpc = "file"
    /\ file' = Append(file, Line(s_stats[ri].calls))
    /\ ri' = ri + 2
    /\ rpc' = "loop"
    /\ UNCHANGED <<vars, storages, exiter, opened, totalTime, console, before>>

\* pFile is tested against NULL, not -1: without a file the write goes to a
\* descriptor that does not exist.
PrintToFile ==
    /\ alive
    /\ rpc = "file"
    /\ file' = IF opened THEN Append(file, Line(s_stats[ri].calls)) ELSE file
    /\ ri' = ri + 1
    /\ rpc' = "loop"
    /\ UNCHANGED <<vars, storages, exiter, opened, totalTime, console, before>>

\* What _dl_dprintf makes of a 64-bit argument for %u.
Printed(n) == n % PrintMod

\* The rest of _dl_fini and _exit, or the signal of a crash.
EndProcess ==
    /\ alive
    /\ rpc \in Ended
    /\ alive' = FALSE
    /\ UNCHANGED <<lock, tableVars, segment, pc, threadVars, reportVars>>

Report == NextRecord \/ ReadTime \/ PrintToConsole \/ PrintToFile \/ EndProcess

\* updateStat goes on in every thread but the one that runs the report;
\* exit(1) is BeginReport here and not the end of the process.
OtherThread(t) ==
    /\ t # exiter
    /\ pc[t] # "exiting"
    /\ \/ \E a \in Addrs, d \in Ticks : Call(t, a, d)
       \/ Update(t)
    /\ UNCHANGED reportVars

ProcessOver == ~alive /\ UNCHANGED <<vars, reportVars>>

ResultsNext ==
    \/ \E t \in Threads : BeginReport(t) \/ OtherThread(t)
    \/ Report
    \/ ProcessOver

ResultsSpec == ResultsInit /\ [][ResultsNext]_<<vars, reportVars>>

\* The thread that runs the report is scheduled.
FairResultsSpec == ResultsSpec /\ WF_<<vars, reportVars>>(Report)

-----------------------------------------------------------------------------
(* Properties *)

\* Where a reader finds the results: the console, and the file if it is there.
Outputs == {console} \cup {f \in {file} : opened}

\* "Output of profiling results on console and to file if it can be opened":
\* when the report is over, all calls that were in the table as exit was
\* called have been printed, for every function up to the first one without a
\* FunctionInfo.  The table changes under the loop, and the pointers that the
\* report dereferences untested are there once a call has been recorded.
CompletedCallsReported ==
    rpc \in Ended /\ storages.info /\ storages.context =>
        \A i \in Slots :
            before[i].addr # NULL /\ (\A j \in 0..i : before[j].addr \in Known) =>
                \A out \in Outputs : \E k \in 1..Len(out) :
                    out[k].addr = before[i].addr /\ out[k].calls >= before[i].calls

\* The unlocked walk prints no function twice.
ReportedOnce ==
    \A out \in Outputs : \A k, l \in 1..Len(out) : out[k].addr = out[l].addr => k = l

\* updateStat counts a call before it adds its ticks, and the report reads
\* the ticks before the count: a printed total is never more than the printed
\* calls can have taken, if each took at most m.
TimeBackedByCalls ==
    \A out \in Outputs : \A k \in 1..Len(out) : \A m \in 0..(TimeMod - 1) :
        (\A d \in Ticks : d <= m) => out[k].total <= out[k].calls * m

\* exit ends the process although printElfperfResults may run in a thread
\* that holds the spinlock and with other threads spinning for it.
ReportEnds == exiter # NULL ~> ~alive

\* dl-fini.c prints totalDiffTime, a 64-bit number, whole.
TicksPrinted == \A k \in 1..Len(console) : Printed(console[k].total) = console[k].total
=============================================================================
