---------------------------- MODULE AtomicStats ----------------------------
(***************************************************************************)
(* What updateStat promises: the statistics of the profiled functions are  *)
(* a map from function address to call count and total ticks, and a call   *)
(* of updateStat adds itself to that map in one indivisible step that      *)
(* falls between its start and its return.                                 *)
(***************************************************************************)
EXTENDS Naturals

CONSTANTS
    Threads,    \* the threads of the profiled process
    Addrs,      \* addresses of profiled functions
    Ticks,      \* durations a call may have
    TimeMod     \* 2^64: totalDiffTime is a uint64_t

VARIABLES
    total,      \* address -> calls and ticks recorded so far
    call        \* thread -> the updateStat call it is inside of, if any

NoCall == [state |-> "none"]

absVars == <<total, call>>

AInit ==
    /\ total = [a \in Addrs |-> [calls |-> 0, time |-> 0]]
    /\ call = [t \in Threads |-> NoCall]

ABegin(t, a, d) ==
    /\ call[t] = NoCall
    /\ call' = [call EXCEPT ![t] = [state |-> "begun", addr |-> a, diff |-> d]]
    /\ UNCHANGED total

AApply(t) ==
    /\ call[t].state = "begun"
    /\ total' = [total EXCEPT ![call[t].addr] =
                    [calls |-> @.calls + 1, time |-> (@.time + call[t].diff) % TimeMod]]
    /\ call' = [call EXCEPT ![t] =
                    [state |-> "applied", addr |-> call[t].addr, diff |-> call[t].diff]]

AEnd(t) ==
    /\ call[t].state = "applied"
    /\ call' = [call EXCEPT ![t] = NoCall]
    /\ UNCHANGED total

ANext ==
    \E t \in Threads :
        \/ \E a \in Addrs, d \in Ticks : ABegin(t, a, d)
        \/ AApply(t)
        \/ AEnd(t)

ASpec == AInit /\ [][ANext]_absVars
=============================================================================
