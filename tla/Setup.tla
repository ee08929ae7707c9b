-------------------------------- MODULE Setup --------------------------------
(***************************************************************************)
(* What the first redirected call does in _dl_fixup, with its algorithms   *)
(* in full: getLibMap looks for libelfperf.so, get_fn_list cuts the list   *)
(* of functions, initWrapperRedirectors lays out the table for that list,  *)
(* and the calls bound from then on write their redirectors into it.       *)
(* Loader models the same path with threads and abstract algorithms.       *)
(***************************************************************************)
EXTENDS FnList, LibMap, Redirectors

\* Whatever a value can be cut into may be the name of a function.
ASSUME SetupAssumption ==
    \A v \in Values : \A a \in 1..(Len(v) + 1), b \in 0..Len(v) : SubSeq(v, a, b) \in Names

setupVars == <<fnVars, mapVars, tabVars>>

SetupInit ==
    /\ LibMapInit
    /\ FnListInit
    /\ names = <<>>
    /\ redirectors = 0
    /\ index = 0
    /\ executable = {}
    /\ code = <<>>
    /\ stage = "wait"

\* getLibMap(ELFPERF_LIB_NAME, l).
Search ==
    /\ at # "done"
    /\ LibMapNext
    /\ UNCHANGED <<fnVars, tabVars>>

\* getLibMap returned NULL: the call is bound as without elfperf.
SkipElfperf == at = "done" /\ lib_map = 0 /\ UNCHANGED setupVars

\* context.names = get_fn_list(..., &context.count).
GetNames ==
    /\ at = "done"
    /\ lib_map # 0
    /\ i < Len(env_value)
    /\ FnListNext
    /\ UNCHANGED <<mapVars, tabVars>>

NamesComplete ==
    /\ at = "done"
    /\ lib_map # 0
    /\ i = Len(env_value)
    /\ stage = "wait"
    /\ names' = result
    /\ stage' = "map"
    /\ UNCHANGED <<fnVars, mapVars, redirectors, index, executable, code>>

\* initWrapperRedirectors(&context).
LayOut ==
    /\ \/ \E base \in Bases : Map(base)
       \/ Protect \/ ProtectFails \/ Protected \/ Clear \/ Cleared
    /\ UNCHANGED <<fnVars, mapVars>>

\* A call of a listed function is bound; symbols have no empty names.
Bind ==
    /\ \E n \in Names \ {<<>>} : AddNewFunction(n)
    /\ UNCHANGED <<fnVars, mapVars>>

SetupNext ==
    \/ Search \/ SkipElfperf \/ GetNames \/ NamesComplete \/ LayOut \/ Bind
    \/ Idle /\ UNCHANGED <<fnVars, mapVars>>

SetupSpec == SetupInit /\ [][SetupNext]_setupVars
=============================================================================
