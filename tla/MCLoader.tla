------------------------------ MODULE MCLoader ------------------------------
(* Instances of Loader for TLC. *)
EXTENDS Loader

\* Everything works, with or without segments left by an earlier process.
Good == [enabled : {TRUE}, complete : {TRUE}, statSeg : {TRUE},
         infoSeg : {TRUE}, ctxSeg : {TRUE}, stale : BOOLEAN]

Fresh == {e \in Good : ~e.stale}

\* One thing is missing.
Degraded ==
    LET ok == CHOOSE e \in Good : e.stale
    IN  {[ok EXCEPT !.enabled = FALSE], [ok EXCEPT !.complete = FALSE],
         [ok EXCEPT !.statSeg = FALSE], [ok EXCEPT !.infoSeg = FALSE],
         [ok EXCEPT !.ctxSeg = FALSE]}

AllEnvs == Good \cup Degraded

ResolveByName == [n \in Names |-> <<"code of", n>>]
=============================================================================
