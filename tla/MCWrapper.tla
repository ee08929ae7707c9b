----------------------------- MODULE MCWrapper -----------------------------
(* A thread whose calls are interrupted by handlers that nest, beside one   *)
(* that makes a call of its own.                                            *)
EXTENDS Wrapper, TLC

CONSTANTS t1, t2

CallBounds == t1 :> 2 @@ t2 :> 1
SignalBounds == t1 :> 2 @@ t2 :> 0

Symmetry == Permutations(Fns) \cup Permutations(Sites)
=============================================================================
