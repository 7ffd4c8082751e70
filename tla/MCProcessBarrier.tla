-------------------------- MODULE MCProcessBarrier --------------------------
(* Values of the constants of ProcessBarrier for TLC.                      *)
EXTENDS ProcessBarrier, TLC

CONSTANTS t1, t2, t3, j1, j2

TwoAndOne == t1 :> j1 @@ t2 :> j1 @@ t3 :> j2
=============================================================================
