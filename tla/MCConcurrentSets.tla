-------------------------- MODULE MCConcurrentSets --------------------------
(* Values of the constants of ConcurrentSets for TLC.                      *)
EXTENDS ConcurrentSets, TLC

CONSTANTS t1, t2, n1, n2

AnyOrder == Permutations(Threads) \cup Permutations(NativeIds)
WithInvalid == NativeIds \cup {Invalid}
SmallCounts == {1, 5, -7}   \* in -8 .. 7: 5 doubled is negative, -7 doubled is 2
=============================================================================
