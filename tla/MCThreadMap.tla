----------------------------- MODULE MCThreadMap -----------------------------
(***************************************************************************)
(* Small instances of ThreadMap.                                           *)
(***************************************************************************)
EXTENDS ThreadMap, TLC

CONSTANTS t1, t2, t3

ThreeThreads == {t1, t2, t3}
TwoThreads == {t1, t2}
EarlyThread == {t1}
TwoNatives == {1, 2}
OneNative == {1}
MinusOne == {-1}
None == {}
=============================================================================
