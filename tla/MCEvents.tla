------------------------------ MODULE MCEvents ------------------------------
(* Values of the constants of Events for TLC.                              *)
EXTENDS Events

TwoPresets == <<"TOT_CYC", "TOT_INS">>
TwoComponents == << <<"cpu::cycles">>, <<>>, <<"net::rx">> >>
=============================================================================
