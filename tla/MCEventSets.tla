----------------------------- MODULE MCEventSets -----------------------------
(***************************************************************************)
(* Values of the constants of EventSets for TLC.                           *)
(***************************************************************************)
EXTENDS EventSets

(* One clock, two PAPI events of component 0, one of component 1 and a     *)
(* name nothing resolves.                                                  *)
MCInfo ==
  [e \in {"wall", "p1", "p2", "q1", "bogus"} |->
     [known |-> e # "bogus", papi |-> e \in {"p1", "p2", "q1"},
      id |-> CASE e = "p1" -> 1 [] e = "p2" -> 2 [] e = "q1" -> 3 [] OTHER -> 0,
      component |-> IF e = "q1" THEN 1 ELSE 0]]

(* Event name arrays                                                       *)
Wall == {<<"wall">>}
OnePapi == {<<"p1">>}
Names == {<<>>, <<"p1", "p2", "p1">>, <<"p1", "q1">>, <<"bogus">>}

(* Event set id arrays                                                     *)
OneId == {<<0>>}
PartlyInvalid == {<<0>>, <<0, 5>>}
=============================================================================
