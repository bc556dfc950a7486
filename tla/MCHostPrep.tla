----------------------------- MODULE MCHostPrep -----------------------------
(* Instances of HostPrep for TLC. *)
EXTENDS HostPrep

CONSTANTS v1, v2, v3
ThreeValues == {v1, v2, v3}

(* A plain setting, one that reads as a menu, and one with two targets; an  *)
(* option for the first and one for the last.                               *)
ThreeKnobs == <<"smt_control", "transparent_hugepage", "nr_hugepages">>
Thp == {"transparent_hugepage"}
ScriptTargets == [k \in KnobSet |-> IF k = "nr_hugepages" THEN {v2, v3} ELSE {v2}]
KeepSmtNoHugepages == {{"smt_control"}, {"nr_hugepages"}}

FirstOnly == {"first"}
=============================================================================
