------------------------------ MODULE MCEngine ------------------------------
(* Instances of Engine for TLC. *)
EXTENDS Engine

CONSTANTS s1, s2

TwoSymbols == {s1, s2}

(* One symbol for each of two workers. *)
HashOf == [s \in Symbols |-> IF s = s1 THEN 4 ELSE 7]
InlineOrTwo == {0, 2}
=============================================================================
