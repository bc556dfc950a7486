----------------------------- MODULE MCExchange -----------------------------
(* Instances of Exchange for TLC. *)
EXTENDS Exchange

(* No limit, one that ends in the middle of a round, one at its end.       *)
SomeCounts == {0, 3, 4}
SomeDeadlines == {0, 5}
=============================================================================
