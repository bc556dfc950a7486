----------------------------- MODULE MCSpscRing -----------------------------
(* SpscRing for TLC: the configurations give every constant a value. *)
EXTENDS SpscRing
=============================================================================
