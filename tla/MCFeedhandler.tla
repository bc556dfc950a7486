--------------------------- MODULE MCFeedhandler ---------------------------
(* Instances of Feedhandler for TLC. *)
EXTENDS Feedhandler

CONSTANTS b1, b2
TwoBuffers == {b1, b2}
SecondIsShort == {2}

=============================================================================
