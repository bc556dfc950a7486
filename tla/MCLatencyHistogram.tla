------------------------- MODULE MCLatencyHistogram -------------------------
(* Instances of LatencyHistogram for TLC, in units of 500 ns: every bound   *)
(* but u64::MAX, which Top stands for, is a multiple of it.                 *)
EXTENDS LatencyHistogram

Top == 100000000

CodeBounds == <<1, 2, 4, 10, 20, 40, 100, 200, 400, 1000, 2000, 4000, 10000, 20000,
                40000, 100000, 200000, 400000, 1000000, 2000000, Top>>

(* A sample that is a bound, and one past the largest finite bound.         *)
EdgeLatencies == {2, 2000001}
=============================================================================
