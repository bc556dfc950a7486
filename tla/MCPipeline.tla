----------------------------- MODULE MCPipeline -----------------------------
(* Instances of Pipeline for TLC. *)
EXTENDS Pipeline

(* Two symbols, each with a worker of its own. *)
TwoSymbols == <<"AAPL", "MSFT">>
AWorkerEach == [s \in {"AAPL", "MSFT"} |-> IF s = "AAPL" THEN 0 ELSE 1]
=============================================================================
