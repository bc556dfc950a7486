------------------------------ MODULE MCCpuList ------------------------------
(* Instances of CpuList for TLC. *)
EXTENDS CpuList

CONSTANTS MaxCpu, MaxParts

Parts == {<<>>, Garbage} \cup {<<n>> : n \in 0 .. MaxCpu} \cup ((0 .. MaxCpu) \X (0 .. MaxCpu))

(* Every text of at most MaxParts parts.                                   *)
AllTexts == UNION {[1 .. n -> Parts] : n \in 0 .. MaxParts}
=============================================================================
