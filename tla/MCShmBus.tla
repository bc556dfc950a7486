------------------------------ MODULE MCShmBus ------------------------------
(* Instances of ShmBus for TLC. *)
EXTENDS ShmBus

MissingOnly == {"missing"}
=============================================================================
