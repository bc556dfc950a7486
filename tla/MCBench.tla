------------------------------- MODULE MCBench -------------------------------
(* Instances of Bench for TLC. *)
EXTENDS Bench

(* Too few CPUs; CPUs for all and a cache of two minimal masks; isolated    *)
(* siblings, which SMT off takes away, on a list that else has a CPU for    *)
(* each, a list that wraps, and a cache too narrow to split.                *)
ThreeHosts ==
  {[online |-> 0 .. 2, siblings |-> {}, isolated |-> {}, ways |-> 4],
   [online |-> 0 .. 7, siblings |-> {}, isolated |-> {}, ways |-> 4],
   [online |-> 0 .. 5, siblings |-> 3 .. 5, isolated |-> {1, 2, 4, 5}, ways |-> 3]}
=============================================================================
