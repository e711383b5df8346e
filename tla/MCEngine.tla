------------------------------ MODULE MCEngine ------------------------------
(***************************************************************************)
(* Small instances of Engine.  cpu is a rate plugin (it bootstraps), mem   *)
(* is instantaneous, fs is disabled by the operator.                       *)
(***************************************************************************)
EXTENDS Engine, TLC

CONSTANTS cpu, mem, fs

MCWarmup == [p \in Plugins |-> IF p = cpu THEN 1 ELSE 0]

MCRefresh == [p \in Plugins |-> 1]

Symmetry == Permutations(Requests) \cup Permutations(Loops)
=============================================================================
