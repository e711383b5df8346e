---------------------------- MODULE MCAggregate ----------------------------
(***************************************************************************)
(* A small instance of Aggregate: cpu, which bootstraps, and mem, each     *)
(* with its task of /all, and one request for a single plugin.             *)
(***************************************************************************)
EXTENDS Aggregate, TLC

CONSTANTS cpu, mem, a1, a2

MCTask == cpu :> a1 @@ mem :> a2

MCWarmup == [p \in Plugins |-> IF p = cpu THEN 1 ELSE 0]

MCRefresh == [p \in Plugins |-> 1]

Symmetry == Permutations(Loops)
=============================================================================
