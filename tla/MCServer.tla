------------------------------ MODULE MCServer ------------------------------
(***************************************************************************)
(* A small instance of Server: one plugin, mem, with one limited field.    *)
(***************************************************************************)
EXTENDS Server

CONSTANTS mem, percent

MCSeries == {<<mem, None, percent>>}

MCRefresh == [p \in Plugins |-> 1]

MCWarmup == [p \in Plugins |-> 0]

MCMinDuration == [p \in Plugins |-> 2]
=============================================================================
