------------------------------ MODULE MCAlerts ------------------------------
(***************************************************************************)
(* Small instances of Alerts: mem is a scalar plugin with one field, fs a  *)
(* collection plugin with one file system that may be unmounted.           *)
(***************************************************************************)
EXTENDS Alerts

CONSTANTS mem, fs, percent, root

MCSeries == {<<mem, None, percent>>, <<fs, root, percent>>}

MCRefresh == [p \in Plugins |-> 1]

MCMinDuration == [p \in Plugins |-> IF p = mem THEN 0 ELSE 2]
=============================================================================
