------------------------------ MODULE MCRates ------------------------------
(***************************************************************************)
(* Small instances of Rates: every kind of plugin, each from its own       *)
(* initial state.                                                          *)
(***************************************************************************)
EXTENDS Rates, TLC

Symmetry == Permutations(Keys)
=============================================================================
