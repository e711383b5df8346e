----------------------------- MODULE MCStartup -----------------------------
(***************************************************************************)
(* A small instance of Startup: command lines of up to three arguments,    *)
(* two files they may name, two candidates, one host.                      *)
(***************************************************************************)
EXTENDS Startup

CONSTANTS p1, p2, home, etc, localhost

MCCandidates == <<home, etc>>

Arg(option, path) == [option |-> option, path |-> path]

MCArguments == {Arg("config", None), Arg("help", None), Arg("other", p1),
                Arg("config=", p2)}

MCCommandLines == UNION {[1..n -> MCArguments] : n \in 0..3}
=============================================================================
