--------------------------- MODULE LazyCollection ---------------------------
(***************************************************************************)
(* What the engine promises, without tasks, channels, locks or a store     *)
(* (ARCHITECTURE.md section 3): each plugin is on its own a state machine  *)
(* that sleeps, wakes on demand, works, and goes back to sleep only after  *)
(* an idle timeout without a request; a call is answered 200 only with a   *)
(* cycle of the period it joined, and 503 only when there is none yet.     *)
(* Engine implements this specification (Engine!LazySpec).                 *)
(***************************************************************************)
EXTENDS Naturals

CONSTANTS Plugins, Enabled, Requests, None,
          Timeout     \* [Plugins -> Nat], idle time before a plugin may rest

VARIABLES
    phase,    \* "asleep", "waking" (no cycle yet) or "working"
    quiet,    \* time since the last call for the plugin, up to Timeout
    call      \* the calls: where each one is and how it was answered

vars == <<phase, quiet, call>>

CallAt(stage, p, served, answer) ==
    [at |-> stage, plugin |-> p, served |-> served, answer |-> answer]

NoCall == CallAt("none", None, FALSE, "none")

Init ==
    /\ phase = [p \in Plugins |-> "asleep"]
    /\ quiet = [p \in Plugins |-> 0]
    /\ call = [r \in Requests |-> NoCall]

Refuse(r, p) ==
    /\ call[r].at = "none"
    /\ p \notin Enabled
    /\ call' = [call EXCEPT ![r] = CallAt("answered", p, FALSE, "404")]
    /\ UNCHANGED <<phase, quiet>>

Ask(r, p) ==
    /\ call[r].at = "none"
    /\ p \in Enabled
    /\ call' = [call EXCEPT ![r] = CallAt("asked", p, FALSE, "none")]
    /\ quiet' = [quiet EXCEPT ![p] = 0]
    /\ UNCHANGED phase

\* The call meets a working plugin, or wakes it.
Admit(r) ==
    LET p == call[r].plugin IN
    /\ call[r].at = "asked"
    /\ call' = [call EXCEPT ![r] =
                   CallAt("pending", p, phase[p] = "working", "none")]
    /\ phase' = [phase EXCEPT ![p] = IF @ = "asleep" THEN "waking" ELSE @]
    /\ UNCHANGED quiet

FirstCycle(p) ==
    /\ phase[p] = "waking"
    /\ phase' = [phase EXCEPT ![p] = "working"]
    /\ call' = [r \in Requests |->
                  IF call[r].at = "pending" /\ call[r].plugin = p
                  THEN CallAt("pending", p, TRUE, "none") ELSE call[r]]
    /\ UNCHANGED quiet

Reply(r) ==
    /\ call[r].at = "pending"
    /\ call' = [call EXCEPT ![r] = CallAt("answered", @.plugin, @.served,
                                          IF @.served THEN "200" ELSE "503")]
    /\ UNCHANGED <<phase, quiet>>

Leave(r) ==
    /\ call[r].at # "none"
    /\ call' = [call EXCEPT ![r] = NoCall]
    /\ UNCHANGED <<phase, quiet>>

Rest(p) ==
    /\ phase[p] = "working"
    /\ quiet[p] >= Timeout[p]
    /\ phase' = [phase EXCEPT ![p] = "asleep"]
    /\ UNCHANGED <<quiet, call>>

TimePasses ==
    /\ quiet' = [p \in Plugins |->
                   IF quiet[p] >= Timeout[p] THEN quiet[p] ELSE quiet[p] + 1]
    /\ UNCHANGED <<phase, call>>

Next ==
    \/ \E r \in Requests :
          \/ \E p \in Plugins : Refuse(r, p) \/ Ask(r, p)
          \/ Admit(r) \/ Reply(r) \/ Leave(r)
    \/ \E p \in Plugins : FirstCycle(p) \/ Rest(p)
    \/ TimePasses

Spec == Init /\ [][Next]_vars
=============================================================================
