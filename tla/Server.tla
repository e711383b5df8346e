------------------------------- MODULE Server -------------------------------
(***************************************************************************)
(* The server's shared state in one model: the collection engine (Engine)  *)
(* whose cycles feed the alert engine (Alerts).  plugin_loop calls observe *)
(* right after collect() returns and before it publishes, with no .await   *)
(* in between (collector.rs:133-142), so both happen in one step; the      *)
(* clocks of both advance together.                                        *)
(***************************************************************************)
EXTENDS Engine

CONSTANTS Keyed, Series, Levels, MinDuration, HistorySize

VARIABLES state, seen, history, payload, steady

A == INSTANCE Alerts

alertVars == <<state, seen, history, payload, steady>>

serverVars == <<vars, alertVars>>

ServerInit == Init /\ A!Init

\* observe() returns at once for a plugin without alertable fields or limits.
CollectedAndObserved(l) ==
    LET p == loops[l].plugin IN
    /\ Collected(l)
    /\ IF A!SeriesOf(p) = {} THEN UNCHANGED alertVars ELSE A!Observe(p)

\* The rest of the engine leaves the alert state alone; /api/5/alert only
\* reads it.
EngineStep ==
    /\ \/ \E r \in Requests : ClientStep(r) \/ RequestStep(r)
       \/ \E l \in Loops : \/ Publish(l) \/ Wake(l)
                           \/ StopOrContinue(l) \/ Panic(l)
    /\ UNCHANGED alertVars

ServerNext ==
    \/ \E l \in Loops : CollectedAndObserved(l)
    \/ EngineStep
    \/ Tick /\ A!Tick

ServerSpec == ServerInit /\ [][ServerNext]_serverVars

-----------------------------------------------------------------------------
(* Properties *)

(***************************************************************************)
(* The engine drives the alert engine as Alerts assumes: one observe per   *)
(* cycle, two cycles of a plugin at least a refresh apart through every    *)
(* stop, wake-up and change of loop task, and the alert state untouched by *)
(* everything else.                                                        *)
(***************************************************************************)
AlertsSpec == A!Spec

(***************************************************************************)
(* What docs/api.md:604-607 says of a re-wake: a pending level from before *)
(* the stop "is reset (it cannot insta-commit on the first post-wake       *)
(* sample)".  The first cycle of a loop task commits no transition (of a   *)
(* plugin with a hysteresis window).                                       *)
(***************************************************************************)
RewakeNeverInstaCommits ==
    [][\A l \in Loops :
         /\ loops[l].pc = "collect" /\ loops'[l].pc = "publish"
         /\ ~loops[l].ready
         => \A s \in DOMAIN state \cap DOMAIN state' :
               s[1] = loops[l].plugin /\ MinDuration[s[1]] > 0
               => state'[s].committed = state[s].committed]_serverVars
=============================================================================
