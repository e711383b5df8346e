---------------------------- MODULE ServerProofs ----------------------------
(***************************************************************************)
(* The engine drives the alert engine as Alerts assumes: for any plugins,  *)
(* requests, loop slots and timing constants, the whole server implements  *)
(* the alert engine's specification.                                       *)
(***************************************************************************)
EXTENDS Server, EngineProofs

(***************************************************************************)
(* What makes two cycles of a plugin a refresh apart: the sleep covers     *)
(* what is missing, a loop that has slept collects or stops, and a plugin  *)
(* without an entry was never woken or left by a loop that had slept.      *)
(***************************************************************************)
LoopRested(l) ==
    LET p == loops[l].plugin IN
    /\ loops[l].pc \in {"collect", "stop"} => seen[p] >= Refresh[p]
    /\ loops[l].pc = "sleep" => seen[p] + loops[l].timer >= Refresh[p]

AsleepRested(p) == registry[p] = None => seen[p] >= Refresh[p]

Cadence ==
    /\ seen \in [Plugins -> Nat]
    /\ \A l \in Loops : LoopRested(l)
    /\ \A p \in Plugins : AsleepRested(p)

-----------------------------------------------------------------------------

\* Both invariants hold at the start: a plugin never seen is long rested.
LEMMA InitCadence == ServerInit => IInv /\ Cadence
<1> SUFFICES ASSUME ServerInit PROVE IInv /\ Cadence
  OBVIOUS
<1>1. IInv
  BY InitIInv DEF ServerInit
<1>2. \A p \in Plugins : Refresh[p] \in Nat /\ seen[p] = 2 * Refresh[p] + 1
  BY EngineAssumption DEF ServerInit, A!Init, A!GapAge
<1>3. seen \in [Plugins -> Nat]
  BY <1>2 DEF ServerInit, A!Init
<1>4. \A l \in Loops : LoopRested(l)
  BY DEF ServerInit, Init, NoLoop, LoopRested
<1>5. \A p \in Plugins : AsleepRested(p)
  BY <1>2 DEF AsleepRested
<1>6. QED
  BY <1>1, <1>3, <1>4, <1>5 DEF Cadence

\* A step of ensure_plugin that spawns nothing.
LEMMA LoopsKept ==
    ASSUME Cadence, UNCHANGED <<registry, loops, seen>>
    PROVE  Cadence'
BY DEF Cadence, LoopRested, AsleepRested

\* A loop is spawned only for a plugin without an entry, which is rested.
LEMMA SpawnCadence ==
    ASSUME IInv, Cadence, seen' = seen, NEW r \in Requests, Spawn(r)
    PROVE  Cadence'
<1> DEFINE p == reqs[r].plugin
<1>1. p \in Plugins /\ registry[p] = None
  BY EngineAssumption DEF Spawn, IInv, RequestsMatch, RequestOK
<1>2. PICK l \in Loops :
        /\ loops' = [loops EXCEPT ![l] = [plugin |-> p, pc |-> "collect",
                       timer |-> Warmup[p], ready |-> FALSE]]
        /\ registry' = [registry EXCEPT ![p] = l]
  BY DEF Spawn, FreeSlots
<1>3. seen[p] >= Refresh[p]
  BY <1>1 DEF Cadence, AsleepRested
<1>4. l # None
  BY EngineAssumption
<1>5. ASSUME NEW k \in Loops
      PROVE  LoopRested(k)'
  <2>1. CASE k = l
    <3>1. loops'[k].plugin = p /\ loops'[k].pc = "collect"
      BY <1>2, <2>1 DEF IInv, TypeOK
    <3>2. QED
      BY <1>3, <3>1 DEF LoopRested
  <2>2. CASE k # l
    <3>1. loops'[k] = loops[k]
      BY <1>2, <2>2 DEF IInv, TypeOK
    <3>2. QED
      BY <3>1 DEF Cadence, LoopRested
  <2>3. QED
    BY <2>1, <2>2
<1>6. ASSUME NEW q \in Plugins
      PROVE  AsleepRested(q)'
  BY <1>1, <1>2, <1>4 DEF Cadence, AsleepRested, IInv, TypeOK
<1>7. QED
  BY <1>5, <1>6 DEF Cadence

\* Publishing, waking up, stopping and panicking.
LEMMA LoopCadence ==
    ASSUME IInv, Cadence, seen' = seen, NEW l \in Loops,
           Publish(l) \/ Wake(l) \/ StopOrContinue(l) \/ Panic(l)
    PROVE  Cadence'
<1> DEFINE p == loops[l].plugin
<1>1. /\ p \in Plugins /\ loops[l] \in Loop /\ LoopRested(l)
      /\ seen[p] \in Nat /\ Refresh[p] \in Nat
  BY EngineAssumption, SlotTypes DEF Publish, Wake, StopOrContinue, Panic,
     IInv, LoopsMatch, Live, Cadence
<1>2. CASE Publish(l)
  <2>1. loops'[l].plugin = p /\ loops'[l].pc = "sleep" /\ loops'[l].timer = Refresh[p]
    BY <1>1, <1>2 DEF Publish, IInv, TypeOK, Loop
  <2>2. registry' = registry /\ \A k \in Loops : k # l => loops'[k] = loops[k]
    BY <1>2 DEF Publish, IInv, TypeOK
  <2>3. LoopRested(l)'
    BY <1>1, <2>1 DEF LoopRested
  <2>4. QED
    BY <2>2, <2>3 DEF Cadence, LoopRested, AsleepRested
<1>3. CASE Wake(l) \/ StopOrContinue(l) \/ Panic(l)
  <2>1. /\ loops'[l].plugin = p
        /\ loops'[l].pc \in {"collect", "stop"} => seen[p] >= Refresh[p]
        /\ loops'[l].pc \in {"collect", "stop", "done"}
    <3>1. CASE Wake(l)
      BY <1>1, <3>1 DEF Wake, IInv, TypeOK, Loop, LoopRested
    <3>2. CASE StopOrContinue(l)
      BY <1>1, <3>2 DEF StopOrContinue, IInv, TypeOK, Loop, LoopRested
    <3>3. CASE Panic(l)
      BY <1>1, <3>3 DEF Panic, IInv, TypeOK, Loop
    <3>4. QED
      BY <1>3, <3>1, <3>2, <3>3
  <2>2. \A k \in Loops : k # l => loops'[k] = loops[k]
    BY <1>3 DEF Wake, StopOrContinue, Panic, IInv, TypeOK
  <2>3. LoopRested(l)'
    BY <2>1 DEF LoopRested
  <2>4. ASSUME NEW q \in Plugins
        PROVE  AsleepRested(q)'
    <3>1. CASE registry'[q] = registry[q]
      BY <3>1 DEF Cadence, AsleepRested
    <3>2. CASE registry'[q] # registry[q]
      <4>1. StopOrContinue(l) /\ registry' = [registry EXCEPT ![p] = None]
        BY <1>3, <3>2 DEF Wake, StopOrContinue, Panic
      <4>2. q = p
        BY <3>2, <4>1 DEF IInv, TypeOK
      <4>3. QED
        BY <1>1, <4>1, <4>2 DEF StopOrContinue, LoopRested, AsleepRested
    <3>3. QED
      BY <3>1, <3>2
  <2>5. QED
    BY <2>2, <2>3, <2>4 DEF Cadence, LoopRested
<1>4. QED
  BY <1>2, <1>3

\* A cycle: no other loop runs for its plugin, and this one will sleep.
LEMMA CollectedCadence ==
    ASSUME IInv, Cadence, NEW l \in Loops, CollectedAndObserved(l)
    PROVE  Cadence'
<1> DEFINE p == loops[l].plugin
<1>1. p \in Plugins /\ registry[p] = l /\ l # None /\ loops[l] \in Loop
  BY EngineAssumption, SlotTypes DEF CollectedAndObserved, Collected, IInv,
     SoleCollector, LoopsMatch, Live
<1>2. /\ registry' = registry
      /\ loops' = [loops EXCEPT ![l].pc = "publish"]
  BY DEF CollectedAndObserved, Collected
<1>3. seen' = seen \/ seen' = [seen EXCEPT ![p] = 0]
  BY DEF CollectedAndObserved, A!Observe, A!Cycle, alertVars
<1>4. seen' \in [Plugins -> Nat]
  BY <1>3 DEF Cadence
<1>5. \A q \in Plugins : q # p => seen'[q] = seen[q]
  BY <1>3 DEF Cadence
<1>6. ASSUME NEW k \in Loops
      PROVE  LoopRested(k)'
  <2>1. CASE k = l
    BY <1>1, <1>2, <2>1 DEF IInv, TypeOK, Loop, LoopRested
  <2>2. CASE k # l
    <3>1. loops'[k] = loops[k]
      BY <1>2, <2>2 DEF IInv, TypeOK
    <3>2. Live(k) => loops[k].plugin \in Plugins /\ loops[k].plugin # p
      BY <1>1, <2>2 DEF IInv, SoleCollector, LoopsMatch
    <3>3. QED
      BY <1>5, <3>1, <3>2 DEF Cadence, LoopRested, Live
  <2>3. QED
    BY <2>1, <2>2
<1>7. \A q \in Plugins : AsleepRested(q)'
  BY <1>1, <1>2, <1>5 DEF Cadence, AsleepRested
<1>8. QED
  BY <1>4, <1>6, <1>7 DEF Cadence

\* A tick: what a timer loses, the time since the last cycle gains.
LEMMA TickCadence ==
    ASSUME IInv, Cadence, Tick, A!Tick
    PROVE  Cadence'
<1>1. ASSUME NEW p \in Plugins
      PROVE  /\ seen[p] \in Nat /\ seen'[p] \in Nat
             /\ Refresh[p] \in Nat
             /\ \/ seen'[p] = seen[p] + 1
                \/ seen'[p] = seen[p] /\ seen[p] >= Refresh[p]
  <2>1. seen[p] \in Nat /\ Refresh[p] \in Nat
    BY EngineAssumption DEF Cadence
  <2>2. seen'[p] = IF seen[p] < 2 * Refresh[p] + 1 THEN seen[p] + 1 ELSE seen[p]
    BY DEF A!Tick, A!Older, A!GapAge
  <2>3. QED
    BY <2>1, <2>2
<1>2. seen' \in [Plugins -> Nat]
  BY <1>1 DEF A!Tick
<1>3. ASSUME NEW l \in Loops
      PROVE  LoopRested(l)'
  <2>1. loops[l] \in Loop
    BY SlotTypes DEF IInv
  <2>2. /\ loops'[l].plugin = loops[l].plugin /\ loops'[l].pc = loops[l].pc
        /\ loops'[l].timer = Decrement(loops[l].timer)
        /\ loops[l].timer \in Nat
    BY <2>1 DEF Tick, Loop
  <2>3. LoopRested(l)
    BY DEF Cadence
  <2>4. CASE loops[l].pc \in {"collect", "stop", "sleep"}
    <3>1. loops[l].plugin \in Plugins
      BY <2>4 DEF IInv, LoopsMatch, Live
    <3> DEFINE p == loops[l].plugin
    <3>2. seen'[p] >= seen[p] /\ (seen'[p] = seen[p] + 1 \/ seen[p] >= Refresh[p])
      BY <1>1, <3>1
    <3>3. /\ seen[p] \in Nat /\ seen'[p] \in Nat /\ Refresh[p] \in Nat
      BY <1>1, <3>1
    <3>4. CASE loops[l].pc # "sleep"
      BY <2>2, <2>3, <2>4, <3>2, <3>3, <3>4 DEF LoopRested
    <3>5. CASE loops[l].pc = "sleep"
      <4>1. seen[p] + loops[l].timer >= Refresh[p]
        BY <2>3, <3>5 DEF LoopRested
      <4>2. seen'[p] + loops'[l].timer >= Refresh[p]
        BY <2>2, <3>2, <3>3, <4>1 DEF Decrement
      <4>3. QED
        BY <2>2, <3>5, <4>2 DEF LoopRested
    <3>6. QED
      BY <3>4, <3>5
  <2>5. CASE loops[l].pc \notin {"collect", "stop", "sleep"}
    BY <2>2, <2>5 DEF LoopRested
  <2>6. QED
    BY <2>4, <2>5
<1>4. ASSUME NEW p \in Plugins
      PROVE  AsleepRested(p)'
  <2>1. AsleepRested(p) /\ registry' = registry
    BY DEF Cadence, Tick
  <2>2. QED
    BY <1>1, <2>1 DEF AsleepRested
<1>5. QED
  BY <1>2, <1>3, <1>4 DEF Cadence

-----------------------------------------------------------------------------

\* Every step of the server keeps both invariants.
LEMMA ServerNextCadence ==
    IInv /\ Cadence /\ [ServerNext]_serverVars => IInv' /\ Cadence'
<1> SUFFICES ASSUME IInv, Cadence, [ServerNext]_serverVars
             PROVE  IInv' /\ Cadence'
  OBVIOUS
<1>1. [Next]_vars
  BY DEF ServerNext, serverVars, CollectedAndObserved, EngineStep, Next, LoopStep
<1>2. IInv'
  BY <1>1, NextIInv
<1>3. CASE UNCHANGED serverVars
  BY <1>2, <1>3, LoopsKept DEF serverVars, vars, alertVars
<1>4. CASE \E l \in Loops : CollectedAndObserved(l)
  BY <1>2, <1>4, CollectedCadence
<1>5. CASE EngineStep
  <2>1. seen' = seen
    BY <1>5 DEF EngineStep, alertVars
  <2>2. ASSUME NEW r \in Requests, ClientStep(r)
        PROVE  Cadence'
    BY <2>1, <2>2, LoopsKept DEF ClientStep, Call, Cancel, Deliver
  <2>3. ASSUME NEW r \in Requests, RequestStep(r)
        PROVE  Cadence'
    <3>1. CASE Spawn(r)
      BY <2>1, <3>1, SpawnCadence
    <3>2. CASE ~Spawn(r)
      BY <2>1, <2>3, <3>2, LoopsKept DEF RequestStep, Join, SeeReady,
         ReadSnapshot, GuardExpires, SenderGone
    <3>3. QED
      BY <3>1, <3>2
  <2>4. ASSUME NEW l \in Loops,
               Publish(l) \/ Wake(l) \/ StopOrContinue(l) \/ Panic(l)
        PROVE  Cadence'
    BY <2>1, <2>4, LoopCadence
  <2>5. QED
    BY <1>2, <1>5, <2>2, <2>3, <2>4 DEF EngineStep
<1>6. CASE Tick /\ A!Tick
  BY <1>2, <1>6, TickCadence
<1>7. QED
  BY <1>2, <1>3, <1>4, <1>5, <1>6 DEF ServerNext

(***************************************************************************)
(* The server implements the alert engine's specification: one observe per *)
(* cycle, two cycles of a plugin at least a refresh apart through every    *)
(* stop, wake-up, panic and change of loop task.                           *)
(***************************************************************************)
THEOREM ServerImplementsAlerts == ServerSpec => AlertsSpec
<1>1. IInv /\ Cadence /\ [ServerNext]_serverVars => [A!Next]_(A!vars)
  <2> SUFFICES ASSUME IInv, Cadence, [ServerNext]_serverVars
               PROVE  [A!Next]_(A!vars)
    OBVIOUS
  <2>1. ASSUME NEW l \in Loops, CollectedAndObserved(l)
        PROVE  [A!Next]_(A!vars)
    <3>1. CASE A!SeriesOf(loops[l].plugin) = {}
      BY <2>1, <3>1 DEF CollectedAndObserved, alertVars, A!vars
    <3>2. CASE A!SeriesOf(loops[l].plugin) # {}
      <4>1. loops[l].pc = "collect" /\ loops[l].plugin \in Plugins
        BY <2>1 DEF CollectedAndObserved, Collected, IInv, LoopsMatch, Live
      <4>2. seen[loops[l].plugin] >= Refresh[loops[l].plugin]
        BY <4>1 DEF Cadence, LoopRested
      <4>3. A!Observe(loops[l].plugin)
        BY <2>1, <3>2 DEF CollectedAndObserved
      <4>4. QED
        BY <4>1, <4>2, <4>3 DEF A!Next
    <3>3. QED
      BY <3>1, <3>2
  <2>2. CASE EngineStep \/ UNCHANGED serverVars
    BY <2>2 DEF EngineStep, serverVars, alertVars, A!vars
  <2>3. CASE Tick /\ A!Tick
    BY <2>3 DEF A!Next
  <2>4. QED
    BY <2>1, <2>2, <2>3 DEF ServerNext
<1>2. ServerInit => A!Init
  BY DEF ServerInit
<1>3. QED
  BY <1>1, <1>2, InitCadence, ServerNextCadence, PTL
     DEF ServerSpec, AlertsSpec, A!Spec
=============================================================================
