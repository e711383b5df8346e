------------------------------- MODULE Engine -------------------------------
(***************************************************************************)
(* The lazy collection engine: ensure_plugin and plugin_loop               *)
(* (src/src/collector.rs) over the shared AppState (src/src/state.rs).     *)
(*                                                                         *)
(* A step is what runs between two .await points of one task: the server   *)
(* runs on a current_thread runtime (src/src/main.rs:9), so nothing        *)
(* interleaves inside it.  Any .await may suspend its task, and a request  *)
(* future may be dropped there (client gone).                              *)
(*                                                                         *)
(* Time is a Tick action.  Instants are kept relative to now: `idle' is    *)
(* the time since last_request, saturated at the idle timeout (the code    *)
(* only compares it with >=); timers hold the time left.  A timer at 0 may *)
(* fire late by any number of ticks, as the scheduler may run it late.     *)
(***************************************************************************)
EXTENDS Naturals

CONSTANTS
    Plugins,     \* PluginId
    Enabled,     \* the plugins config.plugin_enabled answers true for
    Requests,    \* slots for concurrent calls of ensure_plugin
    Loops,       \* slots for plugin_loop tasks and their watch channels
    None,        \* no plugin, no loop
    Refresh,     \* [Plugins -> ticks], config.refresh_for
    IdleCycles,  \* config.collect.idle_cycles
    Guard,       \* config.guard_timeout, in ticks
    Warmup,      \* [Plugins -> ticks], the bootstrap sleep of a rate plugin
    Panicking    \* plugins whose cycle may panic in an unwinding build

ASSUME EngineAssumption ==
    /\ Enabled \subseteq Plugins
    /\ Panicking \subseteq Plugins
    /\ None \notin Plugins \cup Loops
    /\ Refresh \in [Plugins -> Nat \ {0}]
    /\ Warmup \in [Plugins -> Nat]
    /\ IdleCycles \in Nat \ {0}
    /\ Guard \in Nat \ {0}

VARIABLES
    registry,    \* collectors: the loop whose channel is registered, or None
    store,       \* the snapshot: absent, or of which activity period it is
    idle,        \* time since last_request, saturated at IdleTimeout
    loops,       \* plugin_loop tasks, each with its watch channel
    reqs         \* ensure_plugin futures

vars == <<registry, store, idle, loops, reqs>>

-----------------------------------------------------------------------------
(***************************************************************************)
(* A snapshot is "current" when a cycle has been published since the       *)
(* plugin's latest wake-up, "retained" when it is older than that.         *)
(***************************************************************************)
Snapshot == {"absent", "retained", "current"}

LoopPc == {"collect", "publish", "sleep", "stop", "done"}

Loop == [plugin: Plugins \cup {None}, pc: LoopPc, timer: Nat, ready: BOOLEAN]

ReqPc == {"idle", "lock", "wait", "read", "done"}

Answer == {"none", "200", "404", "503"}

Request == [pc: ReqPc, plugin: Plugins \cup {None}, loop: Loops \cup {None},
            guard: Nat, fresh: BOOLEAN, answer: Answer]

NoLoop == [plugin |-> None, pc |-> "done", timer |-> 0, ready |-> FALSE]

CallOf(p, pc, answer) == [pc |-> pc, plugin |-> p, loop |-> None,
                          guard |-> 0, fresh |-> FALSE, answer |-> answer]

NoRequest == CallOf(None, "idle", "none")

IdleTimeout(p) == Refresh[p] * IdleCycles

IdleExpired(p) == idle[p] >= IdleTimeout(p)

Live(l) == loops[l].pc # "done"

\* The plugin's collector is in collect(), past any bootstrap sleep.
Hung(p) == \E l \in Loops : /\ registry[p] = l
                            /\ loops[l].pc = "collect"
                            /\ loops[l].timer = 0

\* A slot is reusable once its task ended and nobody holds its channel.
FreeSlots == {l \in Loops : /\ ~Live(l)
                            /\ \A p \in Plugins : registry[p] # l
                            /\ \A r \in Requests : reqs[r].loop # l}

Init ==
    /\ registry = [p \in Plugins |-> None]
    /\ store = [p \in Plugins |-> "absent"]
    /\ idle = [p \in Plugins |-> 0]
    /\ loops = [l \in Loops |-> NoLoop]
    /\ reqs = [r \in Requests |-> NoRequest]

-----------------------------------------------------------------------------
(* ensure_plugin *)

Finish(r, a) ==
    reqs' = [reqs EXCEPT ![r].pc = "done", ![r].answer = a, ![r].guard = 0]

\* Entry: the registration check, then touch() before the registry lock.
Call(r, p) ==
    /\ reqs[r].pc = "idle"
    /\ \/ /\ p \notin Enabled
          /\ reqs' = [reqs EXCEPT ![r] = CallOf(p, "done", "404")]
          /\ UNCHANGED idle
       \/ /\ p \in Enabled
          /\ reqs' = [reqs EXCEPT ![r] = CallOf(p, "lock", "none")]
          /\ idle' = [idle EXCEPT ![p] = 0]
    /\ UNCHANGED <<registry, store, loops>>

\* The critical section when a collector is registered: clone its receiver.
Join(r) ==
    LET p == reqs[r].plugin IN
    /\ reqs[r].pc = "lock"
    /\ registry[p] # None
    /\ reqs' = [reqs EXCEPT ![r].pc = "wait", ![r].loop = registry[p],
                            ![r].guard = Guard,
                            ![r].fresh = (store[p] = "current")]
    /\ UNCHANGED <<registry, store, idle, loops>>

\* Mutant of Spawn: the registry is not consulted (no `match collectors.get`).
SpawnAlways(r) ==
    LET p == reqs[r].plugin IN
    /\ reqs[r].pc = "lock"
    /\ \E l \in FreeSlots :
          /\ loops' = [loops EXCEPT ![l] = [plugin |-> p, pc |-> "collect",
                          timer |-> Warmup[p], ready |-> FALSE]]
          /\ registry' = [registry EXCEPT ![p] = l]
          /\ reqs' = [reqs EXCEPT ![r].pc = "wait", ![r].loop = l,
                                  ![r].guard = Guard]
    /\ store' = [store EXCEPT ![p] = IF @ = "absent" THEN @ ELSE "retained"]
    /\ UNCHANGED idle

\* The critical section otherwise: new channel, spawn_plugin, insert.  A rate
\* plugin starts from P::State::default(), so its first collect bootstraps.
Spawn(r) ==
    LET p == reqs[r].plugin IN
    /\ reqs[r].pc = "lock"
    /\ registry[p] = None
    /\ \E l \in FreeSlots :
          /\ loops' = [loops EXCEPT ![l] = [plugin |-> p, pc |-> "collect",
                          timer |-> Warmup[p], ready |-> FALSE]]
          /\ registry' = [registry EXCEPT ![p] = l]
          /\ reqs' = [reqs EXCEPT ![r].pc = "wait", ![r].loop = l,
                                  ![r].guard = Guard]
    /\ store' = [store EXCEPT ![p] = IF @ = "absent" THEN @ ELSE "retained"]
    /\ UNCHANGED idle

\* first_cycle sees true: on to the store.
SeeReady(r) ==
    /\ reqs[r].pc = "wait"
    /\ loops[reqs[r].loop].ready
    /\ reqs' = [reqs EXCEPT ![r].pc = "read", ![r].guard = 0]
    /\ UNCHANGED <<registry, store, idle, loops>>

\* app.snapshot(id).await.ok_or(Timeout)
ReadSnapshot(r) ==
    /\ reqs[r].pc = "read"
    /\ Finish(r, IF store[reqs[r].plugin] = "absent" THEN "503" ELSE "200")
    /\ UNCHANGED <<registry, store, idle, loops>>

\* Mutant of GuardExpires: the wait has no timeout around it.
NoGuard(r) == FALSE /\ UNCHANGED vars

\* Mutant of GuardExpires: an answer the route does not have.
GuardExpires504(r) ==
    /\ reqs[r].pc = "wait"
    /\ reqs[r].guard = 0
    /\ ~loops[reqs[r].loop].ready
    /\ Finish(r, "504")
    /\ UNCHANGED <<registry, store, idle, loops>>

\* timeout() polls first_cycle before its deadline, so ready wins a tie.
GuardExpires(r) ==
    /\ reqs[r].pc = "wait"
    /\ reqs[r].guard = 0
    /\ ~loops[reqs[r].loop].ready
    /\ Finish(r, "503")
    /\ UNCHANGED <<registry, store, idle, loops>>

\* changed() fails: the sender was dropped without ever publishing.
SenderGone(r) ==
    /\ reqs[r].pc = "wait"
    /\ ~loops[reqs[r].loop].ready
    /\ ~Live(reqs[r].loop)
    /\ Finish(r, "503")
    /\ UNCHANGED <<registry, store, idle, loops>>

\* The client goes away: the future is dropped at whatever .await it is at.
Cancel(r) ==
    /\ reqs[r].pc \in {"lock", "wait", "read"}
    /\ reqs' = [reqs EXCEPT ![r] = NoRequest]
    /\ UNCHANGED <<registry, store, idle, loops>>

\* The answer is sent and the slot serves another call.
Deliver(r) ==
    /\ reqs[r].pc = "done"
    /\ reqs' = [reqs EXCEPT ![r] = NoRequest]
    /\ UNCHANGED <<registry, store, idle, loops>>

-----------------------------------------------------------------------------
(* plugin_loop *)

\* Mutant of Collected: ready is sent before the cycle is published.
CollectedSignalsEarly(l) ==
    /\ loops[l].pc = "collect"
    /\ loops[l].timer = 0
    /\ loops' = [loops EXCEPT ![l].pc = "publish", ![l].ready = TRUE]
    /\ UNCHANGED <<registry, store, idle, reqs>>

\* Mutant of Collected: the idle check comes before the cycle is published.
CollectedChecksIdle(l) ==
    /\ loops[l].pc = "collect"
    /\ loops[l].timer = 0
    /\ loops' = [loops EXCEPT ![l].pc =
                   IF IdleExpired(loops[l].plugin) THEN "stop" ELSE "publish"]
    /\ UNCHANGED <<registry, store, idle, reqs>>

\* collect().await returns; observe() and the serialisation follow at once.
Collected(l) ==
    /\ loops[l].pc = "collect"
    /\ loops[l].timer = 0
    /\ loops' = [loops EXCEPT ![l].pc = "publish"]
    /\ UNCHANGED <<registry, store, idle, reqs>>

\* Mutant of Publish: the loop does not sleep between two cycles.
PublishNoSleep(l) ==
    LET p == loops[l].plugin IN
    /\ loops[l].pc = "publish"
    /\ store' = [store EXCEPT ![p] = "current"]
    /\ loops' = [loops EXCEPT ![l].pc = "sleep", ![l].ready = TRUE]
    /\ reqs' = [r \in Requests |->
                  IF reqs[r].plugin = p /\ reqs[r].pc \in {"wait", "read"}
                  THEN [reqs[r] EXCEPT !.fresh = TRUE] ELSE reqs[r]]
    /\ UNCHANGED <<registry, idle>>

\* Mutant of Publish: a cycle that no request waits for is thrown away.
PublishIfAwaited(l) ==
    LET p == loops[l].plugin
        waiting == {r \in Requests : reqs[r].plugin = p /\ reqs[r].pc = "wait"}
    IN
    /\ loops[l].pc = "publish"
    /\ store' = [store EXCEPT ![p] = IF waiting = {} THEN @ ELSE "current"]
    /\ loops' = [loops EXCEPT ![l].pc = "sleep", ![l].timer = Refresh[p],
                              ![l].ready = @ \/ waiting # {}]
    /\ reqs' = [r \in Requests |->
                  IF r \in waiting THEN [reqs[r] EXCEPT !.fresh = TRUE] ELSE reqs[r]]
    /\ UNCHANGED <<registry, idle>>

\* publish() gets the store's write lock; ready.send_replace(true) follows
\* with no .await between, and the loop goes to sleep.
Publish(l) ==
    LET p == loops[l].plugin IN
    /\ loops[l].pc = "publish"
    /\ store' = [store EXCEPT ![p] = "current"]
    /\ loops' = [loops EXCEPT ![l].pc = "sleep", ![l].ready = TRUE,
                              ![l].timer = Refresh[p]]
    \* history: the requests that waited for this cycle
    /\ reqs' = [r \in Requests |->
                  IF reqs[r].plugin = p /\ reqs[r].pc \in {"wait", "read"}
                  THEN [reqs[r] EXCEPT !.fresh = TRUE] ELSE reqs[r]]
    /\ UNCHANGED <<registry, idle>>

\* Mutant of Wake: the loop never checks whether it is idle.
WakeForever(l) ==
    /\ loops[l].pc = "sleep"
    /\ loops[l].timer = 0
    /\ loops' = [loops EXCEPT ![l].pc = "collect"]
    /\ UNCHANGED <<registry, store, idle, reqs>>

\* The sleep ends: the unlocked idle check decides what comes next.
Wake(l) ==
    /\ loops[l].pc = "sleep"
    /\ loops[l].timer = 0
    /\ loops' = [loops EXCEPT ![l].pc =
                   IF IdleExpired(loops[l].plugin) THEN "stop" ELSE "collect"]
    /\ UNCHANGED <<registry, store, idle, reqs>>

\* Mutant of StopOrContinue: idleness is not re-checked under the lock.
StopUnchecked(l) ==
    /\ loops[l].pc = "stop"
    /\ registry' = [registry EXCEPT ![loops[l].plugin] = None]
    /\ loops' = [loops EXCEPT ![l].pc = "done"]
    /\ UNCHANGED <<store, idle, reqs>>

\* Mutant of StopOrContinue: the loop returns without removing its entry.
StopLeavesEntry(l) ==
    /\ loops[l].pc = "stop"
    /\ IdleExpired(loops[l].plugin)
    /\ loops' = [loops EXCEPT ![l].pc = "done"]
    /\ UNCHANGED <<registry, store, idle, reqs>>

\* Mutant of StopOrContinue: the entry is removed but the loop goes on.
StopKeepsRunning(l) ==
    /\ loops[l].pc = "stop"
    /\ IdleExpired(loops[l].plugin)
    /\ registry' = [registry EXCEPT ![loops[l].plugin] = None]
    /\ loops' = [loops EXCEPT ![l].pc = "collect"]
    /\ UNCHANGED <<store, idle, reqs>>

\* Mutant of StopOrContinue: the snapshot is dropped with the collector.
StopClearsStore(l) ==
    LET p == loops[l].plugin IN
    /\ loops[l].pc = "stop"
    /\ IdleExpired(p)
    /\ registry' = [registry EXCEPT ![p] = None]
    /\ store' = [store EXCEPT ![p] = "absent"]
    /\ loops' = [loops EXCEPT ![l].pc = "done"]
    /\ UNCHANGED <<idle, reqs>>

\* The registry lock is taken and the idle check repeated under it.
StopOrContinue(l) ==
    LET p == loops[l].plugin IN
    /\ loops[l].pc = "stop"
    /\ \/ /\ IdleExpired(p)
          /\ registry' = [registry EXCEPT ![p] = None]
          /\ loops' = [loops EXCEPT ![l].pc = "done"]
       \/ /\ ~IdleExpired(p)
          /\ loops' = [loops EXCEPT ![l].pc = "collect"]
          /\ UNCHANGED registry
    /\ UNCHANGED <<store, idle, reqs>>

\* A cycle panics in a build that unwinds (dev, test): the task dies, its
\* sender is dropped, the registry entry stays.
Panic(l) ==
    /\ loops[l].pc = "collect"
    /\ loops[l].plugin \in Panicking
    /\ loops' = [loops EXCEPT ![l].pc = "done", ![l].timer = 0]
    /\ UNCHANGED <<registry, store, idle, reqs>>

-----------------------------------------------------------------------------

Decrement(n) == IF n > 0 THEN n - 1 ELSE 0

Tick ==
    /\ idle' = [p \in Plugins |->
                  IF IdleExpired(p) THEN idle[p] ELSE idle[p] + 1]
    /\ loops' = [l \in Loops |->
                   [loops[l] EXCEPT !.timer = Decrement(@)]]
    /\ reqs' = [r \in Requests |->
                  [reqs[r] EXCEPT !.guard = Decrement(@)]]
    /\ UNCHANGED <<registry, store>>

RequestStep(r) ==
    \/ Join(r) \/ Spawn(r) \/ SeeReady(r) \/ ReadSnapshot(r)
    \/ GuardExpires(r) \/ SenderGone(r)

ClientStep(r) ==
    \/ \E p \in Plugins : Call(r, p)
    \/ Cancel(r)
    \/ Deliver(r)

LoopStep(l) ==
    \/ Collected(l) \/ Publish(l) \/ Wake(l) \/ StopOrContinue(l) \/ Panic(l)

Next ==
    \/ \E r \in Requests : ClientStep(r) \/ RequestStep(r)
    \/ \E l \in Loops : LoopStep(l)
    \/ Tick

Spec == Init /\ [][Next]_vars

(***************************************************************************)
(* The runtime polls every ready task and every elapsed timer, and time    *)
(* passes.  Clients owe nothing, and a source read may hang for ever, so   *)
(* there is no fairness on Collected.                                      *)
(***************************************************************************)
SpecFair ==
    /\ Spec
    /\ WF_vars(Tick)
    /\ \A r \in Requests : WF_vars(RequestStep(r))
    /\ \A l \in Loops : WF_vars(Publish(l) \/ Wake(l) \/ StopOrContinue(l))

-----------------------------------------------------------------------------
(* Properties *)

TypeOK ==
    /\ registry \in [Plugins -> Loops \cup {None}]
    /\ store \in [Plugins -> Snapshot]
    /\ idle \in [Plugins -> Nat]
    /\ loops \in [Loops -> Loop]
    /\ reqs \in [Requests -> Request]

(***************************************************************************)
(* "the registry the single source of truth" (collector.rs:7): whatever    *)
(* wakes, stops and cancelled requests interleave, every running loop is   *)
(* the one registered for its plugin.  So a plugin never has two           *)
(* collectors, and the loop is the store's only writer (state.rs:72).      *)
(***************************************************************************)
SoleCollector ==
    \A l \in Loops : Live(l) => registry[loops[l].plugin] = l

(***************************************************************************)
(* The other half, for plugins whose cycles do not panic: an entry always  *)
(* has a running loop of that plugin, so joining it is never in vain.      *)
(***************************************************************************)
NoDeadEntry ==
    \A p \in Plugins \ Panicking :
        registry[p] # None => /\ Live(registry[p])
                              /\ loops[registry[p]].plugin = p

(***************************************************************************)
(* A request still waiting for the first cycle waits on the loop that is   *)
(* registered, and that runs unless it panicked: it cannot idle out under  *)
(* the waiter, however long the cycle takes and however old the last touch.*)
(***************************************************************************)
NoOrphanedWaiter ==
    \A r \in Requests :
        /\ reqs[r].pc = "wait"
        /\ ~loops[reqs[r].loop].ready
        => /\ registry[reqs[r].plugin] = reqs[r].loop
           /\ reqs[r].plugin \notin Panicking => Live(reqs[r].loop)

(***************************************************************************)
(* The answer tells what happened: 200 only with a cycle published since   *)
(* the wake-up the request joined (never empty, never a body retained from *)
(* an earlier activity period), 503 only when there was none, 404 exactly  *)
(* for disabled plugins.                                                   *)
(***************************************************************************)
HonestAnswers ==
    \A r \in Requests :
        /\ reqs[r].answer = "200" => reqs[r].fresh
        /\ reqs[r].answer = "503" => ~reqs[r].fresh
        /\ reqs[r].pc = "done" =>
              (reqs[r].answer = "404" <=> reqs[r].plugin \notin Enabled)

(***************************************************************************)
(* A collector stops only when no request touched the plugin for a whole   *)
(* idle timeout, as seen at the very step that removes it (not when the    *)
(* unlocked check ran), and never before it published a cycle, even if the *)
(* request that woke it is gone.                                           *)
(***************************************************************************)
StopsOnlyWhenIdle ==
    [][\A p \in Plugins : registry[p] # None /\ registry'[p] = None
          => IdleExpired(p) /\ store[p] = "current"]_vars

(***************************************************************************)
(* The visible store of a plugin changes only while a collector of it is   *)
(* registered (that this is the writer is SoleCollector), and a snapshot,  *)
(* once there, survives every stop (state.rs:79).                          *)
(***************************************************************************)
StoreKeptByItsCollector ==
    [][\A p \in Plugins : store'[p] # store[p]
          => /\ registry'[p] # None
             /\ store'[p] # "absent"]_vars

(***************************************************************************)
(* The tasks, the registry, the channel and the store together implement   *)
(* the per-plugin state machine of LazyCollection.                         *)
(***************************************************************************)
Phase(p) ==
    IF registry[p] = None THEN "asleep"
    ELSE IF store[p] = "current" THEN "working" ELSE "waking"

Stage(pc) == CASE pc = "idle" -> "none"
               [] pc = "lock" -> "asked"
               [] pc \in {"wait", "read"} -> "pending"
               [] pc = "done" -> "answered"

CallState(q) == [at |-> Stage(q.pc), plugin |-> q.plugin,
                 served |-> q.fresh, answer |-> q.answer]

AllPhases == [p \in Plugins |-> Phase(p)]

AllCalls == [r \in Requests |-> CallState(reqs[r])]

Lazy == INSTANCE LazyCollection WITH
    Timeout <- [p \in Plugins |-> IdleTimeout(p)],
    phase <- AllPhases,
    quiet <- idle,
    call <- AllCalls

LazySpec == Lazy!Spec

(***************************************************************************)
(* The guard timeout bounds every call: a call is answered (or the client  *)
(* leaves) even if the collection it waits for hangs for ever.             *)
(***************************************************************************)
EveryCallAnswered ==
    \A r \in Requests : reqs[r].pc = "lock" ~> reqs[r].pc \in {"idle", "done"}

(***************************************************************************)
(* The point of the lazy design: unless its source read hangs for ever, a  *)
(* collector is again and again touched by a request (idle = 0) or stopped,*)
(* so one that nobody asks for stops by itself.                            *)
(***************************************************************************)
IdleCollectorStops ==
    \A p \in Plugins : \/ []<>(registry[p] = None \/ idle[p] = 0)
                       \/ <>[]Hung(p)

(***************************************************************************)
(* A wake-up is never lost: unless its source read hangs for ever, a       *)
(* registered collector publishes a cycle of this activity period, whether *)
(* or not the request that woke it stays.                                  *)
(***************************************************************************)
WakeUpPublishes ==
    \A p \in Plugins : \/ []<>(registry[p] = None \/ store[p] = "current")
                       \/ <>[]Hung(p)
=============================================================================
