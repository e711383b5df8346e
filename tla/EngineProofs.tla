---------------------------- MODULE EngineProofs ----------------------------
(***************************************************************************)
(* Theorems about Engine, for any plugins, request slots, loop slots and   *)
(* timing constants that satisfy EngineAssumption.                         *)
(***************************************************************************)
EXTENDS Engine, TLAPS

(***************************************************************************)
(* The inductive invariant.  SoleCollector alone is not inductive: that a  *)
(* stopping loop removes its own entry, and that it publishes for the      *)
(* requests waiting on it, needs the links below.                          *)
(***************************************************************************)
LoopsMatch ==
    \A l \in Loops :
        /\ Live(l) => loops[l].plugin \in Plugins
        /\ loops[l].pc \in {"sleep", "stop"} => loops[l].ready

EntryMatches ==
    \A p \in Plugins :
        registry[p] # None =>
            /\ loops[registry[p]].plugin = p
            /\ loops[registry[p]].ready <=> store[p] = "current"

RequestOK(q) ==
    /\ q.pc = "idle" => q = NoRequest
    /\ q.pc \in {"lock", "wait", "read"} =>
          q.plugin \in Enabled /\ q.answer = "none"
    /\ q.pc = "lock" => ~q.fresh
    /\ q.pc \in {"wait", "read"} =>
          /\ q.loop \in Loops
          /\ loops[q.loop].plugin = q.plugin
          /\ q.fresh <=> loops[q.loop].ready
          /\ q.fresh => store[q.plugin] # "absent"
    /\ q.pc = "wait" /\ ~q.fresh => registry[q.plugin] = q.loop
    /\ q.pc = "read" => q.fresh
    /\ q.pc = "done" =>
          /\ q.answer # "none"
          /\ q.answer = "404" <=> q.plugin \notin Enabled
          /\ q.answer = "200" => q.fresh
          /\ q.answer = "503" => ~q.fresh

RequestsMatch == \A r \in Requests : RequestOK(reqs[r])

IInv ==
    /\ TypeOK
    /\ SoleCollector
    /\ NoDeadEntry
    /\ LoopsMatch
    /\ EntryMatches
    /\ RequestsMatch

-----------------------------------------------------------------------------
(* Facts used by several steps *)

\* The state after Init satisfies the invariant.
LEMMA InitIInv == Init => IInv
<1> SUFFICES ASSUME Init PROVE IInv
  OBVIOUS
<1>1. TypeOK
  BY DEF Init, TypeOK, Snapshot, Loop, LoopPc, NoLoop, Request, ReqPc, Answer,
         NoRequest, CallOf
<1>2. SoleCollector /\ NoDeadEntry /\ LoopsMatch /\ EntryMatches
  BY EngineAssumption DEF Init, SoleCollector, NoDeadEntry, LoopsMatch,
     EntryMatches, Live, NoLoop
<1>3. RequestsMatch
  BY DEF Init, RequestsMatch, RequestOK, NoRequest, CallOf
<1>4. QED
  BY <1>1, <1>2, <1>3 DEF IInv

\* The typed values of what a slot of `loops' or `reqs' holds.
LEMMA SlotTypes ==
    ASSUME TypeOK
    PROVE  /\ \A l \in Loops : loops[l] \in Loop
           /\ \A r \in Requests : reqs[r] \in Request
           /\ \A p \in Plugins : registry[p] \in Loops \cup {None}
BY DEF TypeOK

\* A step of ensure_plugin that leaves registry, store and loops alone
\* preserves the invariant if the request it writes is in order.
LEMMA OneRequestChanges ==
    ASSUME IInv, UNCHANGED <<registry, store, loops>>,
           idle' \in [Plugins -> Nat],
           NEW r \in Requests, NEW q \in Request, RequestOK(q),
           reqs' = [reqs EXCEPT ![r] = q]
    PROVE  IInv'
<1>1. TypeOK'
  BY DEF IInv, TypeOK
<1>2. (SoleCollector /\ NoDeadEntry /\ LoopsMatch /\ EntryMatches)'
  BY DEF IInv, SoleCollector, NoDeadEntry, LoopsMatch, EntryMatches, Live
<1>3. ASSUME NEW x \in Requests
      PROVE  RequestOK(reqs[x])'
  <2>1. reqs'[x] = q \/ reqs'[x] = reqs[x]
    BY DEF IInv, TypeOK
  <2>2. RequestOK(q)' /\ RequestOK(reqs[x])
    BY DEF IInv, RequestsMatch, RequestOK
  <2>3. QED
    BY <2>1, <2>2 DEF RequestOK
<1>4. QED
  BY <1>1, <1>2, <1>3 DEF IInv, RequestsMatch

-----------------------------------------------------------------------------
(* The steps of ensure_plugin *)

\* Call preserves the invariant.
LEMMA CallStep ==
    ASSUME IInv, NEW r \in Requests, NEW p \in Plugins, Call(r, p)
    PROVE  IInv'
<1>1. CASE p \notin Enabled
  <2>1. CallOf(p, "done", "404") \in Request
    BY DEF CallOf, Request, ReqPc, Answer
  <2>2. RequestOK(CallOf(p, "done", "404"))
    BY <1>1 DEF CallOf, RequestOK
  <2>3. reqs' = [reqs EXCEPT ![r] = CallOf(p, "done", "404")] /\ idle' = idle
    BY <1>1 DEF Call
  <2>4. QED
    BY <2>1, <2>2, <2>3, OneRequestChanges DEF Call, IInv, TypeOK
<1>2. CASE p \in Enabled
  <2>1. CallOf(p, "lock", "none") \in Request
    BY DEF CallOf, Request, ReqPc, Answer
  <2>2. RequestOK(CallOf(p, "lock", "none"))
    BY <1>2 DEF CallOf, RequestOK
  <2>3. /\ reqs' = [reqs EXCEPT ![r] = CallOf(p, "lock", "none")]
        /\ idle' = [idle EXCEPT ![p] = 0]
    BY <1>2 DEF Call
  <2>4. QED
    BY <2>1, <2>2, <2>3, OneRequestChanges DEF Call, IInv, TypeOK
<1>3. QED
  BY <1>1, <1>2

\* Join preserves the invariant.
LEMMA JoinStep ==
    ASSUME IInv, NEW r \in Requests, Join(r)
    PROVE  IInv'
<1> DEFINE p == reqs[r].plugin
           q == [reqs[r] EXCEPT !.pc = "wait", !.loop = registry[p],
                                !.guard = Guard,
                                !.fresh = (store[p] = "current")]
<1>1. /\ reqs[r] \in Request
      /\ p \in Enabled
      /\ p \in Plugins
      /\ reqs[r].answer = "none"
      /\ registry[p] \in Loops
  BY EngineAssumption, SlotTypes DEF IInv, Join, RequestsMatch, RequestOK
<1>2. q \in Request
  BY <1>1, EngineAssumption DEF Request, ReqPc
<1>3. /\ q.pc = "wait" /\ q.plugin = p /\ q.loop = registry[p]
      /\ q.answer = "none" /\ q.fresh = (store[p] = "current")
  BY <1>1 DEF Request
<1>4. /\ loops[registry[p]].plugin = p
      /\ loops[registry[p]].ready <=> store[p] = "current"
  BY <1>1 DEF IInv, EntryMatches, Join
<1>5. RequestOK(q)
  BY <1>1, <1>3, <1>4 DEF RequestOK
<1>6. reqs' = [reqs EXCEPT ![r] = q]
  BY DEF Join, IInv, TypeOK
<1>7. QED
  BY <1>2, <1>5, <1>6, OneRequestChanges DEF Join, IInv, TypeOK

\* SeeReady preserves the invariant.
LEMMA SeeReadyStep ==
    ASSUME IInv, NEW r \in Requests, SeeReady(r)
    PROVE  IInv'
<1> DEFINE q == [reqs[r] EXCEPT !.pc = "read", !.guard = 0]
<1>1. reqs[r] \in Request /\ RequestOK(reqs[r])
  BY SlotTypes DEF IInv, RequestsMatch
<1>2. q \in Request
  BY <1>1 DEF Request, ReqPc
<1>3. /\ q.pc = "read" /\ q.plugin = reqs[r].plugin /\ q.loop = reqs[r].loop
      /\ q.answer = reqs[r].answer /\ q.fresh = reqs[r].fresh
  BY <1>1 DEF Request
<1>4. RequestOK(q)
  BY <1>1, <1>3 DEF RequestOK, SeeReady
<1>5. QED
  BY <1>2, <1>4, OneRequestChanges DEF SeeReady, IInv, TypeOK

\* A call that ends with an answer RequestOK allows preserves the invariant.
LEMMA FinishStep ==
    ASSUME IInv, UNCHANGED <<registry, store, idle, loops>>,
           NEW r \in Requests, reqs[r].pc \in {"wait", "read"},
           NEW a \in {"200", "503"}, a = "200" <=> reqs[r].fresh,
           Finish(r, a)
    PROVE  IInv'
<1> DEFINE q == [reqs[r] EXCEPT !.pc = "done", !.answer = a, !.guard = 0]
<1>1. reqs[r] \in Request /\ RequestOK(reqs[r])
  BY SlotTypes DEF IInv, RequestsMatch
<1>2. q \in Request
  BY <1>1 DEF Request, ReqPc, Answer
<1>3. /\ q.pc = "done" /\ q.plugin = reqs[r].plugin
      /\ q.answer = a /\ q.fresh = reqs[r].fresh
  BY <1>1 DEF Request
<1>4. RequestOK(q)
  BY <1>1, <1>3 DEF RequestOK
<1>5. reqs' = [reqs EXCEPT ![r] = q]
  BY DEF Finish, IInv, TypeOK
<1>6. QED
  BY <1>2, <1>4, <1>5, OneRequestChanges DEF IInv, TypeOK

\* ReadSnapshot preserves the invariant: it never finds the store empty.
LEMMA ReadSnapshotStep ==
    ASSUME IInv, NEW r \in Requests, ReadSnapshot(r)
    PROVE  IInv'
<1>1. reqs[r].fresh /\ store[reqs[r].plugin] # "absent"
  BY DEF IInv, RequestsMatch, RequestOK, ReadSnapshot
<1>2. QED
  BY <1>1, FinishStep DEF ReadSnapshot

\* The two ways to 503 preserve the invariant.
LEMMA TimeoutStep ==
    ASSUME IInv, NEW r \in Requests, GuardExpires(r) \/ SenderGone(r)
    PROVE  IInv'
<1>1. reqs[r].pc = "wait" /\ ~reqs[r].fresh
  BY DEF IInv, RequestsMatch, RequestOK, GuardExpires, SenderGone
<1>2. QED
  BY <1>1, FinishStep DEF GuardExpires, SenderGone

\* Cancel and Deliver preserve the invariant.
LEMMA LeaveStep ==
    ASSUME IInv, NEW r \in Requests, Cancel(r) \/ Deliver(r)
    PROVE  IInv'
<1>1. NoRequest \in Request
  BY DEF NoRequest, CallOf, Request, ReqPc, Answer
<1>2. RequestOK(NoRequest)
  BY DEF RequestOK, NoRequest, CallOf
<1>3. QED
  BY <1>1, <1>2, OneRequestChanges DEF Cancel, Deliver, IInv, TypeOK

\* Spawn preserves the invariant.
LEMMA SpawnStep ==
    ASSUME IInv, NEW r \in Requests, Spawn(r)
    PROVE  IInv'
<1> DEFINE p == reqs[r].plugin
<1>1. /\ reqs[r] \in Request /\ RequestOK(reqs[r])
      /\ p \in Enabled /\ p \in Plugins
      /\ registry[p] = None /\ reqs[r].pc = "lock"
  BY EngineAssumption, SlotTypes DEF IInv, Spawn, RequestsMatch, RequestOK
<1>2. PICK l \in FreeSlots :
        /\ loops' = [loops EXCEPT ![l] = [plugin |-> p, pc |-> "collect",
                       timer |-> Warmup[p], ready |-> FALSE]]
        /\ registry' = [registry EXCEPT ![p] = l]
        /\ reqs' = [reqs EXCEPT ![r].pc = "wait", ![r].loop = l,
                                ![r].guard = Guard]
  BY DEF Spawn
<1> DEFINE q == [reqs[r] EXCEPT !.pc = "wait", !.loop = l, !.guard = Guard]
           s == IF store[p] = "absent" THEN "absent" ELSE "retained"
<1>3. /\ l \in Loops /\ ~Live(l) /\ l # None
      /\ \A x \in Plugins : registry[x] # l
      /\ \A x \in Requests : reqs[x].loop # l
  BY EngineAssumption DEF FreeSlots
<1>4. q \in Request
  BY <1>1, <1>3, EngineAssumption DEF Request, ReqPc
<1>5. reqs' = [reqs EXCEPT ![r] = q] /\ store' = [store EXCEPT ![p] = s]
  BY <1>2 DEF Spawn, IInv, TypeOK
<1>6. [plugin |-> p, pc |-> "collect", timer |-> Warmup[p], ready |-> FALSE]
        \in Loop
  BY <1>1, EngineAssumption DEF Loop, LoopPc
<1>7. TypeOK'
  <2>1. /\ registry' \in [Plugins -> Loops \cup {None}]
        /\ loops' \in [Loops -> Loop]
        /\ idle' = idle
    BY <1>2, <1>3, <1>6 DEF Spawn, IInv, TypeOK
  <2>2. store' \in [Plugins -> Snapshot]
    BY <1>5 DEF IInv, TypeOK, Snapshot
  <2>3. reqs' \in [Requests -> Request]
    BY <1>4, <1>5 DEF IInv, TypeOK
  <2>4. QED
    BY <2>1, <2>2, <2>3 DEF IInv, TypeOK
<1>8. /\ loops'[l].plugin = p /\ loops'[l].pc = "collect" /\ ~loops'[l].ready
      /\ \A k \in Loops : k # l => loops'[k] = loops[k]
      /\ registry'[p] = l
      /\ \A x \in Plugins : x # p => /\ registry'[x] = registry[x]
                                     /\ store'[x] = store[x]
      /\ store'[p] # "current"
      /\ store[p] # "absent" => store'[p] # "absent"
  BY <1>1, <1>2, <1>3, <1>5 DEF IInv, TypeOK
<1>9. SoleCollector'
  <2> SUFFICES ASSUME NEW k \in Loops, loops'[k].pc # "done"
               PROVE  registry'[loops'[k].plugin] = k
    BY DEF SoleCollector, Live
  <2>1. CASE k = l
    BY <1>8, <2>1
  <2>2. CASE k # l
    <3>1. /\ Live(k) /\ loops'[k] = loops[k]
          /\ loops[k].plugin \in Plugins /\ registry[loops[k].plugin] = k
      BY <1>8, <2>2 DEF IInv, SoleCollector, LoopsMatch, Live
    <3>2. loops[k].plugin # p
      BY <1>1, <3>1, EngineAssumption
    <3>3. QED
      BY <1>8, <3>1, <3>2
  <2>3. QED
    BY <2>1, <2>2
<1>10. (NoDeadEntry /\ EntryMatches)'
  BY <1>3, <1>8, SlotTypes DEF IInv, NoDeadEntry, EntryMatches, Live
<1>11. LoopsMatch'
  BY <1>1, <1>8 DEF IInv, LoopsMatch, Live
<1>12. ASSUME NEW x \in Requests
       PROVE  RequestOK(reqs[x])'
  <2>1. CASE x = r
    <3>1. /\ reqs'[x] = q /\ q.pc = "wait" /\ q.plugin = p /\ q.loop = l
          /\ q.answer = reqs[r].answer /\ q.fresh = reqs[r].fresh
      BY <1>1, <1>5, <2>1 DEF Request, IInv, TypeOK
    <3>2. QED
      BY <1>1, <1>3, <1>8, <3>1 DEF RequestOK
  <2>2. CASE x # r
    <3>1. reqs'[x] = reqs[x] /\ RequestOK(reqs[x]) /\ reqs[x].loop # l
      BY <1>3, <1>5, <2>2 DEF IInv, TypeOK, RequestsMatch
    <3>2. QED
      BY <1>1, <1>3, <1>8, <3>1, EngineAssumption DEF RequestOK
  <2>3. QED
    BY <2>1, <2>2
<1>13. QED
  BY <1>7, <1>9, <1>10, <1>11, <1>12 DEF IInv, RequestsMatch

-----------------------------------------------------------------------------
(* The steps of plugin_loop *)

\* A step that only moves one running loop between program points keeps the
\* invariant, as long as it goes to sleep or stop only with a cycle published.
LEMMA LoopMoves ==
    ASSUME IInv, UNCHANGED <<registry, store, idle, reqs>>,
           NEW l \in Loops, Live(l), NEW c \in LoopPc \ {"done"},
           c \in {"sleep", "stop"} => loops[l].ready,
           loops' = [loops EXCEPT ![l].pc = c]
    PROVE  IInv'
<1>1. loops[l] \in Loop
  BY SlotTypes DEF IInv
<1>2. TypeOK'
  BY <1>1 DEF IInv, TypeOK, Loop
<1>3. \A k \in Loops : /\ loops'[k].plugin = loops[k].plugin
                       /\ loops'[k].ready = loops[k].ready
                       /\ loops'[k].pc = IF k = l THEN c ELSE loops[k].pc
  BY <1>1 DEF IInv, TypeOK, Loop
<1>4. (SoleCollector /\ NoDeadEntry /\ LoopsMatch /\ EntryMatches)'
  BY <1>3, SlotTypes
     DEF IInv, SoleCollector, NoDeadEntry, LoopsMatch, EntryMatches, Live
<1>5. RequestsMatch'
  BY <1>3 DEF IInv, RequestsMatch, RequestOK
<1>6. QED
  BY <1>2, <1>4, <1>5 DEF IInv

\* Collected preserves the invariant.
LEMMA CollectedStep ==
    ASSUME IInv, NEW l \in Loops, Collected(l)
    PROVE  IInv'
BY LoopMoves DEF Collected, Live, LoopPc

\* Wake preserves the invariant.
LEMMA WakeStep ==
    ASSUME IInv, NEW l \in Loops, Wake(l)
    PROVE  IInv'
<1>1. Live(l) /\ loops[l].ready
  BY DEF IInv, LoopsMatch, Wake, Live
<1>2. QED
  BY <1>1, LoopMoves DEF Wake, LoopPc

\* Publish preserves the invariant.
LEMMA PublishStep ==
    ASSUME IInv, NEW l \in Loops, Publish(l)
    PROVE  IInv'
<1> DEFINE p == loops[l].plugin
<1>1. /\ Live(l) /\ p \in Plugins /\ registry[p] = l
      /\ loops[l] \in Loop /\ l # None
  BY EngineAssumption, SlotTypes
     DEF IInv, Publish, LoopsMatch, SoleCollector, Live
<1>2. TypeOK'
  <2>1. loops' \in [Loops -> Loop]
    BY <1>1, EngineAssumption DEF Publish, IInv, TypeOK, Loop, LoopPc
  <2>2. reqs' \in [Requests -> Request]
    BY DEF Publish, IInv, TypeOK, Request
  <2>3. QED
    BY <1>1, <2>1, <2>2 DEF Publish, IInv, TypeOK, Snapshot
<1>3. /\ \A k \in Loops : /\ loops'[k].plugin = loops[k].plugin
                          /\ k # l => loops'[k] = loops[k]
      /\ loops'[l].ready /\ loops'[l].pc = "sleep"
      /\ store'[p] = "current"
      /\ \A x \in Plugins : x # p => store'[x] = store[x]
      /\ registry' = registry
  BY <1>1 DEF Publish, IInv, TypeOK, Loop
<1>4. (SoleCollector /\ NoDeadEntry /\ LoopsMatch /\ EntryMatches)'
  BY <1>1, <1>3, SlotTypes
     DEF IInv, SoleCollector, NoDeadEntry, LoopsMatch, EntryMatches, Live
<1>5. ASSUME NEW x \in Requests
      PROVE  RequestOK(reqs[x])'
  <2>1. reqs[x] \in Request /\ RequestOK(reqs[x])
    BY SlotTypes DEF IInv, RequestsMatch
  <2>2. CASE reqs[x].plugin = p /\ reqs[x].pc \in {"wait", "read"}
    <3>1. /\ reqs'[x].fresh
          /\ reqs'[x].pc = reqs[x].pc /\ reqs'[x].plugin = p
          /\ reqs'[x].loop = reqs[x].loop /\ reqs'[x].answer = reqs[x].answer
      BY <2>1, <2>2 DEF Publish, Request
    <3>2. loops'[reqs[x].loop].ready
      BY <1>1, <1>3, <2>1, <2>2 DEF RequestOK
    <3>3. QED
      BY <1>3, <2>1, <2>2, <3>1, <3>2 DEF RequestOK
  <2>3. CASE ~(reqs[x].plugin = p /\ reqs[x].pc \in {"wait", "read"})
    <3>1. reqs'[x] = reqs[x]
      BY <2>3 DEF Publish
    <3>2. reqs[x].pc \in {"wait", "read"} => reqs[x].loop # l
      BY <2>1, <2>3 DEF RequestOK
    <3>3. QED
      BY <1>3, <2>1, <3>1, <3>2, EngineAssumption DEF RequestOK
  <2>4. QED
    BY <2>2, <2>3
<1>6. QED
  BY <1>2, <1>4, <1>5 DEF IInv, RequestsMatch

\* StopOrContinue preserves the invariant.
LEMMA StopOrContinueStep ==
    ASSUME IInv, NEW l \in Loops, StopOrContinue(l)
    PROVE  IInv'
<1> DEFINE p == loops[l].plugin
<1>1. /\ Live(l) /\ p \in Plugins /\ registry[p] = l
      /\ loops[l] \in Loop /\ loops[l].ready /\ l # None
  BY EngineAssumption, SlotTypes
     DEF IInv, StopOrContinue, LoopsMatch, SoleCollector, Live
<1>2. CASE ~IdleExpired(p)
  BY <1>1, <1>2, LoopMoves DEF StopOrContinue, LoopPc
<1>3. CASE IdleExpired(p)
  <2>1. /\ registry' = [registry EXCEPT ![p] = None]
        /\ loops' = [loops EXCEPT ![l].pc = "done"]
        /\ UNCHANGED <<store, idle, reqs>>
    BY <1>3 DEF StopOrContinue
  <2>2. TypeOK'
    BY <1>1, <2>1 DEF IInv, TypeOK, Loop, LoopPc
  <2>3. /\ \A k \in Loops : /\ loops'[k].plugin = loops[k].plugin
                            /\ loops'[k].ready = loops[k].ready
                            /\ k # l => loops'[k].pc = loops[k].pc
        /\ loops'[l].pc = "done"
        /\ registry'[p] = None
        /\ \A x \in Plugins : x # p => registry'[x] = registry[x]
    BY <1>1, <2>1 DEF IInv, TypeOK, Loop
  <2>4. (SoleCollector /\ NoDeadEntry /\ LoopsMatch /\ EntryMatches)'
    BY <1>1, <2>1, <2>3, SlotTypes
       DEF IInv, SoleCollector, NoDeadEntry, LoopsMatch, EntryMatches, Live
  <2>5. ASSUME NEW x \in Requests
        PROVE  RequestOK(reqs[x])'
    <3>1. reqs'[x] = reqs[x] /\ RequestOK(reqs[x])
      BY <2>1 DEF IInv, RequestsMatch
    <3>2. reqs[x].pc = "wait" /\ ~reqs[x].fresh => reqs[x].plugin # p
      BY <1>1, <3>1 DEF RequestOK
    <3>3. QED
      BY <2>1, <2>3, <3>1, <3>2, EngineAssumption DEF RequestOK
  <2>6. QED
    BY <2>2, <2>4, <2>5 DEF IInv, RequestsMatch
<1>4. QED
  BY <1>2, <1>3

\* Panic preserves the invariant: NoDeadEntry says nothing of such plugins.
LEMMA PanicStep ==
    ASSUME IInv, NEW l \in Loops, Panic(l)
    PROVE  IInv'
<1>1. loops[l] \in Loop
  BY SlotTypes DEF IInv
<1>2. [loops[l] EXCEPT !.pc = "done", !.timer = 0] \in Loop
  BY <1>1 DEF Loop, LoopPc
<1>3. TypeOK'
  BY <1>1, <1>2 DEF Panic, IInv, TypeOK
<1>4. /\ \A k \in Loops : /\ loops'[k].plugin = loops[k].plugin
                          /\ loops'[k].ready = loops[k].ready
                          /\ k # l => loops'[k].pc = loops[k].pc
      /\ loops'[l].pc = "done" /\ loops[l].plugin \in Panicking
      /\ UNCHANGED <<registry, store, reqs>>
  BY <1>1 DEF Panic, IInv, TypeOK, Loop
<1>5. (SoleCollector /\ NoDeadEntry /\ LoopsMatch /\ EntryMatches)'
  BY <1>4, SlotTypes
     DEF IInv, SoleCollector, NoDeadEntry, LoopsMatch, EntryMatches, Live
<1>6. RequestsMatch'
  BY <1>4 DEF IInv, RequestsMatch, RequestOK
<1>7. QED
  BY <1>3, <1>5, <1>6 DEF IInv

\* Tick preserves the invariant.
LEMMA TickStep ==
    ASSUME IInv, Tick
    PROVE  IInv'
<1>1. \A n \in Nat : Decrement(n) \in Nat
  BY DEF Decrement
<1>2. ASSUME NEW l \in Loops
      PROVE  /\ loops'[l] \in Loop
             /\ loops'[l].pc = loops[l].pc
             /\ loops'[l].plugin = loops[l].plugin
             /\ loops'[l].ready = loops[l].ready
  BY <1>1, SlotTypes DEF IInv, Tick, Loop
<1>3. ASSUME NEW r \in Requests
      PROVE  /\ reqs'[r] \in Request
             /\ reqs'[r] = [reqs[r] EXCEPT !.guard = Decrement(@)]
  BY <1>1, SlotTypes DEF IInv, Tick, Request
<1>4. TypeOK'
  BY <1>2, <1>3 DEF Tick, IInv, TypeOK
<1>5. (SoleCollector /\ NoDeadEntry /\ LoopsMatch /\ EntryMatches)'
  <2>1. registry' = registry /\ store' = store
    BY DEF Tick
  <2>2. (SoleCollector /\ LoopsMatch)'
    BY <1>2, <2>1 DEF IInv, SoleCollector, LoopsMatch, Live
  <2>3. (NoDeadEntry /\ EntryMatches)'
    BY <1>2, <2>1, SlotTypes DEF IInv, NoDeadEntry, EntryMatches, Live
  <2>4. QED
    BY <2>2, <2>3
<1>6. ASSUME NEW r \in Requests
      PROVE  RequestOK(reqs[r])'
  <2>1. reqs[r] \in Request /\ RequestOK(reqs[r])
    BY SlotTypes DEF IInv, RequestsMatch
  <2>2. /\ reqs'[r].pc = reqs[r].pc /\ reqs'[r].plugin = reqs[r].plugin
        /\ reqs'[r].loop = reqs[r].loop /\ reqs'[r].fresh = reqs[r].fresh
        /\ reqs'[r].answer = reqs[r].answer
    BY <1>3, <2>1 DEF Request
  <2>3. reqs[r].pc = "idle" => reqs'[r] = NoRequest
    BY <1>3, <2>1 DEF RequestOK, NoRequest, CallOf, Decrement
  <2>4. QED
    BY <1>2, <2>1, <2>2, <2>3 DEF RequestOK, Tick
<1>7. QED
  BY <1>4, <1>5, <1>6 DEF IInv, RequestsMatch

-----------------------------------------------------------------------------
(* The invariant and the safety properties *)

\* Every step preserves the inductive invariant: one step per action.
LEMMA NextIInv == IInv /\ [Next]_vars => IInv'
<1> SUFFICES ASSUME IInv, [Next]_vars PROVE IInv'
  OBVIOUS
<1>1. CASE UNCHANGED vars
  BY <1>1 DEF vars, IInv, TypeOK, SoleCollector, NoDeadEntry, LoopsMatch,
     EntryMatches, RequestsMatch, RequestOK, Live
<1>2. ASSUME NEW r \in Requests, ClientStep(r) \/ RequestStep(r)
      PROVE  IInv'
  BY <1>2, CallStep, JoinStep, SpawnStep, SeeReadyStep, ReadSnapshotStep,
     TimeoutStep, LeaveStep DEF ClientStep, RequestStep
<1>3. ASSUME NEW l \in Loops, LoopStep(l)
      PROVE  IInv'
  BY <1>3, CollectedStep, PublishStep, WakeStep, StopOrContinueStep, PanicStep
     DEF LoopStep
<1>4. QED
  BY <1>1, <1>2, <1>3, TickStep DEF Next

(***************************************************************************)
(* The engine's invariant: registry, tasks, channels, store and waiting    *)
(* requests agree in every reachable state.                                *)
(***************************************************************************)
THEOREM EngineInvariant == Spec => []IInv
BY InitIInv, NextIInv, PTL DEF Spec

(***************************************************************************)
(* Every variable keeps its type.                                          *)
(***************************************************************************)
THEOREM EngineTypes == Spec => []TypeOK
<1>1. IInv => TypeOK
  BY DEF IInv
<1>2. QED
  BY <1>1, EngineInvariant, PTL

(***************************************************************************)
(* At most one collector per plugin, the registered one                    *)
(* (collector.rs:3-14).                                                    *)
(***************************************************************************)
THEOREM OneCollectorPerPlugin == Spec => []SoleCollector
<1>1. IInv => SoleCollector
  BY DEF IInv
<1>2. QED
  BY <1>1, EngineInvariant, PTL

(***************************************************************************)
(* No registry entry without its running task (collector.rs:52-59), for    *)
(* plugins whose cycles do not panic.                                      *)
(***************************************************************************)
THEOREM EntriesAreAlive == Spec => []NoDeadEntry
<1>1. IInv => NoDeadEntry
  BY DEF IInv
<1>2. QED
  BY <1>1, EngineInvariant, PTL

(***************************************************************************)
(* No collector idles out under a request that waits for its first cycle.  *)
(***************************************************************************)
THEOREM WaitersKeepTheirLoop == Spec => []NoOrphanedWaiter
<1>1. IInv => NoOrphanedWaiter
  <2> SUFFICES ASSUME IInv, NEW r \in Requests, reqs[r].pc = "wait",
                      ~loops[reqs[r].loop].ready
               PROVE  /\ registry[reqs[r].plugin] = reqs[r].loop
                      /\ reqs[r].plugin \notin Panicking => Live(reqs[r].loop)
    BY DEF NoOrphanedWaiter
  <2>1. /\ reqs[r].loop \in Loops /\ reqs[r].plugin \in Plugins
        /\ registry[reqs[r].plugin] = reqs[r].loop
    BY EngineAssumption DEF IInv, RequestsMatch, RequestOK
  <2>2. QED
    BY <2>1, EngineAssumption DEF IInv, NoDeadEntry
<1>2. QED
  BY <1>1, EngineInvariant, PTL

(***************************************************************************)
(* 200 only with a cycle of the joined period, 503 only without one, 404   *)
(* exactly for disabled plugins (collector.rs:80-84, docs/api.md:45).      *)
(***************************************************************************)
THEOREM AnswersAreHonest == Spec => []HonestAnswers
<1>1. IInv => HonestAnswers
  <2> SUFFICES ASSUME IInv, NEW r \in Requests
               PROVE  /\ reqs[r].answer = "200" => reqs[r].fresh
                      /\ reqs[r].answer = "503" => ~reqs[r].fresh
                      /\ reqs[r].pc = "done" =>
                           (reqs[r].answer = "404"
                              <=> reqs[r].plugin \notin Enabled)
    BY DEF HonestAnswers
  <2>1. reqs[r] \in Request /\ RequestOK(reqs[r])
    BY SlotTypes DEF IInv, RequestsMatch
  <2>2. QED
    BY <2>1 DEF RequestOK, Request, ReqPc, NoRequest, CallOf
<1>2. QED
  BY <1>1, EngineInvariant, PTL

-----------------------------------------------------------------------------
(* Action properties *)

\* Which steps touch the registry and the store, and how.
LEMMA SharedStateSteps ==
    ASSUME IInv, [Next]_vars, NEW p \in Plugins
    PROVE  /\ registry[p] # None /\ registry'[p] = None =>
                 IdleExpired(p) /\ store[p] = "current"
           /\ store'[p] # store[p] =>
                 registry'[p] # None /\ store'[p] # "absent"
<1> USE DEF IInv
<1>1. CASE UNCHANGED <<registry, store>>
  BY <1>1
<1>2. ASSUME NEW r \in Requests, Spawn(r)
      PROVE  /\ registry[p] # None => registry'[p] # None
             /\ store'[p] # store[p] =>
                   registry'[p] # None /\ store'[p] # "absent"
  BY <1>2, EngineAssumption DEF Spawn, FreeSlots, TypeOK
<1>3. ASSUME NEW l \in Loops, Publish(l)
      PROVE  /\ registry' = registry
             /\ store'[p] # store[p] =>
                   registry'[p] # None /\ store'[p] # "absent"
  BY <1>3, EngineAssumption
     DEF Publish, TypeOK, SoleCollector, LoopsMatch, Live
<1>4. ASSUME NEW l \in Loops, StopOrContinue(l)
      PROVE  /\ store' = store
             /\ registry[p] # None /\ registry'[p] = None =>
                   IdleExpired(p) /\ store[p] = "current"
  <2>1. /\ registry[loops[l].plugin] = l /\ loops[l].plugin \in Plugins
        /\ loops[l].ready /\ l # None
    BY <1>4, EngineAssumption
       DEF StopOrContinue, SoleCollector, LoopsMatch, Live
  <2>2. store[loops[l].plugin] = "current"
    BY <2>1 DEF EntryMatches
  <2>3. QED
    BY <1>4, <2>2 DEF StopOrContinue, TypeOK
<1>5. QED
  BY <1>1, <1>2, <1>3, <1>4
     DEF Next, vars, ClientStep, RequestStep, LoopStep, Call, Join, SeeReady,
         ReadSnapshot, GuardExpires, SenderGone, Cancel, Deliver, Collected,
         Wake, Panic, Tick

(***************************************************************************)
(* A collector is removed only after a whole idle timeout without a touch, *)
(* as of the removing step, and only once it has published.                *)
(***************************************************************************)
THEOREM CollectorsStopOnlyWhenIdle == Spec => StopsOnlyWhenIdle
<1>1. IInv /\ [Next]_vars =>
        [\A p \in Plugins : registry[p] # None /\ registry'[p] = None
            => IdleExpired(p) /\ store[p] = "current"]_vars
  BY SharedStateSteps
<1>2. QED
  BY <1>1, EngineInvariant, PTL DEF Spec, StopsOnlyWhenIdle

(***************************************************************************)
(* The store of a plugin changes only while a collector of it is           *)
(* registered, and never back to empty.                                    *)
(***************************************************************************)
THEOREM StoreKept == Spec => StoreKeptByItsCollector
<1>1. IInv /\ [Next]_vars =>
        [\A p \in Plugins : store'[p] # store[p]
            => /\ registry'[p] # None
               /\ store'[p] # "absent"]_vars
  BY SharedStateSteps
<1>2. QED
  BY <1>1, EngineInvariant, PTL DEF Spec, StoreKeptByItsCollector

-----------------------------------------------------------------------------
(***************************************************************************)
(* The engine implements LazyCollection.  A step of one request is a step  *)
(* of one call; what the loop does is FirstCycle, Rest or invisible.       *)
(***************************************************************************)

\* The initial states correspond.
LEMMA LazyInit == Init => Lazy!Init
BY DEF Init, Lazy!Init, Lazy!NoCall, Lazy!CallAt, AllPhases, AllCalls, Phase, CallState,
       Stage, NoRequest, CallOf

\* A request step that leaves registry and store alone changes one call.
LEMMA OneCallChanges ==
    ASSUME TypeOK, UNCHANGED <<registry, store>>, NEW r \in Requests, NEW q,
           reqs' = [reqs EXCEPT ![r] = q]
    PROVE  /\ AllPhases' = AllPhases
           /\ AllCalls' = [AllCalls EXCEPT ![r] = CallState(q)]
BY DEF TypeOK, AllPhases, AllCalls, Phase, CallState, Stage

\* A step that keeps every call as it is, and every phase, is invisible.
LEMMA Invisible ==
    ASSUME UNCHANGED <<registry, store, idle, reqs>>
    PROVE  UNCHANGED Lazy!vars
BY DEF Lazy!vars, AllPhases, AllCalls, Phase, CallState, Stage

\* Call is Refuse or Ask.
LEMMA LazyCall ==
    ASSUME IInv, NEW r \in Requests, NEW p \in Plugins, Call(r, p)
    PROVE  Lazy!Refuse(r, p) \/ Lazy!Ask(r, p)
<1>1. AllCalls[r].at = "none"
  BY DEF Call, AllCalls, CallState, Stage
<1>2. CASE p \notin Enabled
  <2>1. /\ reqs' = [reqs EXCEPT ![r] = CallOf(p, "done", "404")]
        /\ UNCHANGED <<registry, store, idle>>
    BY <1>2 DEF Call
  <2>2. CallState(CallOf(p, "done", "404")) =
          [at |-> "answered", plugin |-> p, served |-> FALSE, answer |-> "404"]
    BY DEF CallState, Stage, CallOf
  <2>3. QED
    BY <1>1, <1>2, <2>1, <2>2, OneCallChanges DEF IInv, Lazy!Refuse, Lazy!CallAt
<1>3. CASE p \in Enabled
  <2>1. /\ reqs' = [reqs EXCEPT ![r] = CallOf(p, "lock", "none")]
        /\ UNCHANGED <<registry, store>>
        /\ idle' = [idle EXCEPT ![p] = 0]
    BY <1>3 DEF Call
  <2>2. CallState(CallOf(p, "lock", "none")) =
          [at |-> "asked", plugin |-> p, served |-> FALSE, answer |-> "none"]
    BY DEF CallState, Stage, CallOf
  <2>3. QED
    BY <1>1, <1>3, <2>1, <2>2, OneCallChanges DEF IInv, Lazy!Ask, Lazy!CallAt
<1>4. QED
  BY <1>2, <1>3

\* Join is Admit for a plugin that is not asleep.
LEMMA LazyJoin ==
    ASSUME IInv, NEW r \in Requests, Join(r)
    PROVE  Lazy!Admit(r)
<1> DEFINE p == reqs[r].plugin
           q == [reqs[r] EXCEPT !.pc = "wait", !.loop = registry[p],
                                !.guard = Guard,
                                !.fresh = (store[p] = "current")]
<1>1. /\ reqs[r] \in Request /\ p \in Plugins /\ reqs[r].pc = "lock"
      /\ registry[p] # None /\ reqs[r].answer = "none"
  BY EngineAssumption, SlotTypes DEF IInv, Join, RequestsMatch, RequestOK
<1>2. reqs' = [reqs EXCEPT ![r] = q] /\ UNCHANGED <<registry, store, idle>>
  BY DEF Join, IInv, TypeOK
<1>3. q.pc = "wait" /\ q.plugin = p /\ q.answer = "none"
      /\ q.fresh = (store[p] = "current")
  BY <1>1 DEF Request
<1>4. AllCalls[r].at = "asked" /\ AllCalls[r].plugin = p
  BY <1>1 DEF AllCalls, CallState, Stage
<1>5. /\ AllPhases[p] # "asleep"
      /\ (AllPhases[p] = "working") = (store[p] = "current")
  BY <1>1 DEF AllPhases, Phase
<1>6. /\ AllCalls' = [AllCalls EXCEPT ![r] = CallState(q)]
      /\ AllPhases' = AllPhases
  BY <1>2, OneCallChanges DEF IInv
<1>7. CallState(q) = Lazy!CallAt("pending", p, AllPhases[p] = "working", "none")
  BY <1>3, <1>5 DEF CallState, Stage, Lazy!CallAt
<1>8. AllPhases' = [AllPhases EXCEPT ![p] = IF @ = "asleep" THEN "waking" ELSE @]
  BY <1>6, <1>5 DEF AllPhases
<1>9. QED
  BY <1>2, <1>4, <1>6, <1>7, <1>8 DEF Lazy!Admit

\* Spawn is Admit for a plugin that is asleep.
LEMMA LazySpawn ==
    ASSUME IInv, NEW r \in Requests, Spawn(r)
    PROVE  Lazy!Admit(r)
<1> DEFINE p == reqs[r].plugin
<1>1. /\ reqs[r] \in Request /\ p \in Plugins /\ reqs[r].pc = "lock"
      /\ registry[p] = None /\ ~reqs[r].fresh /\ reqs[r].answer = "none"
  BY EngineAssumption, SlotTypes DEF IInv, Spawn, RequestsMatch, RequestOK
<1>2. PICK l \in Loops :
        /\ l # None
        /\ registry' = [registry EXCEPT ![p] = l]
        /\ reqs' = [reqs EXCEPT ![r].pc = "wait", ![r].loop = l,
                                ![r].guard = Guard]
        /\ store' = [store EXCEPT ![p] =
                       IF @ = "absent" THEN @ ELSE "retained"]
        /\ idle' = idle
  BY EngineAssumption DEF Spawn, FreeSlots
<1> DEFINE q == [reqs[r] EXCEPT !.pc = "wait", !.loop = l, !.guard = Guard]
<1>3. /\ q.pc = "wait" /\ q.plugin = p /\ q.answer = "none" /\ ~q.fresh
      /\ q.fresh \in BOOLEAN
  BY <1>1 DEF Request
<1>4. reqs' = [reqs EXCEPT ![r] = q]
  BY <1>2 DEF IInv, TypeOK
<1>5. AllCalls' = [AllCalls EXCEPT ![r] = CallState(q)]
  BY <1>4 DEF IInv, TypeOK, AllCalls
<1>6. AllCalls[r].at = "asked" /\ AllCalls[r].plugin = p
      /\ AllPhases[p] = "asleep"
  BY <1>1 DEF AllCalls, CallState, Stage, AllPhases, Phase
<1>7. CallState(q) = Lazy!CallAt("pending", p, AllPhases[p] = "working", "none")
  BY <1>3, <1>6 DEF CallState, Stage, Lazy!CallAt
<1>8. AllPhases' = [AllPhases EXCEPT ![p] = IF @ = "asleep" THEN "waking" ELSE @]
  BY <1>1, <1>2, <1>6 DEF IInv, TypeOK, Snapshot, AllPhases, Phase
<1>9. QED
  BY <1>2, <1>5, <1>6, <1>7, <1>8 DEF Lazy!Admit

\* A call that ends as RequestOK allows is Reply.
LEMMA LazyFinish ==
    ASSUME IInv, UNCHANGED <<registry, store, idle>>,
           NEW r \in Requests, reqs[r].pc \in {"wait", "read"},
           NEW a \in {"200", "503"}, a = "200" <=> reqs[r].fresh,
           Finish(r, a)
    PROVE  Lazy!Reply(r)
<1> DEFINE q == [reqs[r] EXCEPT !.pc = "done", !.answer = a, !.guard = 0]
<1>1. reqs[r] \in Request
  BY SlotTypes DEF IInv
<1>2. /\ q.pc = "done" /\ q.plugin = reqs[r].plugin
      /\ q.answer = a /\ q.fresh = reqs[r].fresh
  BY <1>1 DEF Request
<1>3. reqs' = [reqs EXCEPT ![r] = q]
  BY DEF Finish, IInv, TypeOK
<1>4. AllCalls[r].at = "pending" /\ AllCalls[r].plugin = reqs[r].plugin
      /\ AllCalls[r].served = reqs[r].fresh
  BY DEF AllCalls, CallState, Stage
<1>5. CallState(q) = Lazy!CallAt("answered", reqs[r].plugin, reqs[r].fresh,
                                 IF reqs[r].fresh THEN "200" ELSE "503")
  BY <1>2 DEF CallState, Stage, Lazy!CallAt
<1>6. AllCalls' = [AllCalls EXCEPT ![r] = CallState(q)] /\ AllPhases' = AllPhases
  BY <1>3, OneCallChanges DEF IInv
<1>7. QED
  BY <1>4, <1>5, <1>6 DEF Lazy!Reply

\* Cancel and Deliver are Leave.
LEMMA LazyLeave ==
    ASSUME IInv, NEW r \in Requests, Cancel(r) \/ Deliver(r)
    PROVE  Lazy!Leave(r)
<1>1. /\ reqs' = [reqs EXCEPT ![r] = NoRequest]
      /\ UNCHANGED <<registry, store, idle>>
  BY DEF Cancel, Deliver
<1>2. CallState(NoRequest) = Lazy!NoCall
  BY DEF CallState, Stage, NoRequest, CallOf, Lazy!NoCall, Lazy!CallAt
<1>3. AllCalls[r].at # "none"
  BY DEF Cancel, Deliver, AllCalls, CallState, Stage
<1>4. QED
  BY <1>1, <1>2, <1>3, OneCallChanges DEF IInv, Lazy!Leave

\* Publish is FirstCycle the first time in a period, then invisible.
LEMMA LazyPublish ==
    ASSUME IInv, NEW l \in Loops, Publish(l)
    PROVE  (\E p \in Plugins : Lazy!FirstCycle(p)) \/ UNCHANGED Lazy!vars
<1> DEFINE p == loops[l].plugin
<1>1. p \in Plugins /\ registry[p] = l /\ l # None
  BY EngineAssumption DEF IInv, Publish, LoopsMatch, SoleCollector, Live
<1>2. /\ store' = [store EXCEPT ![p] = "current"]
      /\ UNCHANGED <<registry, idle>>
      /\ reqs' = [r \in Requests |->
                    IF reqs[r].plugin = p /\ reqs[r].pc \in {"wait", "read"}
                    THEN [reqs[r] EXCEPT !.fresh = TRUE] ELSE reqs[r]]
  BY DEF Publish
<1>3. ASSUME NEW r \in Requests
      PROVE  AllCalls'[r] =
               IF AllCalls[r].at = "pending" /\ AllCalls[r].plugin = p
               THEN Lazy!CallAt("pending", p, TRUE, "none") ELSE AllCalls[r]
  <2>1. reqs[r] \in Request /\ RequestOK(reqs[r])
    BY SlotTypes DEF IInv, RequestsMatch
  <2>2. AllCalls[r] = CallState(reqs[r]) /\ AllCalls'[r] = CallState(reqs'[r])
    BY DEF AllCalls
  <2>3. CASE reqs[r].plugin = p /\ reqs[r].pc \in {"wait", "read"}
    <3>1. /\ reqs'[r].fresh = TRUE /\ reqs'[r].answer = "none"
          /\ reqs'[r].pc = reqs[r].pc /\ reqs'[r].plugin = p
      BY <1>2, <2>1, <2>3 DEF Request, RequestOK
    <3>2. CallState(reqs'[r]) = Lazy!CallAt("pending", p, TRUE, "none")
      BY <2>3, <3>1 DEF CallState, Stage, Lazy!CallAt
    <3>3. AllCalls[r].at = "pending" /\ AllCalls[r].plugin = p
      BY <2>2, <2>3 DEF CallState, Stage
    <3>4. QED
      BY <2>2, <3>2, <3>3
  <2>4. CASE ~(reqs[r].plugin = p /\ reqs[r].pc \in {"wait", "read"})
    <3>1. reqs'[r] = reqs[r]
      BY <1>2, <2>4
    <3>2. ~(AllCalls[r].at = "pending" /\ AllCalls[r].plugin = p)
      BY <2>1, <2>2, <2>4 DEF CallState, Stage, Request, ReqPc
    <3>3. QED
      BY <2>2, <3>1, <3>2
  <2>5. QED
    BY <2>3, <2>4
<1>4. AllCalls' = [r \in Requests |->
                     IF AllCalls[r].at = "pending" /\ AllCalls[r].plugin = p
                     THEN Lazy!CallAt("pending", p, TRUE, "none")
                     ELSE AllCalls[r]]
  BY <1>3 DEF AllCalls
<1>5. CASE store[p] # "current"
  <2>1. AllPhases[p] = "waking" /\ AllPhases' = [AllPhases EXCEPT ![p] = "working"]
    BY <1>1, <1>2, <1>5 DEF IInv, TypeOK, AllPhases, Phase
  <2>2. QED
    BY <1>1, <1>2, <1>4, <2>1 DEF Lazy!FirstCycle
<1>6. CASE store[p] = "current"
  <2>1. store' = store
    BY <1>1, <1>2, <1>6 DEF IInv, TypeOK
  <2>2. ASSUME NEW r \in Requests
        PROVE  reqs'[r] = reqs[r]
    <3>1. reqs[r] \in Request /\ RequestOK(reqs[r])
      BY SlotTypes DEF IInv, RequestsMatch
    <3>2. reqs[r].plugin = p /\ reqs[r].pc \in {"wait", "read"} => reqs[r].fresh
      BY <1>1, <1>6, <3>1 DEF IInv, EntryMatches, RequestOK
    <3>3. reqs[r].fresh => [reqs[r] EXCEPT !.fresh = TRUE] = reqs[r]
      BY <3>1 DEF Request
    <3>4. QED
      BY <1>2, <3>2, <3>3
  <2>3. reqs' = reqs
    BY <1>2, <2>2 DEF IInv, TypeOK
  <2>4. QED
    BY <1>2, <2>1, <2>3, Invisible
<1>7. QED
  BY <1>5, <1>6

\* StopOrContinue is Rest, or invisible.
LEMMA LazyStop ==
    ASSUME IInv, NEW l \in Loops, StopOrContinue(l)
    PROVE  (\E p \in Plugins : Lazy!Rest(p)) \/ UNCHANGED Lazy!vars
<1> DEFINE p == loops[l].plugin
<1>1. p \in Plugins /\ registry[p] = l /\ l # None /\ loops[l].ready
  BY EngineAssumption
     DEF IInv, StopOrContinue, LoopsMatch, SoleCollector, Live
<1>2. store[p] = "current"
  BY <1>1 DEF IInv, EntryMatches
<1>3. CASE IdleExpired(p)
  <2>1. registry' = [registry EXCEPT ![p] = None] /\ UNCHANGED <<store, idle, reqs>>
    BY <1>3 DEF StopOrContinue
  <2>2. AllCalls' = AllCalls
    BY <2>1 DEF AllCalls
  <2>3. AllPhases[p] = "working" /\ AllPhases' = [AllPhases EXCEPT ![p] = "asleep"]
    BY <1>1, <1>2, <2>1 DEF IInv, TypeOK, AllPhases, Phase
  <2>4. QED
    BY <1>1, <1>3, <2>1, <2>2, <2>3 DEF Lazy!Rest, IdleExpired
<1>4. CASE ~IdleExpired(p)
  BY <1>4, Invisible DEF StopOrContinue
<1>5. QED
  BY <1>3, <1>4

\* Tick is TimePasses.
LEMMA LazyTick ==
    ASSUME IInv, Tick
    PROVE  Lazy!TimePasses
<1>1. ASSUME NEW r \in Requests
      PROVE  CallState(reqs[r])' = CallState(reqs[r])
  <2>1. reqs[r] \in Request
    BY SlotTypes DEF IInv
  <2>2. /\ reqs'[r].pc = reqs[r].pc /\ reqs'[r].plugin = reqs[r].plugin
        /\ reqs'[r].fresh = reqs[r].fresh /\ reqs'[r].answer = reqs[r].answer
    BY <2>1 DEF Tick, Request
  <2>3. QED
    BY <2>2 DEF CallState
<1>2. AllCalls' = AllCalls /\ AllPhases' = AllPhases
  BY <1>1 DEF AllCalls, AllPhases, Phase, Tick
<1>3. QED
  BY <1>2 DEF Tick, Lazy!TimePasses, IdleExpired

(***************************************************************************)
(* The tasks, the registry, the watch channels, the lock and the store     *)
(* together implement the per-plugin state machine of ARCHITECTURE.md      *)
(* section 3: every step is a step of LazyCollection or invisible to it.   *)
(***************************************************************************)
THEOREM EngineImplementsLazy == Spec => LazySpec
<1>1. IInv /\ [Next]_vars => [Lazy!Next]_(Lazy!vars)
  <2> SUFFICES ASSUME IInv, [Next]_vars PROVE [Lazy!Next]_(Lazy!vars)
    OBVIOUS
  <2>1. ASSUME NEW r \in Requests, ReadSnapshot(r)
        PROVE  Lazy!Reply(r)
    <3>1. reqs[r].fresh /\ store[reqs[r].plugin] # "absent"
      BY <2>1 DEF IInv, RequestsMatch, RequestOK, ReadSnapshot
    <3>2. QED
      BY <2>1, <3>1, LazyFinish DEF ReadSnapshot
  <2>2. ASSUME NEW r \in Requests, GuardExpires(r) \/ SenderGone(r)
        PROVE  Lazy!Reply(r)
    <3>1. reqs[r].pc = "wait" /\ ~reqs[r].fresh
      BY <2>2 DEF IInv, RequestsMatch, RequestOK, GuardExpires, SenderGone
    <3>2. QED
      BY <2>2, <3>1, LazyFinish DEF GuardExpires, SenderGone
  <2>3. ASSUME NEW r \in Requests, SeeReady(r)
        PROVE  UNCHANGED Lazy!vars
    <3> DEFINE q == [reqs[r] EXCEPT !.pc = "read", !.guard = 0]
    <3>1. reqs[r] \in Request
      BY SlotTypes DEF IInv
    <3>2. /\ q.pc = "read" /\ q.plugin = reqs[r].plugin
          /\ q.fresh = reqs[r].fresh /\ q.answer = reqs[r].answer
      BY <3>1 DEF Request
    <3>3. CallState(q) = AllCalls[r]
      BY <2>3, <3>2 DEF SeeReady, CallState, Stage, AllCalls
    <3>4. AllCalls' = [AllCalls EXCEPT ![r] = CallState(q)]
          /\ AllPhases' = AllPhases /\ idle' = idle
      BY <2>3, OneCallChanges DEF SeeReady, IInv, TypeOK
    <3>5. AllCalls' = AllCalls
      BY <3>3, <3>4 DEF AllCalls
    <3>6. QED
      BY <3>4, <3>5 DEF Lazy!vars
  <2>4. ASSUME NEW l \in Loops, Collected(l) \/ Wake(l) \/ Panic(l)
        PROVE  UNCHANGED Lazy!vars
    BY <2>4, Invisible DEF Collected, Wake, Panic
  <2>5. CASE UNCHANGED vars
    BY <2>5, Invisible DEF vars
  <2>6. ASSUME NEW r \in Requests, ClientStep(r) \/ RequestStep(r)
        PROVE  [Lazy!Next]_(Lazy!vars)
    BY <2>1, <2>2, <2>3, <2>6, LazyCall, LazyJoin, LazySpawn, LazyLeave
       DEF ClientStep, RequestStep, Lazy!Next
  <2>7. ASSUME NEW l \in Loops, LoopStep(l)
        PROVE  [Lazy!Next]_(Lazy!vars)
    BY <2>4, <2>7, LazyPublish, LazyStop DEF LoopStep, Lazy!Next
  <2>8. QED
    BY <2>5, <2>6, <2>7, LazyTick DEF Next, Lazy!Next
<1>2. QED
  BY <1>1, LazyInit, EngineInvariant, PTL DEF Spec, LazySpec, Lazy!Spec
=============================================================================
