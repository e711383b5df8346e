-------------------------- MODULE AggregateProofs --------------------------
(***************************************************************************)
(* Theorems about Aggregate, on top of the engine's invariant: for any     *)
(* plugins, other requests, loop slots and timing constants, however slow  *)
(* a collection is.                                                        *)
(***************************************************************************)
EXTENDS Aggregate, EngineProofs

(***************************************************************************)
(* While /all is joined, each plugin has its place: its task is yet to     *)
(* run, or runs, or was joined.  What time the request has taken, each     *)
(* task that waits has taken from its guard.                               *)
(***************************************************************************)
PlaceOK(p) ==
    LET q == reqs[Task[p]] IN
    /\ q.pc # "idle" => /\ p \in Enabled
                        /\ p \notin all.todo \cup all.parts \cup all.failed
                        /\ q.plugin = p
    /\ q.pc = "idle" /\ p \in Enabled =>
          p \in all.todo \cup all.parts \cup all.failed
    /\ p \in all.todo => p \notin all.parts \cup all.failed /\ all.age = 0
    /\ q.pc = "lock" => all.age = 0
    /\ q.pc = "wait" => all.age + q.guard <= Guard

AllTypes ==
    /\ all \in [pc: {"idle", "joining", "answered"}, todo: SUBSET Enabled,
                parts: SUBSET Enabled, failed: SUBSET Enabled, age: Nat]
    /\ all.parts \cap all.failed = {}
    /\ all.pc # "joining" => all.todo = {}

AInv ==
    /\ AllTypes
    /\ AllWithinOneGuard
    /\ AnswerAccountsForAll
    /\ NoStrayTask
    /\ all.pc = "joining" => \A p \in Plugins : PlaceOK(p)

-----------------------------------------------------------------------------
(* What the engine's steps do to the tasks *)

\* The slots of two plugins are two.
LEMMA TaskSlots ==
    /\ \A p \in Plugins : Task[p] \in Requests /\ Task[p] \in Tasks
    /\ \A p, q \in Plugins : Task[p] = Task[q] => p = q
BY AggregateAssumption DEF Tasks

\* A request step moves its own request forward, and a wait begins with a
\* whole guard.
LEMMA RequestStepShape ==
    ASSUME TypeOK, NEW r \in Requests, RequestStep(r)
    PROVE  /\ reqs[r].pc # "idle"
           /\ reqs'[r].pc \in {"wait", "read", "done"}
           /\ reqs'[r].plugin = reqs[r].plugin
           /\ reqs'[r].pc = "wait" => reqs[r].pc = "lock" /\ reqs'[r].guard = Guard
           /\ \A x \in Requests : x # r => reqs'[x] = reqs[x]
<1>1. reqs[r] \in Request /\ reqs \in [Requests -> Request]
  BY DEF TypeOK
<1>2. CASE Join(r)
  BY <1>1, <1>2 DEF Join, Request
<1>3. CASE Spawn(r)
  BY <1>1, <1>3 DEF Spawn, Request
<1>4. CASE SeeReady(r)
  BY <1>1, <1>4 DEF SeeReady, Request
<1>5. CASE ReadSnapshot(r)
  BY <1>1, <1>5 DEF ReadSnapshot, Finish, Request
<1>6. CASE GuardExpires(r) \/ SenderGone(r)
  BY <1>1, <1>6 DEF GuardExpires, SenderGone, Finish, Request
<1>7. QED
  BY <1>2, <1>3, <1>4, <1>5, <1>6 DEF RequestStep

\* A client's step writes its own request only.
LEMMA ClientStepShape ==
    ASSUME TypeOK, NEW r \in Requests, ClientStep(r)
    PROVE  \A x \in Requests : x # r => reqs'[x] = reqs[x]
BY DEF TypeOK, ClientStep, Call, Cancel, Deliver

\* A loop's step moves no request.
LEMMA LoopStepShape ==
    ASSUME TypeOK, NEW l \in Loops, LoopStep(l), NEW r \in Requests
    PROVE  /\ reqs'[r].pc = reqs[r].pc
           /\ reqs'[r].plugin = reqs[r].plugin
           /\ reqs'[r].guard = reqs[r].guard
<1>1. reqs[r] \in Request
  BY DEF TypeOK
<1>2. CASE Publish(l)
  BY <1>1, <1>2 DEF Publish, Request
<1>3. CASE Collected(l) \/ Wake(l) \/ StopOrContinue(l) \/ Panic(l)
  BY <1>3 DEF Collected, Wake, StopOrContinue, Panic
<1>4. QED
  BY <1>2, <1>3 DEF LoopStep

\* Steps that keep /all keep its invariant if no task goes idle, changes its
\* plugin, or waits with more time than it had.
LEMMA TasksGoOn ==
    ASSUME AInv, UNCHANGED all,
           \A p \in Plugins :
              LET t == Task[p] IN
              /\ reqs'[t].pc = "idle" <=> reqs[t].pc = "idle"
              /\ reqs'[t].plugin = reqs[t].plugin
              /\ reqs'[t].pc = "lock" => reqs[t].pc = "lock"
              /\ reqs'[t].pc = "wait" =>
                    \/ reqs[t].pc = "lock" /\ reqs'[t].guard = Guard
                    \/ reqs[t].pc = "wait" /\ reqs'[t].guard = reqs[t].guard
    PROVE  AInv'
<1>1. (AllTypes /\ AllWithinOneGuard /\ AnswerAccountsForAll)'
  BY DEF AInv, AllTypes, AllWithinOneGuard, AnswerAccountsForAll
<1>2. NoStrayTask'
  BY DEF AInv, NoStrayTask, Tasks
<1>3. ASSUME all.pc = "joining", NEW p \in Plugins
      PROVE  PlaceOK(p)'
  <2>1. PlaceOK(p)
    BY <1>3 DEF AInv
  <2>2. all' = all
    OBVIOUS
  <2>3. (reqs'[Task[p]].pc = "wait") => all.age + reqs'[Task[p]].guard <= Guard
    BY <2>1, EngineAssumption DEF PlaceOK
  <2>4. QED
    BY <2>1, <2>2, <2>3 DEF PlaceOK
<1>4. QED
  BY <1>1, <1>2, <1>3 DEF AInv

-----------------------------------------------------------------------------
(* The steps of /all *)

\* A tick takes as much from each guard as it adds to the request's age.
LEMMA PromptTickStep ==
    ASSUME IInv, AInv, PromptTick
    PROVE  AInv'
<1>1. ASSUME NEW r \in Requests
      PROVE  /\ reqs[r].guard \in Nat
             /\ reqs'[r].pc = reqs[r].pc /\ reqs'[r].plugin = reqs[r].plugin
             /\ reqs'[r].guard = Decrement(reqs[r].guard)
  <2>1. reqs[r] \in Request
    BY SlotTypes DEF IInv
  <2>2. QED
    BY <2>1 DEF PromptTick, Tick, Request
<1>2. CASE all.pc # "joining"
  <2>1. all' = all
    BY <1>2 DEF PromptTick, AInv, AllTypes
  <2>2. NoStrayTask'
    BY <2>1, <1>1, <1>2, TaskSlots DEF AInv, NoStrayTask, Tasks
  <2>3. QED
    BY <1>2, <2>1, <2>2
       DEF AInv, AllTypes, AllWithinOneGuard, AnswerAccountsForAll
<1>3. CASE all.pc = "joining"
  <2>1. all' = [all EXCEPT !.age = all.age + 1]
    BY <1>3 DEF PromptTick
  <2>2. /\ all'.pc = "joining" /\ all'.todo = all.todo
        /\ all'.parts = all.parts /\ all'.failed = all.failed
        /\ all'.age = all.age + 1
        /\ all.age \in Nat
    BY <2>1, <1>3 DEF AInv, AllTypes
  <2>3. ASSUME NEW p \in Plugins
        PROVE  /\ p \notin all.todo
               /\ reqs[Task[p]].pc \in {"idle", "wait"}
               /\ reqs[Task[p]].pc = "wait" => reqs[Task[p]].guard # 0
    <3>1. reqs[Task[p]] \in Request /\ reqs[Task[p]].pc # "done"
      BY TaskSlots, SlotTypes DEF IInv, PromptTick
    <3>2. ~Ready(Task[p]) /\ ~MayStart(p)
      BY TaskSlots DEF PromptTick
    <3>3. QED
      BY <3>1, <3>2 DEF Ready, MayStart, Request, ReqPc
  <2>4. ASSUME NEW p \in Plugins, reqs[Task[p]].pc = "wait"
        PROVE  all.age + 1 + reqs'[Task[p]].guard <= Guard
    <3>1. all.age + reqs[Task[p]].guard <= Guard
      BY <1>3, <2>4 DEF AInv, PlaceOK
    <3>2. /\ reqs[Task[p]].guard \in Nat \ {0}
          /\ reqs'[Task[p]].guard = reqs[Task[p]].guard - 1
      BY <1>1, <2>3, <2>4, TaskSlots DEF Decrement
    <3>3. QED
      BY <2>2, <3>1, <3>2, EngineAssumption
  <2>5. PICK p \in Plugins : reqs[Task[p]].pc # "idle"
    BY <1>3 DEF PromptTick, Tasks
  <2>6. AllWithinOneGuard'
    <3>1. all.age + 1 + reqs'[Task[p]].guard <= Guard
      BY <2>3, <2>4, <2>5
    <3>2. reqs'[Task[p]].guard \in Nat
      BY <1>1, TaskSlots DEF Decrement
    <3>3. QED
      BY <2>2, <3>1, <3>2, EngineAssumption DEF AllWithinOneGuard
  <2>7. AllTypes'
    BY <1>3, <2>1 DEF AInv, AllTypes
  <2>8. ASSUME NEW x \in Plugins
        PROVE  PlaceOK(x)'
    <3>1. PlaceOK(x) /\ Task[x] \in Requests
      BY <1>3, TaskSlots DEF AInv
    <3>2. QED
      BY <3>1, <2>2, <2>3, <2>4, <1>1 DEF PlaceOK
  <2>9. QED
    BY <2>2, <2>6, <2>7, <2>8 DEF AInv, NoStrayTask, AnswerAccountsForAll
<1>4. QED
  BY <1>2, <1>3

\* A task that starts keeps the invariant.
LEMMA TaskStartsStep ==
    ASSUME IInv, AInv, NEW p \in Plugins, TaskStarts(p)
    PROVE  AInv'
<1>1. /\ p \in all.todo /\ p \in Enabled
      /\ reqs[Task[p]].pc = "idle"
      /\ all' = [all EXCEPT !.todo = all.todo \ {p}]
      /\ reqs' = [reqs EXCEPT ![Task[p]] = CallOf(p, "lock", "none")]
  BY DEF TaskStarts, MayStart, Call, AInv, AllTypes
<1>2. all.pc = "joining" /\ all'.pc = "joining"
  <2>1. all.pc = "joining"
    BY <1>1 DEF AInv, AllTypes
  <2>2. QED
    BY <1>1, <2>1 DEF AInv, AllTypes
<1>3. /\ all'.parts = all.parts /\ all'.failed = all.failed
      /\ all'.age = all.age /\ all'.todo = all.todo \ {p}
  BY <1>1 DEF AInv, AllTypes
<1>4. /\ reqs'[Task[p]] = CallOf(p, "lock", "none")
      /\ \A x \in Plugins : x # p => reqs'[Task[x]] = reqs[Task[x]]
  BY <1>1, TaskSlots DEF IInv, TypeOK
<1>5. ASSUME NEW x \in Plugins
      PROVE  PlaceOK(x)'
  <2>1. PlaceOK(x)
    BY <1>2 DEF AInv
  <2>2. CASE x = p
    BY <1>1, <1>3, <1>4, <2>1, <2>2 DEF PlaceOK, CallOf
  <2>3. CASE x # p
    BY <1>3, <1>4, <2>1, <2>3 DEF PlaceOK
  <2>4. QED
    BY <2>2, <2>3
<1>6. (AllTypes /\ AllWithinOneGuard)'
  BY <1>1, <1>2, <1>3 DEF AInv, AllTypes, AllWithinOneGuard
<1>7. QED
  BY <1>2, <1>5, <1>6 DEF AInv, NoStrayTask, AnswerAccountsForAll

\* A task that is joined keeps the invariant: its plugin gets its place.
LEMMA TaskJoinedStep ==
    ASSUME IInv, AInv, NEW p \in Plugins, TaskJoined(p)
    PROVE  AInv'
<1>1. /\ reqs[Task[p]].pc = "done"
      /\ reqs' = [reqs EXCEPT ![Task[p]] = NoRequest]
      /\ \/ all' = [all EXCEPT !.parts = all.parts \cup {p}]
         \/ all' = [all EXCEPT !.failed = all.failed \cup {p}]
  BY DEF TaskJoined, Deliver
<1>2. all.pc = "joining"
  BY <1>1, TaskSlots DEF AInv, NoStrayTask
<1>3. PlaceOK(p)
  BY <1>2 DEF AInv
<1>4. p \in Enabled /\ p \notin all.todo \cup all.parts \cup all.failed
  BY <1>1, <1>3 DEF PlaceOK
<1>5. /\ all'.pc = "joining" /\ all'.todo = all.todo /\ all'.age = all.age
      /\ all'.parts \cup all'.failed = all.parts \cup all.failed \cup {p}
  BY <1>1, <1>2 DEF AInv, AllTypes
<1>6. /\ reqs'[Task[p]] = NoRequest
      /\ \A x \in Plugins : x # p => reqs'[Task[x]] = reqs[Task[x]]
  BY <1>1, TaskSlots DEF IInv, TypeOK
<1>7. ASSUME NEW x \in Plugins
      PROVE  PlaceOK(x)'
  <2>1. PlaceOK(x)
    BY <1>2 DEF AInv
  <2>2. CASE x = p
    BY <1>4, <1>5, <1>6, <2>2 DEF PlaceOK, NoRequest, CallOf
  <2>3. CASE x # p
    BY <1>5, <1>6, <2>1, <2>3 DEF PlaceOK
  <2>4. QED
    BY <2>2, <2>3
<1>8. AllTypes'
  BY <1>1, <1>2, <1>4 DEF AInv, AllTypes
<1>9. AllWithinOneGuard'
  BY <1>5 DEF AInv, AllWithinOneGuard
<1>10. QED
  BY <1>5, <1>7, <1>8, <1>9 DEF AInv, NoStrayTask, AnswerAccountsForAll

\* The beginning, the answer and the end of /all keep the invariant.
LEMMA EndsStep ==
    ASSUME IInv, AInv, AllCalled \/ AllAnswers \/ AllCancelled \/ AllDelivered
    PROVE  AInv'
<1>1. CASE AllCalled
  <2>1. /\ all'.pc = "joining" /\ all'.todo = Enabled /\ all'.parts = {}
        /\ all'.failed = {} /\ all'.age = 0
        /\ reqs' = reqs
    BY <1>1 DEF AllCalled, NoAll, vars
  <2>2. AllTypes'
    BY <1>1, <2>1 DEF AllCalled, NoAll, AllTypes
  <2>3. ASSUME NEW p \in Plugins
        PROVE  PlaceOK(p)'
    <3>1. reqs[Task[p]].pc = "idle"
      BY <1>1, TaskSlots DEF AllCalled, AInv, NoStrayTask
    <3>2. QED
      BY <2>1, <3>1 DEF PlaceOK
  <2>4. QED
    BY <2>1, <2>2, <2>3, EngineAssumption
       DEF AInv, AllWithinOneGuard, NoStrayTask, AnswerAccountsForAll
<1>2. CASE AllAnswers
  <2>1. /\ all'.pc = "answered" /\ all'.todo = {} /\ all'.parts = all.parts
        /\ all'.failed = all.failed /\ all'.age = 0
        /\ reqs' = reqs
    BY <1>2 DEF AllAnswers, AInv, AllTypes, vars
  <2>2. AllTypes'
    BY <1>2, <2>1 DEF AllAnswers, AInv, AllTypes
  <2>3. \A p \in Enabled : p \in all.parts \cup all.failed
    <3> SUFFICES ASSUME NEW p \in Enabled PROVE p \in all.parts \cup all.failed
      OBVIOUS
    <3>1. p \in Plugins /\ PlaceOK(p)
      BY <1>2, EngineAssumption DEF AllAnswers, AInv
    <3>2. reqs[Task[p]].pc = "idle" /\ all.todo = {}
      BY <1>2, <3>1, TaskSlots DEF AllAnswers
    <3>3. QED
      BY <3>1, <3>2 DEF PlaceOK
  <2>4. AnswerAccountsForAll'
    BY <2>1, <2>3 DEF AInv, AllTypes, AnswerAccountsForAll
  <2>5. QED
    BY <1>2, <2>1, <2>2, <2>4, EngineAssumption
       DEF AllAnswers, AInv, AllWithinOneGuard, NoStrayTask
<1>3. CASE AllCancelled \/ AllDelivered
  <2>1. /\ all'.pc = "idle" /\ all'.todo = {} /\ all'.parts = {}
        /\ all'.failed = {} /\ all'.age = 0
    BY <1>3 DEF AllCancelled, AllDelivered, NoAll
  <2>2. AllTypes'
    BY <1>3 DEF AllCancelled, AllDelivered, NoAll, AllTypes
  <2>3. NoStrayTask'
    <3> SUFFICES ASSUME NEW t \in Tasks PROVE reqs'[t].pc = "idle"
      BY DEF NoStrayTask
    <3>1. t \in Requests
      BY TaskSlots DEF Tasks
    <3>2. CASE AllCancelled
      BY <3>1, <3>2 DEF AllCancelled, NoRequest, CallOf
    <3>3. CASE AllDelivered
      BY <3>3 DEF AllDelivered, vars, AInv, NoStrayTask
    <3>4. QED
      BY <1>3, <3>2, <3>3
  <2>4. QED
    BY <2>1, <2>2, <2>3, EngineAssumption
       DEF AInv, AllWithinOneGuard, AnswerAccountsForAll
<1>4. QED
  BY <1>1, <1>2, <1>3

\* Aborting the tasks of /all leaves the engine's invariant intact.
LEMMA CancelledIInv ==
    ASSUME IInv, AllCancelled
    PROVE  IInv'
<1>1. NoRequest \in Request /\ RequestOK(NoRequest)
  BY DEF NoRequest, CallOf, Request, ReqPc, Answer, RequestOK
<1>2. UNCHANGED <<registry, store, idle, loops>>
  BY DEF AllCancelled
<1>3. \A r \in Requests : reqs'[r] = NoRequest \/ reqs'[r] = reqs[r]
  BY DEF AllCancelled
<1>4. TypeOK'
  <2>1. reqs' \in [Requests -> Request]
    BY <1>1, <1>3 DEF AllCancelled, IInv, TypeOK
  <2>2. QED
    BY <1>2, <2>1 DEF IInv, TypeOK
<1>5. (SoleCollector /\ NoDeadEntry /\ LoopsMatch /\ EntryMatches)'
  BY <1>2 DEF IInv, SoleCollector, NoDeadEntry, LoopsMatch, EntryMatches, Live
<1>6. ASSUME NEW r \in Requests
      PROVE  RequestOK(reqs[r])'
  <2>1. RequestOK(reqs[r])
    BY DEF IInv, RequestsMatch
  <2>2. QED
    BY <1>1, <1>2, <1>3, <2>1 DEF RequestOK
<1>7. QED
  BY <1>4, <1>5, <1>6 DEF IInv, RequestsMatch

-----------------------------------------------------------------------------
(* The invariant and the properties *)

\* The engine's and the request's invariants hold at the start.
LEMMA InitAInv == AllInit => IInv /\ AInv
<1> SUFFICES ASSUME AllInit PROVE IInv /\ AInv
  OBVIOUS
<1>1. IInv
  BY InitIInv DEF AllInit
<1>2. NoStrayTask
  BY TaskSlots DEF AllInit, Init, NoRequest, CallOf, NoStrayTask, Tasks
<1>3. AInv
  BY <1>2, EngineAssumption DEF AllInit, NoAll, AInv, AllTypes,
     AllWithinOneGuard, AnswerAccountsForAll
<1>4. QED
  BY <1>1, <1>3

\* Every step keeps both.
LEMMA AllNextAInv == IInv /\ AInv /\ [AllNext]_allVars => IInv' /\ AInv'
<1> SUFFICES ASSUME IInv, AInv, [AllNext]_allVars PROVE IInv' /\ AInv'
  OBVIOUS
<1>1. CASE UNCHANGED allVars
  <2>1. UNCHANGED vars /\ UNCHANGED all
    BY <1>1 DEF allVars
  <2>2. IInv'
    BY <2>1, NextIInv
  <2>3. AInv'
    BY <2>1, TasksGoOn DEF vars
  <2>4. QED
    BY <2>2, <2>3
<1>2. CASE AllCalled \/ AllAnswers \/ AllCancelled \/ AllDelivered
  <2>1. UNCHANGED vars \/ AllCancelled
    BY <1>2 DEF AllCalled, AllAnswers, AllDelivered
  <2>2. IInv'
    BY <2>1, NextIInv, CancelledIInv
  <2>3. QED
    BY <1>2, <2>2, EndsStep
<1>3. ASSUME NEW p \in Plugins, TaskStarts(p) \/ TaskJoined(p)
      PROVE  IInv' /\ AInv'
  <2>1. IInv'
    BY <1>3, CallStep, LeaveStep, TaskSlots DEF TaskStarts, TaskJoined
  <2>2. QED
    BY <1>3, <2>1, TaskStartsStep, TaskJoinedStep
<1>4. ASSUME NEW r \in Requests, RequestStep(r), UNCHANGED all
      PROVE  IInv' /\ AInv'
  <2>1. IInv'
    BY <1>4, NextIInv DEF Next
  <2>2. AInv'
    <3>1. /\ reqs[r].pc # "idle"
          /\ reqs'[r].pc \in {"wait", "read", "done"}
          /\ reqs'[r].plugin = reqs[r].plugin
          /\ reqs'[r].pc = "wait" =>
                reqs[r].pc = "lock" /\ reqs'[r].guard = Guard
          /\ \A x \in Requests : x # r => reqs'[x] = reqs[x]
      BY <1>4, RequestStepShape DEF IInv
    <3>2. QED
      BY <1>4, <3>1, TaskSlots, TasksGoOn
  <2>3. QED
    BY <2>1, <2>2
<1>5. ASSUME NEW r \in Requests \ Tasks, ClientStep(r), UNCHANGED all
      PROVE  IInv' /\ AInv'
  <2>1. IInv'
    BY <1>5, NextIInv DEF Next
  <2>2. \A p \in Plugins : reqs'[Task[p]] = reqs[Task[p]]
    BY <1>5, ClientStepShape, TaskSlots DEF IInv
  <2>3. QED
    BY <1>5, <2>1, <2>2, TasksGoOn
<1>6. ASSUME NEW l \in Loops, LoopStep(l), UNCHANGED all
      PROVE  IInv' /\ AInv'
  <2>1. IInv'
    BY <1>6, NextIInv DEF Next
  <2>2. \A p \in Plugins :
          /\ reqs'[Task[p]].pc = reqs[Task[p]].pc
          /\ reqs'[Task[p]].plugin = reqs[Task[p]].plugin
          /\ reqs'[Task[p]].guard = reqs[Task[p]].guard
    BY <1>6, LoopStepShape, TaskSlots DEF IInv
  <2>3. QED
    BY <1>6, <2>1, <2>2, TasksGoOn
<1>7. CASE PromptTick
  <2>1. IInv'
    BY <1>7, TickStep DEF PromptTick
  <2>2. QED
    BY <1>7, <2>1, PromptTickStep
<1>8. QED
  BY <1>1, <1>2, <1>3, <1>4, <1>5, <1>6, <1>7 DEF AllNext

\* Both invariants hold in every state.
LEMMA AllInvariant == AllSpec => [](IInv /\ AInv)
BY InitAInv, AllNextAInv, PTL DEF AllSpec

(***************************************************************************)
(* /all is answered within one guard timeout, however many plugins are     *)
(* cold, slow or hung (api/mod.rs:55-56).                                  *)
(***************************************************************************)
THEOREM OneGuardSuffices == AllSpec => []AllWithinOneGuard
<1>1. AInv => AllWithinOneGuard
  BY DEF AInv
<1>2. QED
  BY <1>1, AllInvariant, PTL

(***************************************************************************)
(* The answer of /all accounts for every registered plugin, once (api/     *)
(* mod.rs:57-59).                                                          *)
(***************************************************************************)
THEOREM EveryPluginAccounted == AllSpec => []AnswerAccountsForAll
<1>1. AInv => AnswerAccountsForAll
  BY DEF AInv
<1>2. QED
  BY <1>1, AllInvariant, PTL

(***************************************************************************)
(* No task of /all outlives its request.                                   *)
(***************************************************************************)
THEOREM TasksEndWithTheirRequest == AllSpec => []NoStrayTask
<1>1. AInv => NoStrayTask
  BY DEF AInv
<1>2. QED
  BY <1>1, AllInvariant, PTL

(***************************************************************************)
(* A plugin is left out of /all only if no cycle of it was published while *)
(* its task ran, and put in only if one was.                               *)
(***************************************************************************)
THEOREM AbsenceIsHonest == AllSpec => AbsentOnlyIfUnserved
<1> DEFINE Step(p) == /\ p \in all'.parts \ all.parts => reqs[Task[p]].fresh
                      /\ p \in all'.failed \ all.failed => ~reqs[Task[p]].fresh
<1>1. IInv /\ AInv /\ [AllNext]_allVars => [\A p \in Plugins : Step(p)]_allVars
  <2> SUFFICES ASSUME IInv, AInv, AllNext, NEW p \in Plugins PROVE Step(p)
    OBVIOUS
  <2>1. CASE \E x \in Plugins : TaskJoined(x)
    <3>1. PICK x \in Plugins : TaskJoined(x)
      BY <2>1
    <3>2. /\ reqs[Task[x]].pc = "done"
          /\ \/ /\ reqs[Task[x]].answer = "200"
                /\ all' = [all EXCEPT !.parts = all.parts \cup {x}]
             \/ /\ reqs[Task[x]].answer # "200"
                /\ all' = [all EXCEPT !.failed = all.failed \cup {x}]
      BY <3>1 DEF TaskJoined
    <3>3. all.pc = "joining"
      BY <3>2, TaskSlots DEF AInv, NoStrayTask
    <3>4. reqs[Task[x]].plugin = x /\ x \in Enabled
      BY <3>2, <3>3 DEF AInv, PlaceOK
    <3>5. RequestOK(reqs[Task[x]]) /\ reqs[Task[x]] \in Request
      BY TaskSlots, SlotTypes DEF IInv, RequestsMatch
    <3>6. reqs[Task[x]].answer = "200" <=> reqs[Task[x]].fresh
      BY <3>2, <3>4, <3>5 DEF RequestOK, Request, Answer
    <3>7. QED
      BY <3>2, <3>6 DEF AInv, AllTypes
  <2>2. CASE \A x \in Plugins : ~TaskJoined(x)
    <3>1. all'.parts \subseteq all.parts /\ all'.failed \subseteq all.failed
      <4>1. CASE AllCalled \/ AllCancelled \/ AllDelivered
        <5>1. all'.parts = {} /\ all'.failed = {}
          <6>1. CASE AllCalled
            BY <6>1 DEF AllCalled, NoAll
          <6>2. CASE AllCancelled \/ AllDelivered
            BY <6>2 DEF AllCancelled, AllDelivered, NoAll
          <6>3. QED
            BY <4>1, <6>1, <6>2
        <5>2. QED
          BY <5>1
      <4>2. CASE AllAnswers \/ PromptTick \/ \E x \in Plugins : TaskStarts(x)
        BY <4>2 DEF AllAnswers, PromptTick, TaskStarts, AInv, AllTypes
      <4>3. CASE UNCHANGED all
        BY <4>3
      <4>4. QED
        BY <2>2, <4>1, <4>2, <4>3 DEF AllNext
    <3>2. QED
      BY <3>1
  <2>3. QED
    BY <2>1, <2>2
<1>2. QED
  BY <1>1, AllInvariant, PTL DEF AllSpec, AbsentOnlyIfUnserved
=============================================================================
