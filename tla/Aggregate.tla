----------------------------- MODULE Aggregate -----------------------------
(***************************************************************************)
(* GET /api/5/all (src/src/api/mod.rs, all_stats) over the engine: one     *)
(* task per registered plugin, each an ensure_plugin call of its own, all  *)
(* started at once and joined as they end.  Slot Task[p] of Requests is    *)
(* the task for p; the other slots are requests for single plugins.        *)
(*                                                                         *)
(* Unlike in Engine, time passes only when nobody can move at once: every  *)
(* ready task is polled before the next tick.  Collections may still take  *)
(* any time.  This is what a statement about latency has to assume.        *)
(***************************************************************************)
EXTENDS Engine

CONSTANT Task     \* [Plugins -> Requests], the slot of each task of /all

ASSUME AggregateAssumption ==
    /\ Task \in [Plugins -> Requests]
    /\ \A p, q \in Plugins : Task[p] = Task[q] => p = q

VARIABLE all      \* the /all request

allVars == <<vars, all>>

Tasks == {Task[p] : p \in Plugins}

\* No /all request; todo: tasks spawned and not yet run; parts: plugins whose
\* task was joined with a body; failed: without one; age: since it came.
NoAll == [pc |-> "idle", todo |-> {}, parts |-> {}, failed |-> {}, age |-> 0]

AllInit == Init /\ all = NoAll

-----------------------------------------------------------------------------

AllCalled ==
    /\ all.pc = "idle"
    /\ all' = [NoAll EXCEPT !.pc = "joining", !.todo = Enabled]
    /\ UNCHANGED vars

\* Mutant of MayStart: the plugins are awaited one after the other.
MayStartInTurn(p) ==
    /\ p \in all.todo
    /\ \A t \in Tasks : reqs[t].pc = "idle"

\* All tasks are spawned before any is awaited.
MayStart(p) == p \in all.todo

\* A spawned task runs for the first time and calls ensure_plugin.
TaskStarts(p) ==
    /\ MayStart(p)
    /\ Call(Task[p], p)
    /\ all' = [all EXCEPT !.todo = @ \ {p}]

\* Mutant of TaskJoined: the first failure ends the request.
TaskJoinedOrFail(p) ==
    LET t == Task[p] IN
    /\ reqs[t].pc = "done"
    /\ reqs' = [r \in Requests |->
                  IF r = t \/ (r \in Tasks /\ reqs[t].answer # "200")
                  THEN NoRequest ELSE reqs[r]]
    /\ all' = IF reqs[t].answer = "200" THEN [all EXCEPT !.parts = @ \cup {p}]
              ELSE [all EXCEPT !.failed = @ \cup {p}, !.todo = {},
                               !.pc = "answered"]
    /\ UNCHANGED <<registry, store, idle, loops>>

\* join_next: a task that failed leaves its plugin out.
TaskJoined(p) ==
    LET t == Task[p] IN
    /\ reqs[t].pc = "done"
    /\ Deliver(t)
    /\ all' = IF reqs[t].answer = "200" THEN [all EXCEPT !.parts = @ \cup {p}]
              ELSE [all EXCEPT !.failed = @ \cup {p}]

\* Mutant of AllAnswers: the answer does not wait for the last tasks.
AllAnswersEarly ==
    /\ all.pc = "joining"
    /\ all.todo = {}
    /\ all' = [all EXCEPT !.pc = "answered", !.age = 0]
    /\ UNCHANGED vars

\* join_next is None: the body is composed and sent, always with 200.
AllAnswers ==
    /\ all.pc = "joining"
    /\ all.todo = {}
    /\ \A t \in Tasks : reqs[t].pc = "idle"
    /\ all' = [all EXCEPT !.pc = "answered", !.age = 0]
    /\ UNCHANGED vars

\* The client goes away: dropping the JoinSet aborts the tasks.
AllCancelled ==
    /\ all.pc = "joining"
    /\ all' = NoAll
    /\ reqs' = [r \in Requests |-> IF r \in Tasks THEN NoRequest ELSE reqs[r]]
    /\ UNCHANGED <<registry, store, idle, loops>>

AllDelivered ==
    /\ all.pc = "answered"
    /\ all' = NoAll
    /\ UNCHANGED vars

-----------------------------------------------------------------------------

\* A request that needs no more than to be polled.
Ready(r) ==
    \/ reqs[r].pc \in {"lock", "read"}
    \/ /\ reqs[r].pc = "wait"
       /\ \/ loops[reqs[r].loop].ready
          \/ ~Live(reqs[r].loop)
          \/ reqs[r].guard = 0

PromptTick ==
    /\ \A r \in Requests : ~Ready(r)
    /\ \A p \in Plugins : ~MayStart(p)
    /\ \A t \in Tasks : reqs[t].pc # "done"
    /\ all.pc = "joining" => \E t \in Tasks : reqs[t].pc # "idle"
    /\ Tick
    /\ all' = [all EXCEPT !.age = IF all.pc = "joining" THEN @ + 1 ELSE @]

AllNext ==
    \/ AllCalled \/ AllAnswers \/ AllCancelled \/ AllDelivered
    \/ \E p \in Plugins : TaskStarts(p) \/ TaskJoined(p)
    \/ /\ \/ \E r \in Requests : RequestStep(r)
          \/ \E r \in Requests \ Tasks : ClientStep(r)
          \/ \E l \in Loops : LoopStep(l)
       /\ UNCHANGED all
    \/ PromptTick

AllSpec == AllInit /\ [][AllNext]_allVars

-----------------------------------------------------------------------------
(* Properties *)

(***************************************************************************)
(* "the latency is the slowest plugin's warm-up, not the sum" (api/mod.rs: *)
(* 55-56): however many plugins are cold, slow or hung, /all is answered   *)
(* within one guard timeout.                                               *)
(***************************************************************************)
AllWithinOneGuard == all.age <= Guard

(***************************************************************************)
(* The partial-failure policy (api/mod.rs:57-59): the answer accounts for  *)
(* every registered plugin, once; one that is absent really failed, and    *)
(* its failure took no other plugin with it.                               *)
(***************************************************************************)
AnswerAccountsForAll ==
    all.pc = "answered" =>
        /\ all.parts \cup all.failed = Enabled
        /\ all.parts \cap all.failed = {}

(***************************************************************************)
(* A plugin is left out of /all only if no cycle of it was published       *)
(* between the start of its task and the task's end, and put in only if    *)
(* one was.                                                                *)
(***************************************************************************)
AbsentOnlyIfUnserved ==
    [][\A p \in Plugins :
         /\ p \in all'.parts \ all.parts => reqs[Task[p]].fresh
         /\ p \in all'.failed \ all.failed => ~reqs[Task[p]].fresh]_allVars

(***************************************************************************)
(* A task never outlives its request: no call for /all goes on, or touches *)
(* a plugin, after the answer was composed or the client left.             *)
(***************************************************************************)
NoStrayTask ==
    all.pc # "joining" => \A t \in Tasks : reqs[t].pc = "idle"
=============================================================================
