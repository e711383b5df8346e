------------------------------- MODULE Alerts -------------------------------
(***************************************************************************)
(* The alert engine (src/src/alerts.rs): Alerts::observe, called once per  *)
(* collection cycle of every plugin, its hysteresis (reconcile), the       *)
(* idle-gap reset, the pruning of vanished items and the event journal.    *)
(*                                                                         *)
(* observe holds one std Mutex and awaits nothing, so it is one step.  A   *)
(* payload is abstracted to its items and to the level computed for each   *)
(* field that has one (level_for).  An overmounted mnt_point listed twice  *)
(* has one usage (fs.rs:104), and a second reconcile of the same level at  *)
(* the same instant changes nothing, so a payload is a set.                *)
(*                                                                         *)
(* Instants are ages: of the last cycle (last_seen) and of the pending     *)
(* window (pending_since), saturated just above what they are compared to. *)
(***************************************************************************)
EXTENDS Naturals, Sequences, FiniteSets

CONSTANTS
    Plugins,      \* the plugins that have alertable fields
    Keyed,        \* the collection plugins: key_field() is Some
    Series,       \* <<plugin, item, field>> for which resolve() is Some
    Levels,       \* the levels, "ok" among them
    None,         \* Option::None; also the item of a scalar plugin
    Refresh,      \* [Plugins -> ticks]
    MinDuration,  \* [Plugins -> ticks], effective_min_duration
    HistorySize   \* config.alerts.history_size

ASSUME AlertsAssumption ==
    /\ Keyed \subseteq Plugins
    /\ IsFiniteSet(Series)
    /\ \A s \in Series : s[1] \in Plugins
    /\ "ok" \in Levels
    /\ None \notin Levels
    /\ Refresh \in [Plugins -> Nat \ {0}]
    /\ MinDuration \in [Plugins -> Nat]
    /\ HistorySize \in Nat \ {0}

VARIABLES
    state,    \* the hysteresis map: a function on the series it has keys for
    seen,     \* age of the plugin's last observe
    history,  \* the journal
    payload,  \* the last payload of each plugin: its items and its _levels
    steady    \* history variable: for how long the same level was observed

vars == <<state, seen, history, payload, steady>>

-----------------------------------------------------------------------------

SeriesOf(p) == {s \in Series : s[1] = p}

Items(p) == {s[2] : s \in SeriesOf(p)}

\* Ages are compared with > 2 * refresh and with >= min_duration.
GapAge(p) == 2 * Refresh[p] + 1

AlertState == [committed: Levels, pending: Levels \cup {None},
               since: Nat, has: BOOLEAN]

State(committed, pending, since, has) ==
    [committed |-> committed, pending |-> pending, since |-> since, has |-> has]

Event == [series: Series, level: Levels, previous: Levels, initial: BOOLEAN]

Payload == [items: SUBSET {s[2] : s \in Series},
            levels: UNION {[S -> Levels] : S \in SUBSET Series}]

Run == [level: Levels \cup {None}, age: Nat]

LastN(q, n) == IF Len(q) <= n THEN q ELSE SubSeq(q, Len(q) - n + 1, Len(q))

\* A plugin that was never seen has no pending window, so the gap it starts
\* with resets nothing, as `None => false' does.
Init ==
    /\ state = [s \in {} |-> State("ok", None, 0, FALSE)]
    /\ seen = [p \in Plugins |-> GapAge(p)]
    /\ history = <<>>
    /\ payload = [p \in Plugins |-> [items |-> {}, levels |-> <<>>]]
    /\ steady = [s \in {} |-> [level |-> None, age |-> 0]]

-----------------------------------------------------------------------------
(* reconcile *)

\* The observation commits a transition.
Commits(st, observed, min) ==
    /\ observed # st.committed
    /\ min = 0 \/ (st.pending = observed /\ st.since >= min)

\* The state after it: back to (or moved to) a settled level, inside the same
\* window, or in a fresh one.
Reconcile(st, observed, min) ==
    IF observed = st.committed \/ Commits(st, observed, min)
    THEN State(observed, None, 0, TRUE)
    ELSE IF st.pending = observed THEN st
    ELSE State(st.committed, observed, 0, st.has)

-----------------------------------------------------------------------------
(* observe *)

\* Mutant of GapReset: the window survives the gap.
GapKeepsWindow(st) == st

GapReset(st) == [st EXCEPT !.pending = None, !.since = 0]

\* Mutant of Surviving: nothing is pruned.
SurvivingAll(p, items) == DOMAIN state

\* The keys the pruning leaves: all but those of vanished items of p.
Surviving(p, items) ==
    {s \in DOMAIN state : s[1] = p /\ p \in Keyed => s[2] \in items}

\* What reconcile starts from.
Before(p, items, s) ==
    IF s \notin Surviving(p, items) THEN State("ok", None, 0, FALSE)
    ELSE IF s[1] = p /\ seen[p] > 2 * Refresh[p] THEN GapReset(state[s])
    ELSE state[s]

\* Mutant of Transitioned: the event tells the level committed before.
TransitionedStale(p, items, levels, s) ==
    LET st == Before(p, items, s) IN
    [series |-> s, level |-> st.committed, previous |-> levels[s],
     initial |-> ~st.has]

Transitioned(p, items, levels, s) ==
    LET st == Before(p, items, s) IN
    [series |-> s, level |-> levels[s], previous |-> st.committed,
     initial |-> ~st.has]

\* Mutant of Journal: a full journal drops its newest events.
JournalDropsNewest(new) ==
    history' = SubSeq(history \o new, 1,
                   IF Len(history \o new) <= HistorySize
                   THEN Len(history \o new) ELSE HistorySize)

\* Mutant of Journal: one more event than history_size is kept.
JournalOneMore(new) == history' = LastN(history \o new, HistorySize + 1)

\* push_back of each event, pop_front while there are too many.
Journal(new) == history' = LastN(history \o new, HistorySize)

\* The payload's order of the items is not modelled: any order of the events.
Orderings(S) ==
    {q \in [1..Cardinality(S) -> S] :
        \A i, j \in 1..Cardinality(S) : q[i] = q[j] => i = j}

\* The run of equal observations of s, started anew by a gap or by pruning.
Watch(p, items, levels, s) ==
    LET gap == s[1] = p /\ seen[p] > 2 * Refresh[p]
        old == IF s \in Surviving(p, items) /\ ~gap
               THEN steady[s] ELSE [level |-> None, age |-> 0]
    IN  IF s \in DOMAIN levels /\ old.level # levels[s]
        THEN [level |-> levels[s], age |-> 0] ELSE old

\* One cycle of p whose payload has these items and computes these levels.
Cycle(p, items, levels) ==
    LET keys == Surviving(p, items) \cup DOMAIN levels
        moved == {s \in DOMAIN levels :
                    Commits(Before(p, items, s), levels[s], MinDuration[p])}
    IN  /\ seen' = [seen EXCEPT ![p] = 0]
        /\ state' = [s \in keys |->
                       IF s \in DOMAIN levels
                       THEN Reconcile(Before(p, items, s), levels[s],
                                      MinDuration[p])
                       ELSE Before(p, items, s)]
        /\ \E order \in Orderings(moved) :
              Journal([i \in 1..Cardinality(moved) |->
                         Transitioned(p, items, levels, order[i])])
        /\ payload' = [payload EXCEPT ![p] =
                         [items |-> items, levels |-> levels]]
        /\ steady' = [s \in keys |-> Watch(p, items, levels, s)]

\* A cycle: any set of items (a scalar plugin has one payload), and a level
\* for any of their fields (level_for is None for a missing field or divisor).
Observe(p) ==
    /\ SeriesOf(p) # {}
    /\ \E items \in IF p \in Keyed THEN SUBSET Items(p) ELSE {Items(p)} :
       \E S \in SUBSET {s \in SeriesOf(p) : s[2] \in items} :
       \E levels \in [S -> Levels] : Cycle(p, items, levels)

-----------------------------------------------------------------------------

Older(age, bound) == IF age < bound THEN age + 1 ELSE age

Tick ==
    /\ seen' = [p \in Plugins |-> Older(seen[p], GapAge(p))]
    /\ state' = [s \in DOMAIN state |->
                   IF state[s].pending = None THEN state[s]
                   ELSE [state[s] EXCEPT !.since = Older(@, MinDuration[s[1]])]]
    /\ steady' = [s \in DOMAIN steady |->
                    [steady[s] EXCEPT !.age = Older(@, MinDuration[s[1]])]]
    /\ UNCHANGED <<history, payload>>

\* Two cycles of a plugin are at least a refresh apart (the loop sleeps in
\* between); nothing bounds the time between them from above.
Next ==
    \/ \E p \in Plugins : seen[p] >= Refresh[p] /\ Observe(p)
    \/ Tick

Spec == Init /\ [][Next]_vars

-----------------------------------------------------------------------------
(* Properties *)

TypeOK ==
    /\ DOMAIN state \subseteq Series
    /\ state \in [DOMAIN state -> AlertState]
    /\ seen \in [Plugins -> Nat]
    /\ history \in Seq(Event)
    /\ Len(history) <= HistorySize
    /\ payload \in [Plugins -> Payload]
    /\ steady \in [DOMAIN state -> Run]

(***************************************************************************)
(* Hysteresis: the committed level of a series changes in a cycle exactly  *)
(* when that cycle observes a level that has been the only one observed    *)
(* for min_duration, with no gap in between, and it changes to that level. *)
(* No oscillation, gap or vanished item commits early, and no sustained    *)
(* breach is missed.                                                       *)
(***************************************************************************)
Committed(s) == IF s \in DOMAIN state THEN state[s].committed ELSE "ok"

Observed(p) == seen[p] # 0 /\ seen'[p] = 0

CommitsExactlyWhenSustained ==
    [][\A s \in DOMAIN state' :
         LET p == s[1]
             sustained == /\ Observed(p)
                          /\ s \in DOMAIN payload'[p].levels
                          /\ steady'[s].age >= MinDuration[p]
         IN  state'[s].committed =
                IF sustained THEN steady'[s].level ELSE Committed(s)
      ]_vars

(***************************************************************************)
(* No leak: the hysteresis map keeps nothing about an item that vanished   *)
(* from its plugin's payload, however many items come and go.              *)
(***************************************************************************)
NoStaleKeys ==
    \A s \in DOMAIN state : s[1] \in Keyed => s[2] \in payload[s[1]].items

(***************************************************************************)
(* The journal tells the story of each series: each event starts from the  *)
(* level the previous one reached, the last one is at the committed level, *)
(* and a series without events in a journal that never dropped any is at   *)
(* "ok".  Only the state of a vanished item starts over, at "ok".          *)
(***************************************************************************)
EventsOf(s) == {i \in DOMAIN history : history[i].series = s}

\* j is the first event of its series after i.
Consecutive(i, j) ==
    i < j /\ \A k \in EventsOf(history[i].series) : ~(i < k /\ k < j)

JournalTellsTheStory ==
    \A s \in DOMAIN state :
        LET restarted == s[1] \in Keyed
        IN  /\ \A i, j \in EventsOf(s) : Consecutive(i, j) =>
                  \/ history[j].previous = history[i].level /\ ~history[j].initial
                  \/ history[j].previous = "ok" /\ restarted
            /\ \A i \in EventsOf(s) : (\A j \in EventsOf(s) : j <= i) =>
                  \/ history[i].level = state[s].committed
                  \/ state[s].committed = "ok" /\ restarted
            /\ EventsOf(s) = {} /\ Len(history) < HistorySize =>
                  state[s].committed = "ok"

(***************************************************************************)
(* The journal is a ring: a cycle appends one event for each level that it *)
(* commits (the newest of them, if they are more than the journal holds),  *)
(* and what it pushes out are the oldest, when the journal is full.        *)
(***************************************************************************)
RingKeepsNewest ==
    [][LET moved == {s \in DOMAIN state' : state'[s].committed # Committed(s)}
           added == IF Cardinality(moved) <= HistorySize
                    THEN Cardinality(moved) ELSE HistorySize
       IN  \E k \in 0..Len(history) :
              /\ \A i \in k + 1..Len(history) : history'[i - k] = history[i]
              /\ Len(history') = Len(history) - k + added
              /\ k > 0 => Len(history') = HistorySize]_vars

(***************************************************************************)
(* What docs/api.md:590-593 says of is_initial: true "only for the very    *)
(* first committed level a (plugin, key, field) triple ever reaches".      *)
(***************************************************************************)
InitialOnlyOnce ==
    \A i, j \in 1..Len(history) :
        /\ i < j
        /\ history[i].series = history[j].series
        => ~history[j].initial
=============================================================================
