---------------------------- MODULE AlertsProofs ----------------------------
(***************************************************************************)
(* Theorems about Alerts, for any plugins, series, levels, refresh periods,*)
(* hysteresis windows and journal size that satisfy AlertsAssumption.      *)
(***************************************************************************)
EXTENDS Alerts, TLAPS, FiniteSetTheorems, SequenceTheorems

(***************************************************************************)
(* The inductive invariant.  CommitsExactlyWhenSustained compares the      *)
(* hysteresis state with the run of equal observations; the link is that   *)
(* the pending window is that run, unless the run is at the committed      *)
(* level or there is none.                                                 *)
(***************************************************************************)
WindowIsRun(st, run) ==
    /\ st.pending = IF run.level = st.committed THEN None ELSE run.level
    /\ st.pending # None => st.since = run.age

WindowsAreRuns == \A s \in DOMAIN state : WindowIsRun(state[s], steady[s])

IInv == TypeOK /\ NoStaleKeys /\ WindowsAreRuns

-----------------------------------------------------------------------------
(* One series in one cycle *)

\* What a cycle does to the state and the run of a series it observes.
LEMMA ObservedSeries ==
    ASSUME NEW st \in AlertState, NEW old \in Run, WindowIsRun(st, old),
           NEW observed \in Levels, NEW min \in Nat,
           NEW run,
           run = IF old.level # observed
                 THEN [level |-> observed, age |-> 0] ELSE old
    PROVE  /\ run \in Run
           /\ Reconcile(st, observed, min) \in AlertState
           /\ WindowIsRun(Reconcile(st, observed, min), run)
           /\ Reconcile(st, observed, min).committed =
                 IF run.age >= min THEN observed ELSE st.committed
           /\ run.level = observed
<1>0. observed # None
  BY AlertsAssumption
<1>1. run \in Run /\ run.level = observed
  BY DEF Run
<1>2. CASE observed = st.committed
  BY <1>0, <1>1, <1>2 DEF Reconcile, State, AlertState, WindowIsRun
<1>3. CASE observed # st.committed /\ old.level = observed
  <2>1. st.pending = observed /\ st.since = old.age /\ run = old
    BY <1>0, <1>3 DEF WindowIsRun
  <2>2. Commits(st, observed, min) <=> run.age >= min
    BY <1>1, <1>3, <2>1 DEF Commits, Run
  <2>3. QED
    BY <1>0, <1>1, <1>3, <2>1, <2>2 DEF Reconcile, State, AlertState, WindowIsRun
<1>4. CASE observed # st.committed /\ old.level # observed
  <2>1. st.pending # observed
    BY <1>0, <1>4 DEF WindowIsRun
  <2>2. run.age = 0
    BY <1>4
  <2>3. Commits(st, observed, min) <=> run.age >= min
    BY <1>4, <2>1, <2>2 DEF Commits
  <2>4. QED
    BY <1>0, <1>1, <1>4, <2>1, <2>2, <2>3
    DEF Reconcile, State, AlertState, WindowIsRun
<1>5. QED
  BY <1>2, <1>3, <1>4

-----------------------------------------------------------------------------
(* One cycle *)

\* A cycle of p with these items and levels, as Observe takes them.
CycleOf(p, items, levels) ==
    /\ p \in Plugins
    /\ seen[p] >= Refresh[p]
    /\ p \in Keyed => items \subseteq Items(p)
    /\ p \notin Keyed => items = Items(p)
    /\ DOMAIN levels \subseteq {s \in SeriesOf(p) : s[2] \in items}
    /\ levels \in [DOMAIN levels -> Levels]
    /\ Cycle(p, items, levels)

\* The run a series starts the cycle with.
RunBefore(p, items, s) ==
    IF s \in Surviving(p, items) /\ ~(s[1] = p /\ seen[p] > 2 * Refresh[p])
    THEN steady[s] ELSE [level |-> None, age |-> 0]

\* What the cycle starts from matches, and no level was committed by the gap
\* reset or the pruning.
LEMMA BeforeFacts ==
    ASSUME IInv, NEW p, NEW items, NEW levels, CycleOf(p, items, levels),
           NEW s \in Surviving(p, items) \cup DOMAIN levels
    PROVE  /\ Before(p, items, s) \in AlertState
           /\ RunBefore(p, items, s) \in Run
           /\ WindowIsRun(Before(p, items, s), RunBefore(p, items, s))
           /\ Before(p, items, s).committed =
                 IF s \in DOMAIN state THEN state[s].committed ELSE "ok"
<1>1. CASE s \notin Surviving(p, items)
  <2>1. s \notin DOMAIN state
    BY <1>1 DEF CycleOf, Surviving
  <2>2. /\ Before(p, items, s) = State("ok", None, 0, FALSE)
        /\ RunBefore(p, items, s) = [level |-> None, age |-> 0]
    BY <1>1 DEF Before, RunBefore
  <2>3. QED
    BY <2>1, <2>2, AlertsAssumption DEF State, AlertState, Run, WindowIsRun
<1>2. CASE s \in Surviving(p, items)
  <2>1. /\ s \in DOMAIN state
        /\ state[s] \in AlertState
        /\ steady[s] \in Run
        /\ WindowIsRun(state[s], steady[s])
    BY <1>2 DEF Surviving, IInv, TypeOK, WindowsAreRuns
  <2>2. CASE s[1] = p /\ seen[p] > 2 * Refresh[p]
    <3>1. /\ Before(p, items, s) = GapReset(state[s])
          /\ RunBefore(p, items, s) = [level |-> None, age |-> 0]
      BY <1>2, <2>2 DEF Before, RunBefore
    <3>2. /\ GapReset(state[s]) \in AlertState
          /\ GapReset(state[s]).pending = None
          /\ GapReset(state[s]).committed = state[s].committed
          /\ state[s].committed # None
      BY <2>1, AlertsAssumption DEF GapReset, AlertState
    <3>3. [level |-> None, age |-> 0] \in Run
      BY DEF Run
    <3>4. QED
      BY <2>1, <3>1, <3>2, <3>3 DEF WindowIsRun
  <2>3. CASE ~(s[1] = p /\ seen[p] > 2 * Refresh[p])
    <3>1. /\ Before(p, items, s) = state[s]
          /\ RunBefore(p, items, s) = steady[s]
      BY <1>2, <2>3 DEF Before, RunBefore
    <3>2. QED
      BY <2>1, <3>1
  <2>4. QED
    BY <2>2, <2>3
<1>3. QED
  BY <1>1, <1>2

\* What a cycle of p makes of each series it keeps.
LEMMA CycleSeries ==
    ASSUME IInv, NEW p, NEW items, NEW levels, CycleOf(p, items, levels),
           NEW s \in DOMAIN state'
    PROVE  /\ s \in Series
           /\ state'[s] \in AlertState
           /\ steady'[s] \in Run
           /\ WindowIsRun(state'[s], steady'[s])
           /\ s[1] \in Keyed => s[2] \in payload'[s[1]].items
           /\ state'[s].committed =
                 IF s \in DOMAIN levels /\ steady'[s].age >= MinDuration[p]
                 THEN steady'[s].level
                 ELSE IF s \in DOMAIN state THEN state[s].committed ELSE "ok"
<1> DEFINE st == Before(p, items, s)
           old == RunBefore(p, items, s)
           run == Watch(p, items, levels, s)
<1>1. /\ s \in Surviving(p, items) \cup DOMAIN levels
      /\ state'[s] = IF s \in DOMAIN levels
                     THEN Reconcile(st, levels[s], MinDuration[p]) ELSE st
      /\ steady'[s] = run
  BY DEF CycleOf, Cycle
<1>2. /\ st \in AlertState
      /\ old \in Run
      /\ WindowIsRun(st, old)
      /\ st.committed = IF s \in DOMAIN state THEN state[s].committed ELSE "ok"
  BY <1>1, BeforeFacts
<1>3. s \in Series
  BY <1>1 DEF CycleOf, SeriesOf, Surviving, IInv, TypeOK
<1>4. s[1] \in Keyed => s[2] \in payload'[s[1]].items
  <2> SUFFICES ASSUME s[1] \in Keyed PROVE s[2] \in payload'[s[1]].items
    OBVIOUS
  <2>1. payload' = [payload EXCEPT ![p] = [items |-> items, levels |-> levels]]
    BY DEF CycleOf, Cycle
  <2>2. payload \in [Plugins -> Payload]
    BY DEF IInv, TypeOK
  <2>3. CASE s[1] = p
    <3>1. s[2] \in items
      BY <1>1, <2>3 DEF CycleOf, Surviving
    <3>2. QED
      BY <2>1, <2>2, <2>3, <3>1 DEF CycleOf
  <2>4. CASE s[1] # p
    <3>1. s \in DOMAIN state
      BY <1>1, <2>4 DEF CycleOf, Surviving, SeriesOf
    <3>2. payload'[s[1]] = payload[s[1]]
      BY <1>3, <2>1, <2>2, <2>4, AlertsAssumption
    <3>3. QED
      BY <3>1, <3>2 DEF IInv, NoStaleKeys
  <2>5. QED
    BY <2>3, <2>4
<1>5. CASE s \in DOMAIN levels
  <2>1. levels[s] \in Levels /\ MinDuration[p] \in Nat
    BY <1>5, AlertsAssumption DEF CycleOf
  <2>2. run = IF old.level # levels[s]
              THEN [level |-> levels[s], age |-> 0] ELSE old
    BY <1>5 DEF Watch, RunBefore
  <2>3. QED
    BY <1>1, <1>2, <1>3, <1>4, <1>5, <2>1, <2>2, ObservedSeries
<1>6. CASE s \notin DOMAIN levels
  <2>1. run = old
    BY <1>6 DEF Watch, RunBefore
  <2>2. QED
    BY <1>1, <1>2, <1>3, <1>4, <1>6, <2>1
<1>7. QED
  BY <1>5, <1>6

-----------------------------------------------------------------------------
(* The journal *)

\* The series whose level a cycle commits.
Moved == {s \in DOMAIN state' : state'[s].committed # Committed(s)}

LEMMA MovedCommits ==
    ASSUME IInv, NEW p, NEW items, NEW levels, CycleOf(p, items, levels)
    PROVE  /\ Moved = {s \in DOMAIN levels :
                         Commits(Before(p, items, s), levels[s], MinDuration[p])}
           /\ \A s \in Moved : /\ state'[s].committed = levels[s]
                               /\ state'[s].has = TRUE
           /\ IsFiniteSet(Moved)
           /\ Moved \subseteq Series
<1> DEFINE st(s) == Before(p, items, s)
           commits(s) == Commits(st(s), levels[s], MinDuration[p])
<1>1. DOMAIN state' = Surviving(p, items) \cup DOMAIN levels
  BY DEF CycleOf, Cycle
<1>2. \A s \in DOMAIN state' :
         /\ state'[s] = IF s \in DOMAIN levels
                        THEN Reconcile(st(s), levels[s], MinDuration[p])
                        ELSE st(s)
         /\ st(s).committed = Committed(s)
  <2>1. state' = [s \in Surviving(p, items) \cup DOMAIN levels |->
                    IF s \in DOMAIN levels
                    THEN Reconcile(st(s), levels[s], MinDuration[p])
                    ELSE st(s)]
    BY DEF CycleOf, Cycle
  <2>2. \A s \in Surviving(p, items) \cup DOMAIN levels :
           st(s).committed = Committed(s)
    BY BeforeFacts DEF Committed
  <2>3. QED
    BY <1>1, <2>1, <2>2
<1>3. \A s \in DOMAIN levels :
         /\ commits(s) => /\ state'[s].committed = levels[s]
                          /\ state'[s].has = TRUE
                          /\ levels[s] # Committed(s)
         /\ ~commits(s) => state'[s].committed = Committed(s)
  <2> SUFFICES ASSUME NEW s \in DOMAIN levels
               PROVE  /\ commits(s) => /\ state'[s].committed = levels[s]
                                       /\ state'[s].has = TRUE
                                       /\ levels[s] # Committed(s)
                      /\ ~commits(s) => state'[s].committed = Committed(s)
    OBVIOUS
  <2>1. /\ state'[s] = Reconcile(st(s), levels[s], MinDuration[p])
        /\ st(s).committed = Committed(s)
    BY <1>1, <1>2
  <2>2. commits(s) => levels[s] # st(s).committed
    BY DEF Commits
  <2> HIDE DEF st
  <2>3. commits(s) => Reconcile(st(s), levels[s], MinDuration[p])
                        = State(levels[s], None, 0, TRUE)
    BY DEF Reconcile
  <2>4. ~commits(s) =>
          Reconcile(st(s), levels[s], MinDuration[p]).committed = st(s).committed
    BY DEF Reconcile, State
  <2>5. QED
    BY <2>1, <2>2, <2>3, <2>4 DEF State
<1>4. \A s \in DOMAIN state' \ DOMAIN levels : state'[s].committed = Committed(s)
  BY <1>2
<1>5. Moved = {s \in DOMAIN levels : commits(s)}
  BY <1>1, <1>3, <1>4 DEF Moved
<1>6. Moved \subseteq Series
  BY <1>5 DEF CycleOf, SeriesOf
<1>7. IsFiniteSet(Moved)
  BY <1>6, FS_Subset, AlertsAssumption
<1>8. QED
  BY <1>3, <1>5, <1>6, <1>7

\* An event that tells of a series what a cycle did to it.
Tells(e, p, items, levels) ==
    /\ e.series \in Moved
    /\ e = Transitioned(p, items, levels, e.series)

\* A cycle writes one event for each level that it commits.
LEMMA OneEventEach ==
    ASSUME IInv, NEW p, NEW items, NEW levels, CycleOf(p, items, levels)
    PROVE  \E new \in Seq(Event) :
              /\ Journal(new)
              /\ Len(new) = Cardinality(Moved)
              /\ \A i \in 1..Len(new) : Tells(new[i], p, items, levels)
              /\ \A i, j \in 1..Len(new) : new[i].series = new[j].series => i = j
              /\ \A s \in Moved : \E i \in 1..Len(new) : new[i].series = s
<1> DEFINE told(s) == Transitioned(p, items, levels, s)
           n == Cardinality(Moved)
           new(order) == [i \in 1..n |-> told(order[i])]
<1>1. n \in Nat /\ IsFiniteSet(1..n) /\ Cardinality(1..n) = n
  <2>1. IsFiniteSet(Moved)
    BY MovedCommits
  <2>2. n \in Nat
    BY <2>1, FS_CardinalityType
  <2> HIDE DEF n
  <2>3. QED
    BY <2>2, FS_Interval
<1>2. PICK order \in Orderings(Moved) : Journal(new(order))
  <2>1. Moved = {s \in DOMAIN levels :
                   Commits(Before(p, items, s), levels[s], MinDuration[p])}
    BY MovedCommits
  <2>2. QED
    BY <2>1 DEF CycleOf, Cycle
<1>3. /\ order \in [1..n -> Moved]
      /\ \A i, j \in 1..n : order[i] = order[j] => i = j
  BY <1>2 DEF Orderings
<1>4. order \in Surjection(1..n, Moved)
  <2>1. order \in Injection(1..n, Moved)
    BY <1>3 DEF Injection, IsInjective
  <2>2. QED
    BY <1>1, <2>1, MovedCommits, FS_Injection
<1>5. \A s \in Moved : told(s) \in Event /\ told(s).series = s
  <2> SUFFICES ASSUME NEW s \in Moved PROVE told(s) \in Event /\ told(s).series = s
    OBVIOUS
  <2>1. s \in DOMAIN levels /\ s \in Series
    BY MovedCommits
  <2>2. levels[s] \in Levels
    BY <2>1 DEF CycleOf
  <2>3. Before(p, items, s) \in AlertState
    BY <2>1, BeforeFacts
  <2>4. /\ Before(p, items, s).committed \in Levels
        /\ Before(p, items, s).has \in BOOLEAN
    BY <2>3 DEF AlertState
  <2>5. QED
    BY <2>1, <2>2, <2>4 DEF Transitioned, Event
<1> DEFINE q == new(order)
<1>6. \A i \in 1..n : q[i] = told(order[i]) /\ order[i] \in Moved
  BY <1>3
<1>7. q \in Seq(Event) /\ Len(q) = n
  <2>1. \A i \in 1..n : q[i] \in Event
    BY <1>5, <1>6
  <2> HIDE DEF told, n
  <2>2. QED
    BY <1>1, <2>1, IsASeq
<1>8. \A i \in 1..n : q[i].series = order[i] /\ Tells(q[i], p, items, levels)
  <2> HIDE DEF q
  <2>1. \A i \in 1..n : q[i].series = order[i]
    BY <1>5, <1>6
  <2>2. QED
    BY <1>6, <2>1 DEF Tells
<1>9. \A s \in Moved : \E i \in 1..n : order[i] = s
  BY <1>4 DEF Surjection
<1>10. Journal(q)
  BY <1>2
<1> HIDE DEF q
<1>11. /\ \A i \in 1..Len(q) : Tells(q[i], p, items, levels)
       /\ \A i, j \in 1..Len(q) : q[i].series = q[j].series => i = j
       /\ \A s \in Moved : \E i \in 1..Len(q) : q[i].series = s
  <2> HIDE DEF n
  <2>1. QED
    BY <1>3, <1>7, <1>8, <1>9
<1>12. QED
  BY <1>7, <1>10, <1>11

\* What the journal pushes out is at its front, and only if it is full.
LEMMA LastNShift ==
    ASSUME NEW T, NEW q \in Seq(T), NEW n \in Nat \ {0}
    PROVE  \E d \in 0..Len(q) :
              /\ LastN(q, n) \in Seq(T)
              /\ Len(LastN(q, n)) = Len(q) - d
              /\ Len(q) - d <= n
              /\ d > 0 => Len(q) - d = n
              /\ \A i \in 1..Len(q) - d : LastN(q, n)[i] = q[i + d]
<1>1. Len(q) \in Nat
  BY LenProperties
<1>2. CASE Len(q) <= n
  <2>1. LastN(q, n) = q
    BY <1>2 DEF LastN
  <2>2. QED
    BY <1>1, <1>2, <2>1
<1>3. CASE ~(Len(q) <= n)
  <2> DEFINE d == Len(q) - n
             r == SubSeq(q, d + 1, Len(q))
  <2>1. d \in 0..Len(q) /\ d + 1 \in Int
    BY <1>1, <1>3
  <2>2. \A i \in d + 1..Len(q) : q[i] \in T
    BY <1>1, <1>3, ElementOfSeq
  <2>3. /\ r \in Seq(T)
        /\ Len(r) = IF d + 1 <= Len(q) THEN Len(q) - (d + 1) + 1 ELSE 0
        /\ \A i \in 1..Len(q) - (d + 1) + 1 : r[i] = q[d + 1 + i - 1]
    BY <1>1, <2>1, <2>2, SubSeqProperties
  <2>4. LastN(q, n) = r
    BY <1>3 DEF LastN
  <2> HIDE DEF r
  <2>5. Len(r) = Len(q) - d /\ Len(q) - d = n
    BY <1>1, <1>3, <2>3
  <2>6. \A i \in 1..Len(q) - d : r[i] = q[i + d]
    BY <1>1, <1>3, <2>3
  <2> HIDE DEF d
  <2>7. Len(q) - d <= n
    BY <2>5
  <2>8. QED
    BY <2>1, <2>3, <2>4, <2>5, <2>6, <2>7
<1>4. QED
  BY <1>2, <1>3

LEMMA JournalShift ==
    ASSUME IInv, NEW new \in Seq(Event), Journal(new)
    PROVE  \E d \in 0..Len(history) + Len(new) :
              /\ history' \in Seq(Event)
              /\ Len(history') = Len(history) + Len(new) - d
              /\ Len(history') <= HistorySize
              /\ d > 0 => Len(history') = HistorySize
              /\ \A i \in 1..Len(history') :
                    history'[i] = IF i + d <= Len(history) THEN history[i + d]
                                  ELSE new[i + d - Len(history)]
<1> DEFINE all == history \o new
<1>1. history \in Seq(Event) /\ Len(history) \in Nat /\ Len(new) \in Nat
  BY LenProperties DEF IInv, TypeOK
<1>2. /\ all \in Seq(Event)
      /\ Len(all) = Len(history) + Len(new)
      /\ \A i \in 1..Len(history) + Len(new) :
            all[i] = IF i <= Len(history) THEN history[i]
                     ELSE new[i - Len(history)]
  BY <1>1, ConcatProperties
<1>3. history' = LastN(all, HistorySize) /\ HistorySize \in Nat \ {0}
  BY AlertsAssumption DEF Journal
<1> HIDE DEF all
<1>4. PICK d \in 0..Len(all) :
         /\ history' \in Seq(Event)
         /\ Len(history') = Len(all) - d
         /\ Len(all) - d <= HistorySize
         /\ d > 0 => Len(all) - d = HistorySize
         /\ \A i \in 1..Len(all) - d : history'[i] = all[i + d]
  <2> DEFINE kept == LastN(all, HistorySize)
  <2>0. all \in Seq(Event) /\ HistorySize \in Nat \ {0}
    BY <1>2, <1>3
  <2>1. \E d \in 0..Len(all) :
           /\ kept \in Seq(Event)
           /\ Len(kept) = Len(all) - d
           /\ Len(all) - d <= HistorySize
           /\ d > 0 => Len(all) - d = HistorySize
           /\ \A i \in 1..Len(all) - d : kept[i] = all[i + d]
    BY <2>0, LastNShift
  <2>2. history' = kept
    BY <1>3
  <2> HIDE DEF kept
  <2>3. QED
    BY <2>1, <2>2
<1>5. \A i \in 1..Len(history') :
         history'[i] = IF i + d <= Len(history) THEN history[i + d]
                       ELSE new[i + d - Len(history)]
  <2> SUFFICES ASSUME NEW i \in 1..Len(history')
               PROVE  history'[i] = IF i + d <= Len(history)
                                    THEN history[i + d]
                                    ELSE new[i + d - Len(history)]
    OBVIOUS
  <2>1. i + d \in 1..Len(history) + Len(new) /\ i \in 1..Len(all) - d
    BY <1>1, <1>2, <1>4
  <2>2. history'[i] = all[i + d]
    BY <1>4, <2>1
  <2>3. QED
    BY <1>2, <2>1, <2>2
<1>6. d \in 0..Len(history) + Len(new)
  BY <1>2
<1>7. /\ Len(history') = Len(history) + Len(new) - d
      /\ Len(history') <= HistorySize
      /\ d > 0 => Len(history') = HistorySize
  BY <1>2, <1>4
<1>8. QED
  BY <1>4, <1>5, <1>6, <1>7

\* The journal keeps its type and its bound.
LEMMA CycleJournal ==
    ASSUME IInv, NEW p, NEW items, NEW levels, CycleOf(p, items, levels)
    PROVE  history' \in Seq(Event) /\ Len(history') <= HistorySize
BY OneEventEach, JournalShift

-----------------------------------------------------------------------------
(* The step of a cycle *)

LEMMA CycleStep ==
    ASSUME IInv, NEW p, NEW items, NEW levels, CycleOf(p, items, levels)
    PROVE  IInv'
<1>1. DOMAIN state' \subseteq Series
  BY CycleSeries
<1>2. state' \in [DOMAIN state' -> AlertState]
  <2>1. state' = [s \in DOMAIN state' |-> state'[s]]
    BY DEF CycleOf, Cycle
  <2>2. QED
    BY <2>1, CycleSeries
<1>3. steady' \in [DOMAIN state' -> Run]
  <2>1. steady' = [s \in DOMAIN state' |-> steady'[s]]
    BY DEF CycleOf, Cycle
  <2>2. QED
    BY <2>1, CycleSeries
<1>4. seen' \in [Plugins -> Nat]
  BY DEF CycleOf, Cycle, IInv, TypeOK
<1>5. payload' \in [Plugins -> Payload]
  <2>1. items \subseteq {s[2] : s \in Series}
    BY DEF CycleOf, Items, SeriesOf
  <2>2. DOMAIN levels \in SUBSET Series /\ levels \in [DOMAIN levels -> Levels]
    BY DEF CycleOf, SeriesOf
  <2>3. levels \in UNION {[S -> Levels] : S \in SUBSET Series}
    BY <2>2
  <2>4. [items |-> items, levels |-> levels] \in Payload
    BY <2>1, <2>3 DEF Payload
  <2>5. QED
    BY <2>4 DEF CycleOf, Cycle, IInv, TypeOK
<1>6. TypeOK'
  BY <1>1, <1>2, <1>3, <1>4, <1>5, CycleJournal DEF TypeOK
<1>7. NoStaleKeys'
  BY CycleSeries DEF NoStaleKeys
<1>8. WindowsAreRuns'
  BY CycleSeries DEF WindowsAreRuns
<1>9. QED
  BY <1>6, <1>7, <1>8 DEF IInv

-----------------------------------------------------------------------------
(* The invariant *)

LEMMA InitIInv == Init => IInv
<1> SUFFICES ASSUME Init PROVE IInv
  OBVIOUS
<1>1. DOMAIN state = {} /\ DOMAIN steady = {}
  BY DEF Init
<1>2. /\ state \in [DOMAIN state -> AlertState]
      /\ steady \in [DOMAIN state -> Run]
  BY <1>1 DEF Init
<1>3. seen \in [Plugins -> Nat]
  BY AlertsAssumption DEF Init, GapAge
<1>4. history \in Seq(Event) /\ Len(history) <= HistorySize
  BY AlertsAssumption DEF Init
<1>5. payload \in [Plugins -> Payload]
  <2>1. <<>> \in [{} -> Levels]
    OBVIOUS
  <2>2. <<>> \in UNION {[S -> Levels] : S \in SUBSET Series}
    BY <2>1
  <2>3. [items |-> {}, levels |-> <<>>] \in Payload
    BY <2>2 DEF Payload
  <2>4. QED
    BY <2>3 DEF Init
<1>6. QED
  BY <1>1, <1>2, <1>3, <1>4, <1>5 DEF IInv, TypeOK, NoStaleKeys, WindowsAreRuns

\* Time ages a window and its run alike.
LEMMA TickStep ==
    ASSUME IInv, Tick
    PROVE  /\ IInv'
           /\ \A p \in Plugins : seen'[p] # 0
           /\ DOMAIN state' = DOMAIN state
           /\ \A s \in DOMAIN state : state'[s].committed = state[s].committed
<1>1. \A age, bound \in Nat : Older(age, bound) \in Nat
  BY DEF Older
<1>2. /\ seen' \in [Plugins -> Nat]
      /\ \A p \in Plugins : seen'[p] # 0
  <2>1. \A p \in Plugins : seen[p] \in Nat /\ GapAge(p) \in Nat \ {0}
    BY AlertsAssumption DEF IInv, TypeOK, GapAge
  <2>2. \A p \in Plugins : seen'[p] = Older(seen[p], GapAge(p))
    BY DEF Tick
  <2>3. seen' = [p \in Plugins |-> seen'[p]]
    BY DEF Tick
  <2>4. QED
    BY <2>1, <2>2, <2>3 DEF Older
<1>3. ASSUME NEW s \in DOMAIN state
      PROVE  /\ state'[s] \in AlertState
             /\ steady'[s] \in Run
             /\ WindowIsRun(state'[s], steady'[s])
             /\ state'[s].committed = state[s].committed
  <2>1. /\ state[s] \in AlertState
        /\ steady[s] \in Run
        /\ WindowIsRun(state[s], steady[s])
        /\ MinDuration[s[1]] \in Nat
        /\ DOMAIN steady = DOMAIN state
    BY <1>3, AlertsAssumption DEF IInv, TypeOK, WindowsAreRuns
  <2>2. /\ state'[s] = IF state[s].pending = None THEN state[s]
                       ELSE [state[s] EXCEPT !.since =
                                Older(@, MinDuration[s[1]])]
        /\ steady'[s] = [steady[s] EXCEPT !.age = Older(@, MinDuration[s[1]])]
    BY <1>3, <2>1 DEF Tick
  <2>3. /\ steady'[s] \in Run
        /\ steady'[s].level = steady[s].level
        /\ steady'[s].age = Older(steady[s].age, MinDuration[s[1]])
    BY <1>1, <2>1, <2>2 DEF Run
  <2>4. CASE state[s].pending = None
    BY <2>1, <2>2, <2>3, <2>4 DEF WindowIsRun
  <2>5. CASE state[s].pending # None
    <3>1. /\ state'[s] \in AlertState
          /\ state'[s].committed = state[s].committed
          /\ state'[s].pending = state[s].pending
          /\ state'[s].since = Older(state[s].since, MinDuration[s[1]])
      BY <1>1, <2>1, <2>2, <2>5 DEF AlertState
    <3>2. QED
      BY <2>1, <2>3, <2>5, <3>1 DEF WindowIsRun
  <2>6. QED
    BY <2>4, <2>5
<1>4. /\ DOMAIN state' = DOMAIN state
      /\ state' = [s \in DOMAIN state |-> state'[s]]
      /\ steady' = [s \in DOMAIN state |-> steady'[s]]
  BY DEF Tick, IInv, TypeOK
<1>5. TypeOK'
  BY <1>2, <1>3, <1>4 DEF TypeOK, IInv, Tick
<1>6. NoStaleKeys'
  BY <1>4 DEF NoStaleKeys, IInv, Tick
<1>7. WindowsAreRuns'
  BY <1>3, <1>4 DEF WindowsAreRuns
<1>8. QED
  BY <1>2, <1>3, <1>4, <1>5, <1>6, <1>7 DEF IInv

\* Every cycle Observe can take is one the lemmas above speak of.
LEMMA ObserveIsCycle ==
    ASSUME NEW p \in Plugins, seen[p] >= Refresh[p], Observe(p)
    PROVE  \E items, levels : CycleOf(p, items, levels)
<1>1. PICK items \in IF p \in Keyed THEN SUBSET Items(p) ELSE {Items(p)} :
        \E S \in SUBSET {s \in SeriesOf(p) : s[2] \in items} :
        \E levels \in [S -> Levels] : Cycle(p, items, levels)
  BY DEF Observe
<1>2. PICK S \in SUBSET {s \in SeriesOf(p) : s[2] \in items} :
        \E levels \in [S -> Levels] : Cycle(p, items, levels)
  BY <1>1
<1>3. PICK levels \in [S -> Levels] : Cycle(p, items, levels)
  BY <1>2
<1>4. CycleOf(p, items, levels)
  BY <1>1, <1>2, <1>3 DEF CycleOf
<1>5. QED
  BY <1>4

LEMMA NextIInv == IInv /\ [Next]_vars => IInv'
<1> SUFFICES ASSUME IInv, [Next]_vars PROVE IInv'
  OBVIOUS
<1>1. ASSUME NEW p \in Plugins, seen[p] >= Refresh[p], Observe(p)
      PROVE  IInv'
  BY <1>1, ObserveIsCycle, CycleStep
<1>2. CASE Tick
  BY <1>2, TickStep
<1>3. CASE UNCHANGED vars
  BY <1>3 DEF vars, IInv, TypeOK, NoStaleKeys, WindowsAreRuns
<1>4. QED
  BY <1>1, <1>2, <1>3 DEF Next

(***************************************************************************)
(* The invariant holds, whatever is observed and whenever.                 *)
(***************************************************************************)
THEOREM AlertsInvariant == Spec => []IInv
BY InitIInv, NextIInv, PTL DEF Spec

(***************************************************************************)
(* The state of alerts.rs keeps its types, and the journal its bound.      *)
(***************************************************************************)
THEOREM AlertsTypes == Spec => []TypeOK
<1>1. IInv => TypeOK
  BY DEF IInv
<1>2. QED
  BY <1>1, AlertsInvariant, PTL

(***************************************************************************)
(* Pruning leaves no hysteresis state of a vanished item behind.           *)
(***************************************************************************)
THEOREM NothingLeaks == Spec => []NoStaleKeys
<1>1. IInv => NoStaleKeys
  BY DEF IInv
<1>2. QED
  BY <1>1, AlertsInvariant, PTL

-----------------------------------------------------------------------------
(* Hysteresis *)

\* Only the plugin of a cycle was observed in it.
LEMMA ObservedInCycle ==
    ASSUME IInv, NEW p, NEW items, NEW levels, CycleOf(p, items, levels),
           NEW q \in Plugins
    PROVE  Observed(q) <=> q = p
<1>1. seen \in [Plugins -> Nat] /\ p \in Plugins
  BY DEF IInv, TypeOK, CycleOf
<1>2. seen' = [seen EXCEPT ![p] = 0]
  BY DEF CycleOf, Cycle
<1>3. seen[p] # 0
  BY <1>1, AlertsAssumption DEF CycleOf
<1>4. QED
  BY <1>1, <1>2, <1>3 DEF Observed

(***************************************************************************)
(* A level commits exactly when it was observed for the whole hysteresis   *)
(* window, for any number of levels, items and plugins, any windows and    *)
(* any pattern of cycles, gaps and vanishing items.                        *)
(***************************************************************************)
THEOREM HysteresisIsExact == Spec => CommitsExactlyWhenSustained
<1> DEFINE Sustained(s) == /\ Observed(s[1])
                           /\ s \in DOMAIN payload'[s[1]].levels
                           /\ steady'[s].age >= MinDuration[s[1]]
           Step == \A s \in DOMAIN state' :
                      state'[s].committed =
                         IF Sustained(s) THEN steady'[s].level ELSE Committed(s)
<1>1. ASSUME IInv, NEW p, NEW items, NEW levels, CycleOf(p, items, levels)
      PROVE  Step
  <2> SUFFICES ASSUME NEW s \in DOMAIN state'
               PROVE  state'[s].committed =
                         IF Sustained(s) THEN steady'[s].level ELSE Committed(s)
    OBVIOUS
  <2>1. s[1] \in Plugins
    BY <1>1, CycleSeries, AlertsAssumption
  <2>2. Observed(s[1]) <=> s[1] = p
    BY <1>1, <2>1, ObservedInCycle
  <2>3. payload'[p].levels = levels
    BY <1>1 DEF CycleOf, Cycle, IInv, TypeOK
  <2>4. s \in DOMAIN levels => s[1] = p
    BY <1>1 DEF CycleOf, SeriesOf
  <2>5. Sustained(s) <=> /\ s \in DOMAIN levels
                         /\ steady'[s].age >= MinDuration[p]
    BY <2>2, <2>3, <2>4
  <2>6. state'[s].committed =
           IF s \in DOMAIN levels /\ steady'[s].age >= MinDuration[p]
           THEN steady'[s].level
           ELSE IF s \in DOMAIN state THEN state[s].committed ELSE "ok"
    BY <1>1, CycleSeries
  <2>7. QED
    BY <2>5, <2>6 DEF Committed
<1>2. ASSUME IInv, Tick
      PROVE  Step
  <2> SUFFICES ASSUME NEW s \in DOMAIN state'
               PROVE  state'[s].committed =
                         IF Sustained(s) THEN steady'[s].level ELSE Committed(s)
    OBVIOUS
  <2>1. /\ s \in DOMAIN state
        /\ state'[s].committed = state[s].committed
    BY <1>2, TickStep
  <2>2. s[1] \in Plugins
    BY <1>2, <2>1, AlertsAssumption DEF IInv, TypeOK
  <2>3. ~Observed(s[1])
    BY <1>2, <2>2, TickStep DEF Observed
  <2>4. QED
    BY <2>1, <2>3 DEF Committed
<1>3. IInv /\ [Next]_vars => [Step]_vars
  <2> SUFFICES ASSUME IInv, Next PROVE Step
    OBVIOUS
  <2>1. ASSUME NEW p \in Plugins, seen[p] >= Refresh[p], Observe(p)
        PROVE  Step
    BY <2>1, <1>1, ObserveIsCycle
  <2>2. QED
    BY <1>2, <2>1 DEF Next
<1>4. IInv /\ [Next]_vars =>
        [\A s \in DOMAIN state' :
           LET p == s[1]
               sustained == /\ Observed(p)
                            /\ s \in DOMAIN payload'[p].levels
                            /\ steady'[s].age >= MinDuration[p]
           IN  state'[s].committed =
                  IF sustained THEN steady'[s].level ELSE Committed(s)
        ]_vars
  BY <1>3
<1>5. QED
  BY <1>4, AlertsInvariant, PTL DEF Spec, CommitsExactlyWhenSustained

(***************************************************************************)
(* The journal is a ring of the newest events: however many levels one     *)
(* cycle commits and however small the journal is, it gets one event for   *)
(* each (or as many as fit), and loses only its oldest, only when full.    *)
(***************************************************************************)
THEOREM RingIsFair == Spec => RingKeepsNewest
<1> DEFINE Step ==
       LET moved == {s \in DOMAIN state' : state'[s].committed # Committed(s)}
           added == IF Cardinality(moved) <= HistorySize
                    THEN Cardinality(moved) ELSE HistorySize
       IN  \E k \in 0..Len(history) :
              /\ \A i \in k + 1..Len(history) : history'[i - k] = history[i]
              /\ Len(history') = Len(history) - k + added
              /\ k > 0 => Len(history') = HistorySize
           added == IF Cardinality(Moved) <= HistorySize
                    THEN Cardinality(Moved) ELSE HistorySize
           Ring(k) ==
              /\ \A i \in k + 1..Len(history) : history'[i - k] = history[i]
              /\ Len(history') = Len(history) - k + added
              /\ k > 0 => Len(history') = HistorySize
<1>0. (\E k \in 0..Len(history) : Ring(k)) => Step
  BY DEF Moved
<1>1. ASSUME IInv, NEW p, NEW items, NEW levels, CycleOf(p, items, levels)
      PROVE  \E k \in 0..Len(history) : Ring(k)
  <2>1. PICK new \in Seq(Event) : Journal(new) /\ Len(new) = Cardinality(Moved)
    BY <1>1, OneEventEach
  <2>2. PICK d \in 0..Len(history) + Len(new) :
              /\ Len(history') = Len(history) + Len(new) - d
              /\ Len(history') <= HistorySize
              /\ d > 0 => Len(history') = HistorySize
              /\ \A i \in 1..Len(history') :
                    history'[i] = IF i + d <= Len(history) THEN history[i + d]
                                  ELSE new[i + d - Len(history)]
    BY <1>1, <2>1, JournalShift
  <2>3. /\ Len(history) \in Nat /\ Len(new) \in Nat /\ HistorySize \in Nat
        /\ Len(history) <= HistorySize
    BY <1>1, LenProperties, AlertsAssumption DEF IInv, TypeOK
  <2>4. CASE d <= Len(history)
    <3>1. Len(new) <= HistorySize
      BY <2>2, <2>3, <2>4
    <3>2. added = Len(new)
      BY <2>1, <3>1
    <3>3. \A i \in d + 1..Len(history) : history'[i - d] = history[i]
      BY <2>2, <2>3, <2>4
    <3>4. Ring(d)
      BY <2>2, <2>3, <3>2, <3>3
    <3>5. d \in 0..Len(history)
      BY <2>2, <2>3, <2>4
    <3> HIDE DEF Ring
    <3>6. QED
      BY <3>4, <3>5
  <2>5. CASE d > Len(history)
    <3>1. Len(new) > HistorySize \/ Len(new) = HistorySize
      BY <2>2, <2>3, <2>5
    <3>2. added = HistorySize
      BY <2>1, <3>1, <2>3
    <3>3. Ring(Len(history))
      BY <2>2, <2>3, <2>5, <3>2
    <3>4. QED
      BY <2>3, <3>3
  <2>6. QED
    BY <2>2, <2>3, <2>4, <2>5
<1>2. ASSUME IInv, Tick
      PROVE  \E k \in 0..Len(history) : Ring(k)
  <2>1. Moved = {}
    BY <1>2, TickStep DEF Moved, Committed
  <2>2. /\ added = 0 /\ history' = history
        /\ Len(history) \in Nat
    BY <1>2, <2>1, FS_EmptySet, AlertsAssumption, LenProperties
    DEF Tick, IInv, TypeOK
  <2>3. Ring(0)
    BY <2>2
  <2>4. QED
    BY <2>2, <2>3
<1>3. IInv /\ [Next]_vars => [Step]_vars
  <2> SUFFICES ASSUME IInv, Next PROVE Step
    OBVIOUS
  <2> HIDE DEF Step, Ring
  <2>1. ASSUME NEW p \in Plugins, seen[p] >= Refresh[p], Observe(p)
        PROVE  Step
    BY <2>1, <1>0, <1>1, ObserveIsCycle
  <2>2. QED
    BY <1>0, <1>2, <2>1 DEF Next
<1>4. QED
  BY <1>3, AlertsInvariant, PTL DEF Spec, RingKeepsNewest
-----------------------------------------------------------------------------
(* The story of each series *)

(***************************************************************************)
(* JournalTellsTheStory speaks of the series that have a state; between    *)
(* two lives of an item its events stay in the journal, so the inductive   *)
(* invariant speaks of every series.  A series without a state that has    *)
(* events is one of a collection plugin; an event at the committed level   *)
(* was written by the present state, which then has it on record (`has'),  *)
(* so the next event is no initial one.                                    *)
(***************************************************************************)
Follows(e, f, s) ==
    \/ f.previous = e.level /\ ~f.initial
    \/ f.previous = "ok" /\ s[1] \in Keyed

LastToldOf(e, s) ==
    IF s \in DOMAIN state
    THEN \/ e.level = state[s].committed /\ state[s].has
         \/ state[s].committed = "ok" /\ s[1] \in Keyed
    ELSE s[1] \in Keyed

StoryOf(s) ==
    /\ \A i, j \in EventsOf(s) :
          Consecutive(i, j) => Follows(history[i], history[j], s)
    /\ \A i \in EventsOf(s) :
          (\A j \in EventsOf(s) : j <= i) => LastToldOf(history[i], s)
    /\ EventsOf(s) = {} /\ Len(history) < HistorySize => Committed(s) = "ok"

StoryInv == \A s \in Series : StoryOf(s)

\* The state of a series before and after a cycle, as the journal sees it.
LEMMA CycleKeeps ==
    ASSUME IInv, NEW p, NEW items, NEW levels, CycleOf(p, items, levels),
           NEW s
    PROVE  /\ s \in DOMAIN state \ DOMAIN state' => s[1] \in Keyed
           /\ s \in DOMAIN state \cap DOMAIN state' /\ state[s].has
                 => state'[s].has
           /\ s \in Moved =>
                 LET told == Transitioned(p, items, levels, s)
                 IN  /\ s \in DOMAIN state'
                     /\ state'[s].has
                     /\ told.level = state'[s].committed
                     /\ told.previous = Committed(s)
                     /\ s \in DOMAIN state => told.initial = ~state[s].has
<1> DEFINE st == Before(p, items, s)
           told == Transitioned(p, items, levels, s)
<1>1. DOMAIN state' = Surviving(p, items) \cup DOMAIN levels
  BY DEF CycleOf, Cycle
<1>2. s \in DOMAIN state \ DOMAIN state' => s[1] \in Keyed
  BY <1>1 DEF Surviving
<1>3. ASSUME s \in DOMAIN state'
      PROVE  /\ st.committed = Committed(s)
             /\ s \in DOMAIN state => st.has = state[s].has
             /\ st.has => state'[s].has
  <2>1. st \in AlertState /\ st.committed = Committed(s)
    BY <1>1, <1>3, BeforeFacts DEF Committed
  <2>2. s \in DOMAIN state => s \in Surviving(p, items)
    BY <1>1, <1>3 DEF CycleOf, Surviving
  <2>3. s \in DOMAIN state => state[s] \in AlertState
    BY DEF IInv, TypeOK
  <2>4. s \in DOMAIN state => st.has = state[s].has
    BY <2>2, <2>3 DEF Before, GapReset, AlertState
  <2>5. state'[s] = IF s \in DOMAIN levels
                    THEN Reconcile(st, levels[s], MinDuration[p]) ELSE st
    BY <1>1, <1>3 DEF CycleOf, Cycle
  <2> HIDE DEF st
  <2>6. st.has => Reconcile(st, levels[s], MinDuration[p]).has
    BY DEF Reconcile, State
  <2>7. QED
    BY <2>1, <2>4, <2>5, <2>6
<1>4. ASSUME s \in Moved
      PROVE  /\ s \in DOMAIN state'
             /\ state'[s].has
             /\ told.level = state'[s].committed
             /\ told.previous = Committed(s)
             /\ s \in DOMAIN state => told.initial = ~state[s].has
  <2>1. s \in DOMAIN state'
    BY <1>4 DEF Moved
  <2>2. state'[s].committed = levels[s] /\ state'[s].has
    <3>1. state'[s].committed = levels[s] /\ state'[s].has = TRUE
      BY <1>4, MovedCommits
    <3>2. QED
      BY <3>1, Zenon
  <2>3. /\ told.level = levels[s]
        /\ told.previous = st.committed
        /\ told.initial = ~st.has
    BY DEF Transitioned
  <2> HIDE DEF st, told
  <2>4. QED
    BY <1>3, <2>1, <2>2, <2>3
<1>5. QED
  BY <1>2, <1>3, <1>4

\* The events of a series after a cycle: those of before that are left, then
\* the one that tells of the cycle.  d is the number of events pushed out.
View(d, s, told) ==
    /\ d > 0 => Len(history') = HistorySize
    /\ Len(history) - d <= Len(history')
    /\ \A i \in EventsOf(s)' :
          \/ /\ i + d \in EventsOf(s)
             /\ history'[i] = history[i + d]
          \/ /\ i + d > Len(history)
             /\ s \in Moved
             /\ history'[i] = told
             /\ \A j \in EventsOf(s)' : j <= i /\ (j # i => j + d <= Len(history))
    /\ \A i \in EventsOf(s) : i > d => i - d \in EventsOf(s)'
    /\ s \in Moved /\ d <= Len(history) =>
          \E i \in EventsOf(s)' : i + d > Len(history)

LEMMA CycleView ==
    ASSUME IInv, NEW p, NEW items, NEW levels, CycleOf(p, items, levels),
           NEW s
    PROVE  \E d \in Nat : View(d, s, Transitioned(p, items, levels, s))
<1> DEFINE told == Transitioned(p, items, levels, s)
<1>1. PICK new \in Seq(Event) :
         /\ Journal(new)
         /\ \A i \in 1..Len(new) : Tells(new[i], p, items, levels)
         /\ \A i, j \in 1..Len(new) : new[i].series = new[j].series => i = j
         /\ \A r \in Moved : \E i \in 1..Len(new) : new[i].series = r
  BY OneEventEach
<1>2. PICK d \in 0..Len(history) + Len(new) :
         /\ history' \in Seq(Event)
         /\ Len(history') = Len(history) + Len(new) - d
         /\ d > 0 => Len(history') = HistorySize
         /\ \A i \in 1..Len(history') :
               history'[i] = IF i + d <= Len(history) THEN history[i + d]
                             ELSE new[i + d - Len(history)]
  BY <1>1, JournalShift
<1> DEFINE N == Len(history)
<1>3. /\ N \in Nat /\ Len(new) \in Nat
      /\ DOMAIN history = 1..N /\ DOMAIN history' = 1..Len(history')
      /\ d \in Nat
  BY <1>2, LenProperties DEF IInv, TypeOK
<1>4. ASSUME NEW i \in EventsOf(s)', i + d > N
      PROVE  /\ i + d - N \in 1..Len(new)
             /\ history'[i] = new[i + d - N]
             /\ new[i + d - N].series = s
  BY <1>2, <1>3, <1>4 DEF EventsOf
<1>5. ASSUME NEW i \in EventsOf(s)', i + d > N
      PROVE  /\ s \in Moved
             /\ history'[i] = told
             /\ \A j \in EventsOf(s)' : j <= i /\ (j # i => j + d <= N)
  <2>1. s \in Moved /\ history'[i] = told
    BY <1>1, <1>4, <1>5 DEF Tells
  <2>2. ASSUME NEW j \in EventsOf(s)', j + d > N
        PROVE  j = i
    <3>1. i \in Int /\ j \in Int
      BY <1>3 DEF EventsOf
    <3>2. i + d - N = j + d - N
      BY <1>1, <1>4, <1>5, <2>2
    <3>3. QED
      BY <1>3, <3>1, <3>2
  <2>3. \A j \in EventsOf(s)' : j \in Int
    BY <1>3 DEF EventsOf
  <2>4. ASSUME NEW j \in EventsOf(s)'
        PROVE  j <= i /\ (j # i => j + d <= N)
    <3>1. j + d > N \/ j + d <= N
      BY <1>3, <2>3
    <3>2. CASE j + d > N
      BY <2>2, <2>3, <3>2
    <3>3. CASE j + d <= N
      BY <1>3, <1>5, <2>3, <3>3
    <3>4. QED
      BY <3>1, <3>2, <3>3
  <2>5. QED
    BY <2>1, <2>4
<1>6. ASSUME NEW i \in EventsOf(s)', i + d <= N
      PROVE  i + d \in EventsOf(s) /\ history'[i] = history[i + d]
  BY <1>2, <1>3, <1>6 DEF EventsOf
<1>7. ASSUME NEW i \in EventsOf(s), i > d
      PROVE  i - d \in EventsOf(s)'
  <2>1. i - d \in 1..Len(history') /\ (i - d) + d = i /\ i <= N
    BY <1>2, <1>3, <1>7 DEF EventsOf
  <2>2. history'[i - d] = history[i]
    BY <1>2, <2>1
  <2>3. QED
    BY <1>3, <2>1, <2>2 DEF EventsOf
<1>8. ASSUME s \in Moved, d <= N
      PROVE  \E i \in EventsOf(s)' : i + d > N
  <2>1. PICK k \in 1..Len(new) : new[k].series = s
    BY <1>1, <1>8
  <2>2. /\ N + k - d \in 1..Len(history')
        /\ (N + k - d) + d > N
        /\ (N + k - d) + d - N = k
    BY <1>2, <1>3, <1>8
  <2>3. history'[N + k - d] = new[k]
    <3> DEFINE m == N + k - d
    <3>1. m \in 1..Len(history') /\ ~(m + d <= N) /\ m + d - N = k
      BY <1>3, <2>2
    <3> HIDE DEF m
    <3>2. history'[m] = new[m + d - N]
      BY <1>2, <3>1
    <3>3. QED
      BY <3>1, <3>2 DEF m
  <2>4. N + k - d \in EventsOf(s)'
    BY <1>3, <2>1, <2>2, <2>3 DEF EventsOf
  <2>5. QED
    BY <2>2, <2>4
<1>9. \A i \in EventsOf(s)' : i + d > N \/ i + d <= N
  BY <1>3 DEF EventsOf
<1>10. Len(history) - d <= Len(history')
  BY <1>2, <1>3
<1> HIDE DEF told
<1>11. View(d, s, told)
  BY <1>2, <1>4, <1>5, <1>6, <1>7, <1>8, <1>9, <1>10 DEF View
<1>12. QED
  BY <1>3, <1>11 DEF told
LEMMA CycleStory ==
    ASSUME IInv, StoryInv, NEW p, NEW items, NEW levels,
           CycleOf(p, items, levels), NEW s \in Series
    PROVE  StoryOf(s)'
<1> DEFINE told == Transitioned(p, items, levels, s)
           N == Len(history)
           E == EventsOf(s)
<1>1. PICK d \in Nat : View(d, s, told)
  BY CycleView
<1>2. StoryOf(s)
  BY DEF StoryInv
<1>3. /\ N \in Nat /\ Len(history') \in Nat
      /\ \A i \in E : i \in 1..N /\ history[i].series = s
      /\ \A i \in E' : i \in 1..Len(history') /\ history'[i].series = s
  <2>1. history \in Seq(Event) /\ history' \in Seq(Event)
    BY CycleJournal DEF IInv, TypeOK
  <2>2. QED
    BY <2>1, LenProperties DEF EventsOf
<1>4. /\ s \in DOMAIN state \ DOMAIN state' => s[1] \in Keyed
      /\ s \in DOMAIN state \cap DOMAIN state' /\ state[s].has => state'[s].has
      /\ s \in Moved => /\ s \in DOMAIN state'
                        /\ state'[s].has
                        /\ told.level = state'[s].committed
                        /\ told.previous = Committed(s)
                        /\ s \in DOMAIN state => told.initial = ~state[s].has
  BY CycleKeeps
<1>5. s \in DOMAIN state' /\ s \notin Moved => state'[s].committed = Committed(s)
  BY DEF Moved
<1> HIDE DEF told
\* An event of before with none of s after it in the new journal but those of
\* this cycle was the last one told of s.
<1>6. ASSUME NEW i \in E', i + d \in E,
             \A k \in E' : k > i => k + d > N
      PROVE  LastToldOf(history[i + d], s)
  <2>1. ASSUME NEW k \in E, ~(k <= i + d) PROVE FALSE
    <3>1. k > d /\ k - d > i /\ ~((k - d) + d > N)
      BY <1>3, <2>1
    <3>2. k - d \in E'
      BY <1>1, <3>1 DEF View
    <3>3. QED
      BY <1>6, <3>1, <3>2
  <2>2. QED
    BY <1>2, <1>6, <2>1 DEF StoryOf
<1>7. ASSUME NEW i \in E', NEW j \in E', Consecutive(i, j)'
      PROVE  Follows(history'[i], history'[j], s)
  <2>1. /\ i < j
        /\ \A k \in E' : ~(i < k /\ k < j)
    BY <1>3, <1>7 DEF Consecutive
  <2>2. i \in Nat /\ j \in Nat
    BY <1>3
  <2>3. CASE j + d \in E /\ history'[j] = history[j + d]
    <3>1. i + d \in E /\ history'[i] = history[i + d]
      BY <1>1, <1>3, <2>1, <2>2, <2>3 DEF View
    <3>2. ASSUME NEW k \in E, i + d < k, k < j + d PROVE FALSE
      <4>1. k > d /\ i < k - d /\ k - d < j
        BY <1>3, <2>2, <3>2
      <4>2. k - d \in E'
        BY <1>1, <4>1 DEF View
      <4>3. QED
        BY <2>1, <4>1, <4>2
    <3>3. history[i + d].series = s /\ i + d < j + d
      BY <1>3, <2>1, <2>2, <3>1
    <3>4. Consecutive(i + d, j + d)
      BY <3>2, <3>3 DEF Consecutive
    <3>5. QED
      BY <1>2, <2>3, <3>1, <3>4 DEF StoryOf
  <2>4. CASE /\ j + d > N
             /\ s \in Moved
             /\ history'[j] = told
             /\ \A k \in E' : k <= j /\ (k # j => k + d <= N)
    <3>1. i + d <= N
      BY <2>1, <2>2, <2>4
    <3>2. i + d \in E /\ history'[i] = history[i + d]
      BY <1>1, <1>3, <2>2, <3>1 DEF View
    <3>3. ASSUME NEW k \in E', k > i PROVE k + d > N
      <4>1. k = j
        BY <1>3, <2>1, <2>2, <2>4, <3>3
      <4>2. QED
        BY <2>4, <4>1
    <3>4. LastToldOf(history[i + d], s)
      BY <1>6, <3>2, <3>3
    <3>5. CASE s \in DOMAIN state
      BY <1>4, <2>4, <3>2, <3>4, <3>5 DEF LastToldOf, Follows, Committed
    <3>6. CASE s \notin DOMAIN state
      BY <1>4, <2>4, <3>2, <3>4, <3>6 DEF LastToldOf, Follows, Committed
    <3>7. QED
      BY <3>5, <3>6
  <2>5. QED
    BY <1>1, <2>3, <2>4 DEF View
<1>8. ASSUME NEW i \in E', \A j \in E' : j <= i
      PROVE  LastToldOf(history[i], s)'
  <2>1. CASE /\ i + d > N
             /\ s \in Moved
             /\ history'[i] = told
    BY <1>4, <2>1 DEF LastToldOf
  <2>2. CASE i + d \in E /\ history'[i] = history[i + d]
    <3>1. i + d <= N /\ i \in Nat
      BY <1>3, <2>2
    <3>2. s \notin Moved
      <4>1. SUFFICES ASSUME s \in Moved PROVE FALSE
        OBVIOUS
      <4>2. PICK k \in E' : k + d > N
        BY <1>1, <1>3, <3>1, <4>1 DEF View
      <4>3. k <= i /\ k \in Nat
        BY <1>3, <1>8, <4>2
      <4>4. QED
        BY <3>1, <1>3, <4>2, <4>3
    <3>3. ASSUME NEW k \in E', k > i PROVE k + d > N
      BY <1>3, <1>8, <3>1, <3>3
    <3>4. LastToldOf(history[i + d], s)
      BY <1>6, <2>2, <3>3
    <3>5. CASE s \in DOMAIN state /\ s \in DOMAIN state'
      BY <1>4, <1>5, <2>2, <3>2, <3>4, <3>5 DEF LastToldOf, Committed
    <3>6. CASE s \notin DOMAIN state
      BY <1>4, <1>5, <2>2, <3>2, <3>4, <3>6 DEF LastToldOf, Committed
    <3>7. CASE s \in DOMAIN state /\ s \notin DOMAIN state'
      BY <1>4, <3>7 DEF LastToldOf
    <3>8. QED
      BY <3>5, <3>6, <3>7
  <2>3. QED
    BY <1>1, <2>1, <2>2 DEF View
<1>9. ASSUME E' = {}, Len(history') < HistorySize
      PROVE  Committed(s)' = "ok"
  <2>1. d = 0
    BY <1>1, <1>3, <1>9, AlertsAssumption DEF View
  <2>2. E = {} /\ N < HistorySize
    <3>1. \A i \in E : i > d
      BY <1>3, <2>1
    <3>2. N <= Len(history')
      BY <1>1, <1>3, <2>1 DEF View
    <3>3. QED
      BY <1>1, <1>3, <1>9, <3>1, <3>2, AlertsAssumption DEF View
  <2>3. s \notin Moved
    BY <1>1, <1>3, <1>9, <2>1 DEF View
  <2>4. Committed(s) = "ok"
    BY <1>2, <2>2 DEF StoryOf
  <2>5. QED
    BY <1>5, <2>3, <2>4 DEF Committed
<1>10. QED
  BY <1>7, <1>8, <1>9 DEF StoryOf, Follows

LEMMA InitStory == Init => StoryInv
<1> SUFFICES ASSUME Init, NEW s \in Series PROVE StoryOf(s)
  BY DEF StoryInv
<1>1. EventsOf(s) = {} /\ Committed(s) = "ok"
  BY DEF Init, EventsOf, Committed
<1>2. QED
  BY <1>1 DEF StoryOf

\* The passing of time writes no event and commits no level.
LEMMA TickStory == ASSUME IInv, StoryInv, Tick PROVE StoryInv'
<1> SUFFICES ASSUME NEW s \in Series PROVE StoryOf(s)'
  BY DEF StoryInv
<1>1. history' = history
  BY DEF Tick
<1>2. /\ DOMAIN state' = DOMAIN state
      /\ \A r \in DOMAIN state : /\ state'[r].committed = state[r].committed
                                 /\ state'[r].has = state[r].has
  <2>1. /\ DOMAIN state' = DOMAIN state
        /\ \A r \in DOMAIN state : state'[r].committed = state[r].committed
    BY TickStep
  <2>2. ASSUME NEW r \in DOMAIN state PROVE state'[r].has = state[r].has
    <3>1. state[r] \in AlertState
      BY DEF IInv, TypeOK
    <3>2. \/ state'[r] = state[r]
          \/ state'[r] = [state[r] EXCEPT !.since = Older(@, MinDuration[r[1]])]
      BY DEF Tick
    <3>3. QED
      BY <3>1, <3>2 DEF AlertState
  <2>3. QED
    BY <2>1, <2>2
<1>3. EventsOf(s)' = EventsOf(s) /\ Committed(s)' = Committed(s)
  BY <1>1, <1>2 DEF EventsOf, Committed
<1>4. \A i, j : Consecutive(i, j)' <=> Consecutive(i, j)
  BY <1>1 DEF Consecutive, EventsOf
<1>5. \A e : LastToldOf(e, s)' <=> LastToldOf(e, s)
  BY <1>2 DEF LastToldOf
<1>6. StoryOf(s)
  BY DEF StoryInv
<1>7. QED
  BY <1>1, <1>3, <1>4, <1>5, <1>6 DEF StoryOf, Follows

LEMMA NextStory == IInv /\ StoryInv /\ [Next]_vars => StoryInv'
<1> SUFFICES ASSUME IInv, StoryInv, [Next]_vars PROVE StoryInv'
  OBVIOUS
<1>1. ASSUME NEW p \in Plugins, seen[p] >= Refresh[p], Observe(p)
      PROVE  StoryInv'
  <2>1. PICK items, levels : CycleOf(p, items, levels)
    BY <1>1, ObserveIsCycle
  <2>2. \A s \in Series : StoryOf(s)'
    BY <2>1, CycleStory
  <2>3. QED
    BY <2>2 DEF StoryInv
<1>2. CASE Tick
  BY <1>2, TickStory
<1>3. CASE UNCHANGED vars
  BY <1>3 DEF vars, StoryInv, StoryOf, EventsOf, Consecutive, LastToldOf,
              Follows, Committed
<1>4. QED
  BY <1>1, <1>2, <1>3 DEF Next

(***************************************************************************)
(* The journal never contradicts itself or the state (alerts.rs:347-363):  *)
(* whatever vanishes and returns, however many series share the journal    *)
(* and whatever it has dropped, the events of a series chain up to the     *)
(* level it is at.                                                         *)
(***************************************************************************)
THEOREM StoryIsTold == Spec => []JournalTellsTheStory
<1>1. Spec => []StoryInv
  BY AlertsInvariant, InitStory, NextStory, PTL DEF Spec
<1>2. IInv /\ StoryInv => JournalTellsTheStory
  <2> SUFFICES ASSUME IInv, StoryInv, NEW s \in DOMAIN state
               PROVE  /\ \A i, j \in EventsOf(s) : Consecutive(i, j) =>
                            Follows(history[i], history[j], s)
                      /\ \A i \in EventsOf(s) : (\A j \in EventsOf(s) : j <= i) =>
                            LastToldOf(history[i], s)
                      /\ EventsOf(s) = {} /\ Len(history) < HistorySize =>
                            state[s].committed = "ok"
    BY DEF JournalTellsTheStory, Follows, LastToldOf
  <2>1. StoryOf(s)
    BY DEF StoryInv, IInv, TypeOK
  <2>2. QED
    BY <2>1 DEF StoryOf, Committed
<1>3. QED
  BY <1>1, <1>2, AlertsInvariant, PTL
=============================================================================
