---------------------------- MODULE RatesProofs ----------------------------
(***************************************************************************)
(* Proofs about Rates, for any items, periods and bounds: no traffic is    *)
(* invented, an item's rate is over its own interval, and every interval   *)
(* is a real one.                                                          *)
(***************************************************************************)
EXTENDS Rates, TLAPS

-----------------------------------------------------------------------------
(* The inductive invariant *)

\* A sample was taken at some time.
HasTimestamp == last = None => prev = NoSample

\* A counter stands at most where its sample and its growth put it.
GrowthBound ==
    \A k \in DOMAIN prev : k \in unread \/ counter[k] <= prev[k] + grown[k]

\* The items of the sample were read when its timestamp was taken.
SpanIsAge == Keyed => \A k \in DOMAIN prev : span[k] = last

\* The sleeps add up to the interval they are there for.
SleptLongEnough ==
    /\ pc = "warm" => last # None /\ last + timer >= Warmup
    /\ pc = "sleep" => last # None /\ last + timer >= Refresh
    /\ pc = "start" /\ last # None => last >= Refresh

Inv == /\ TypeOK
       /\ HasTimestamp
       /\ GrowthBound
       /\ SpanIsAge
       /\ SleptLongEnough

-----------------------------------------------------------------------------
(* Lemmas *)

\* Saturating subtraction of naturals.
LEMMA SaturatingSubFacts ==
    ASSUME NEW a \in Nat, NEW b \in Nat
    PROVE  /\ SaturatingSub(a, b) \in Nat
           /\ SaturatingSub(a, b) <= a
           /\ \A c \in Nat : a <= b + c => SaturatingSub(a, b) <= c
BY DEF SaturatingSub

\* Ages only grow, and reach MaxAge.
LEMMA OlderFacts ==
    ASSUME NEW age \in Nat
    PROVE  /\ Older(age) \in Nat
           /\ Older(age) = age + 1 \/ (Older(age) = age /\ age >= MaxAge)
BY RatesAssumption DEF Older

\* A reading is of its sources and holds counts.
LEMMA ReadingFacts ==
    ASSUME TypeOK, NEW R \in SUBSET Sources, NEW Z \in MayFail(R)
    PROVE  /\ Z \subseteq R
           /\ DOMAIN Reading(R, Z) = R
           /\ Reading(R, Z) \in [R -> Counters]
           /\ \A k \in R \ Z : Reading(R, Z)[k] = counter[k]
           /\ \A k \in Z : Reading(R, Z)[k] = 0
           /\ \A k \in R : Reading(R, Z)[k] <= counter[k]
<1>1. Z \subseteq R
  BY DEF MayFail
<1>2. 0 \in Counters /\ \A k \in R : counter[k] \in Counters
  BY RatesAssumption DEF TypeOK, Counters
<1>3. \A k \in R : counter[k] >= 0 /\ counter[k] <= counter[k]
  BY <1>2 DEF Counters
<1>4. DOMAIN Reading(R, Z) = R
  BY DEF Reading
<1>5. \A k \in R : Reading(R, Z)[k] = IF k \in Z THEN 0 ELSE counter[k]
  BY DEF Reading
<1>6. Reading(R, Z) \in [R -> Counters]
  BY <1>2 DEF Reading
<1> QED
  BY <1>1, <1>3, <1>4, <1>5, <1>6

\* What the history notes of a reading keeps its types.
LEMMA NoteReadingFacts ==
    ASSUME TypeOK, NEW R \in SUBSET Sources, NEW Z \in MayFail(R),
           NoteReading(R, Z), kind' = kind
    PROVE  /\ span' \in [Sources -> Nat]
           /\ grown' \in [Sources -> Nat]
           /\ unread' \subseteq Sources
           /\ Sources' = Sources
           /\ \A k \in R : span'[k] = 0 /\ grown'[k] = 0
           /\ \A k \in Sources \ R : span'[k] = span[k] /\ grown'[k] = grown[k]
           /\ unread' = (unread \ R) \cup Z
<1>1. Z \subseteq Sources
  BY ReadingFacts
<1>2. Sources' = Sources
  BY DEF Sources, Keyed
<1> QED
  BY <1>1, <1>2 DEF NoteReading, TypeOK

-----------------------------------------------------------------------------
(* The steps *)

LEMMA InitInv == Init => Inv
<1> SUFFICES ASSUME Init PROVE Inv
  OBVIOUS
<1>1. DOMAIN NoSample = {} /\ DOMAIN NoOutput.rates = {}
  BY DEF NoSample, NoOutput
<1>2. /\ 0 \in Counters
      /\ NoSample \in [{} -> Counters]
      /\ NoOutput.rates \in [{} -> Rate]
      /\ NoOutput.elapsed = None
  BY <1>1, RatesAssumption DEF Counters, NoSample, NoOutput
<1>3. TypeOK
  BY <1>1, <1>2 DEF Init, TypeOK
<1>4. HasTimestamp /\ GrowthBound /\ SpanIsAge /\ SleptLongEnough
  BY <1>1 DEF Init, HasTimestamp, GrowthBound, SpanIsAge, SleptLongEnough
<1> QED
  BY <1>3, <1>4 DEF Inv

\* A cold start takes a baseline and sets the timer of the warm-up.
LEMMA BootstrapInv == Inv /\ Bootstrap => Inv'
<1> SUFFICES ASSUME Inv, Bootstrap PROVE Inv'
  OBVIOUS
<1>1. PICK R \in SUBSET Sources :
        \E Z \in MayFail(R) : prev' = Reading(R, Z) /\ NoteReading(R, Z)
  BY DEF Bootstrap
<1>2. PICK Z \in MayFail(R) : prev' = Reading(R, Z) /\ NoteReading(R, Z)
  BY <1>1
<1>3. TypeOK /\ kind' = kind /\ counter' = counter /\ out' = out
  BY DEF Inv, Bootstrap
<1>4. last' = 0 /\ pc' = "warm" /\ timer' = Warmup /\ Warmup \in Nat
  BY RatesAssumption DEF Bootstrap
<1>5. DOMAIN prev' = R /\ prev' \in [R -> Counters] /\ Z \subseteq R
  BY <1>2, <1>3, ReadingFacts
<1>6. /\ span' \in [Sources -> Nat] /\ grown' \in [Sources -> Nat]
      /\ unread' \subseteq Sources /\ Sources' = Sources
      /\ \A k \in R : span'[k] = 0 /\ grown'[k] = 0
      /\ unread' = (unread \ R) \cup Z
  BY <1>2, <1>3, NoteReadingFacts
<1>7. TypeOK'
  BY <1>3, <1>4, <1>5, <1>6 DEF TypeOK
<1>8. HasTimestamp'
  BY <1>4, RatesAssumption DEF HasTimestamp
<1>9. GrowthBound'
  <2> SUFFICES ASSUME NEW k \in R, k \notin Z
               PROVE  counter'[k] <= prev'[k] + grown'[k]
    BY <1>5, <1>6 DEF GrowthBound
  <2>1. prev'[k] = counter[k]
    BY <1>2, <1>3, ReadingFacts
  <2>2. counter[k] \in Nat
    BY <1>3 DEF TypeOK, Counters
  <2> QED
    BY <1>3, <1>6, <2>1, <2>2
<1>10. SpanIsAge'
  BY <1>4, <1>5, <1>6 DEF SpanIsAge
<1>11. SleptLongEnough'
  BY <1>4, RatesAssumption DEF SleptLongEnough
<1> QED
  BY <1>7, <1>8, <1>9, <1>10, <1>11 DEF Inv

\* A measured cycle: its timestamp is there and old enough.
LEMMA MeasureElapsed ==
    ASSUME Inv, Measure
    PROVE  last \in Nat /\ (last >= Warmup \/ last >= Refresh)
<1>1. last \in Nat \cup {None} /\ timer \in Nat
  BY DEF Inv, TypeOK
<1>2. CASE pc = "start" /\ ~Cold
  BY <1>1, <1>2 DEF Inv, HasTimestamp, SleptLongEnough, Cold
<1>3. CASE pc = "warm" /\ timer = 0
  BY <1>1, <1>3, RatesAssumption DEF Inv, SleptLongEnough
<1> QED
  BY <1>2, <1>3 DEF Measure

\* The rates of a cycle: their types, bounds and intervals.
LEMMA RatesOfFacts ==
    ASSUME Inv, NEW R \in SUBSET Sources, NEW Z \in MayFail(R)
    PROVE  /\ DOMAIN RatesOf(R, Z) \subseteq Sources
           /\ RatesOf(R, Z) \in [DOMAIN RatesOf(R, Z) -> Rate]
           /\ \A k \in DOMAIN RatesOf(R, Z) :
                 /\ RatesOf(R, Z)[k].delta <= RatesOf(R, Z)[k].grown
                 /\ Keyed => RatesOf(R, Z)[k].span = last
<1> DEFINE both == DOMAIN prev \cap R
           dom == IF kind = "memswap" THEN Sources ELSE both
           delta(k) == IF k \in both
                       THEN SaturatingSub(Reading(R, Z)[k], prev[k]) ELSE 0
           most(k) == IF k \in unread THEN counter[k] ELSE grown[k]
<1>1. /\ RatesOf(R, Z) = [k \in dom |-> [delta |-> delta(k), span |-> span[k],
                                        grown |-> most(k)]]
      /\ dom \subseteq Sources
  BY DEF RatesOf
<1>2. DOMAIN RatesOf(R, Z) = dom
  BY <1>1
<1>3. TypeOK /\ GrowthBound /\ SpanIsAge
  BY DEF Inv
<1>4. ASSUME NEW k \in dom
      PROVE  /\ delta(k) \in Nat /\ most(k) \in Nat /\ span[k] \in Nat
             /\ delta(k) <= most(k)
  <2>1. counter[k] \in Nat /\ grown[k] \in Nat /\ span[k] \in Nat
    BY <1>1, <1>3 DEF TypeOK, Counters
  <2>2. most(k) \in Nat
    BY <2>1
  <2>3. CASE k \notin both
    BY <2>1, <2>2, <2>3
  <2>4. CASE k \in both
    <3>1. /\ Reading(R, Z)[k] \in Nat
          /\ Reading(R, Z)[k] <= counter[k]
      BY <2>4, <1>3, ReadingFacts DEF Counters
    <3>2. prev[k] \in Nat
      BY <2>4, <1>3 DEF TypeOK, Counters
    <3>3. delta(k) = SaturatingSub(Reading(R, Z)[k], prev[k])
      BY <2>4
    <3> HIDE DEF delta
    <3>4. /\ delta(k) \in Nat /\ delta(k) <= Reading(R, Z)[k]
          /\ \A c \in Nat : Reading(R, Z)[k] <= prev[k] + c => delta(k) <= c
      BY <3>1, <3>2, <3>3, SaturatingSubFacts
    <3>5. CASE k \in unread
      BY <3>1, <3>4, <3>5, <2>1, <2>2
    <3>6. CASE k \notin unread
      <4>1. counter[k] <= prev[k] + grown[k]
        BY <3>6, <2>4, <1>3 DEF GrowthBound
      <4> QED
        BY <4>1, <3>1, <3>2, <3>4, <3>6, <2>1, <2>2
    <3> QED
      BY <3>5, <3>6
  <2> QED
    BY <2>3, <2>4
<1> HIDE DEF delta, most, dom
<1>5. Keyed => \A k \in dom : span[k] = last
  <2> SUFFICES ASSUME Keyed PROVE \A k \in dom : span[k] = last
    OBVIOUS
  <2>1. kind # "memswap"
    BY DEF Keyed
  <2>2. dom \subseteq DOMAIN prev
    BY <2>1 DEF dom
  <2> QED
    BY <2>2, <1>3 DEF SpanIsAge
<1>6. ASSUME NEW k \in dom
      PROVE  /\ RatesOf(R, Z)[k] \in Rate
             /\ RatesOf(R, Z)[k].delta <= RatesOf(R, Z)[k].grown
             /\ Keyed => RatesOf(R, Z)[k].span = last
  <2> DEFINE rec == [delta |-> delta(k), span |-> span[k], grown |-> most(k)]
  <2>1. RatesOf(R, Z)[k] = rec
    BY <1>1
  <2>2. rec.delta = delta(k) /\ rec.grown = most(k) /\ rec.span = span[k]
    OBVIOUS
  <2>3. rec \in Rate
    <3>1. delta(k) \in Nat /\ most(k) \in Nat /\ span[k] \in Nat
      BY <1>4
    <3> QED
      BY <3>1 DEF Rate
  <2> QED
    BY <1>4, <1>5, <2>1, <2>2, <2>3
<1> QED
  BY <1>1, <1>2, <1>6

LEMMA MeasureInv == Inv /\ Measure => Inv'
<1> SUFFICES ASSUME Inv, Measure PROVE Inv'
  OBVIOUS
<1>1. PICK R \in SUBSET Sources : \E Z \in MayFail(R) :
          /\ out' = [elapsed |-> last, rates |-> RatesOf(R, Z)]
          /\ prev' = NextSample(R, Z)
          /\ NoteReading(R, Z)
  BY DEF Measure
<1>2. PICK Z \in MayFail(R) :
          /\ out' = [elapsed |-> last, rates |-> RatesOf(R, Z)]
          /\ prev' = NextSample(R, Z)
          /\ NoteReading(R, Z)
  BY <1>1
<1>3. TypeOK /\ kind' = kind /\ counter' = counter
  BY DEF Inv, Measure
<1>4. last' = 0 /\ pc' = "sleep" /\ timer' = Refresh /\ Refresh \in Nat
  BY RatesAssumption DEF Measure
<1>5. /\ span' \in [Sources -> Nat] /\ grown' \in [Sources -> Nat]
      /\ unread' \subseteq Sources /\ Sources' = Sources
      /\ \A k \in R : span'[k] = 0 /\ grown'[k] = 0
      /\ \A k \in Sources \ R : grown'[k] = grown[k]
      /\ unread' = (unread \ R) \cup Z
  BY <1>2, <1>3, NoteReadingFacts
<1>6. Z \subseteq R
  BY <1>3, ReadingFacts
<1>7. /\ DOMAIN prev' \subseteq Sources
      /\ prev' \in [DOMAIN prev' -> Counters]
      /\ GrowthBound'
      /\ SpanIsAge'
  <2>1. CASE prev' = Reading(R, Z)
    <3>1. /\ DOMAIN prev' = R /\ prev' \in [R -> Counters]
          /\ \A k \in R \ Z : prev'[k] = counter[k]
      BY <2>1, <1>3, ReadingFacts
    <3>2. ASSUME NEW k \in R, k \notin unread'
          PROVE  counter'[k] <= prev'[k] + grown'[k]
      <4>1. k \notin Z /\ counter[k] \in Nat
        BY <3>2, <1>3, <1>5 DEF TypeOK, Counters
      <4> QED
        BY <4>1, <3>1, <1>3, <1>5
    <3>3. \A k \in R : span'[k] = last'
      BY <1>4, <1>5
    <3> QED
      BY <3>1, <3>2, <3>3 DEF GrowthBound, SpanIsAge
  <2>2. CASE prev' = prev /\ ~Keyed /\ (R = {} \/ prev = NoSample)
    <3>1. DOMAIN prev \subseteq Sources /\ prev \in [DOMAIN prev -> Counters]
      BY <1>3 DEF TypeOK
    <3>2. ~Keyed'
      BY <2>2, <1>3 DEF Keyed
    <3>3. CASE prev = NoSample
      <4>1. DOMAIN prev = {}
        BY <3>3 DEF NoSample
      <4> QED
        BY <4>1, <2>2, <3>1, <3>2 DEF GrowthBound, SpanIsAge
    <3>4. CASE R = {}
      <4>1. unread' = unread /\ \A k \in Sources : grown'[k] = grown[k]
        BY <3>4, <1>5, <1>6
      <4>2. GrowthBound
        BY DEF Inv
      <4> QED
        BY <4>1, <4>2, <1>3, <2>2, <3>1, <3>2 DEF GrowthBound, SpanIsAge
    <3> QED
      BY <2>2, <3>3, <3>4
  <2> QED
    BY <1>2, <2>1, <2>2 DEF NextSample, Keyed
<1>8. last \in Nat
  BY MeasureElapsed
<1>9. /\ out'.elapsed \in Nat
      /\ DOMAIN out'.rates \subseteq Sources
      /\ out'.rates \in [DOMAIN out'.rates -> Rate]
  BY <1>2, <1>8, RatesOfFacts
<1>10. TypeOK'
  BY <1>3, <1>4, <1>5, <1>7, <1>9 DEF TypeOK
<1>11. HasTimestamp'
  BY <1>4, RatesAssumption DEF HasTimestamp
<1>12. SleptLongEnough'
  BY <1>4, RatesAssumption DEF SleptLongEnough
<1> QED
  BY <1>7, <1>10, <1>11, <1>12 DEF Inv

LEMMA NextCycleInv == Inv /\ NextCycle => Inv'
<1> SUFFICES ASSUME Inv, NextCycle PROVE Inv'
  OBVIOUS
<1>1. /\ UNCHANGED <<kind, timer, counter, out, span, grown, unread>>
      /\ pc = "sleep" /\ timer = 0 /\ pc' = "start"
  BY DEF NextCycle
<1>2. TypeOK /\ HasTimestamp /\ GrowthBound /\ SpanIsAge
  BY DEF Inv
<1>3. last \in Nat /\ last >= Refresh
  BY <1>1, RatesAssumption DEF Inv, TypeOK, SleptLongEnough
<1>4. Sources' = Sources /\ Keyed' = Keyed
  BY <1>1 DEF Sources, Keyed
<1>5. CASE UNCHANGED <<prev, last>>
  <2>1. TypeOK'
    BY <1>1, <1>2, <1>4, <1>5 DEF TypeOK
  <2>2. HasTimestamp' /\ GrowthBound' /\ SpanIsAge'
    BY <1>1, <1>2, <1>4, <1>5 DEF HasTimestamp, GrowthBound, SpanIsAge
  <2>3. SleptLongEnough'
    BY <1>1, <1>3, <1>5 DEF SleptLongEnough
  <2> QED
    BY <2>1, <2>2, <2>3 DEF Inv
<1>6. CASE prev' = NoSample /\ last' = None
  <2>1. DOMAIN prev' = {} /\ prev' \in [{} -> Counters]
    BY <1>6 DEF NoSample
  <2>2. TypeOK'
    BY <1>1, <1>2, <1>4, <1>6, <2>1 DEF TypeOK
  <2>3. HasTimestamp' /\ GrowthBound' /\ SpanIsAge'
    BY <1>6, <2>1 DEF HasTimestamp, GrowthBound, SpanIsAge
  <2>4. SleptLongEnough'
    BY <1>1, <1>6 DEF SleptLongEnough
  <2> QED
    BY <2>2, <2>3, <2>4 DEF Inv
<1> QED
  BY <1>5, <1>6 DEF NextCycle

\* The system's counters move under a sample, but not past its growth.
LEMMA GrowInv == Inv /\ (\E k \in Sources : Grow(k)) => Inv'
<1> SUFFICES ASSUME Inv, NEW j \in Sources, Grow(j) PROVE Inv'
  OBVIOUS
<1>1. /\ UNCHANGED <<kind, pc, timer, prev, last, out, span, unread>>
      /\ counter[j] < MaxCount
      /\ counter' = [counter EXCEPT ![j] = counter[j] + 1]
      /\ grown' = [grown EXCEPT ![j] = IF grown[j] < MaxCount THEN grown[j] + 1
                                       ELSE grown[j]]
  BY DEF Grow
<1>2. TypeOK /\ HasTimestamp /\ GrowthBound /\ SpanIsAge /\ SleptLongEnough
  BY DEF Inv
<1>3. Sources' = Sources /\ Keyed' = Keyed
  BY <1>1 DEF Sources, Keyed
<1>4. /\ counter \in [Sources -> Counters] /\ grown \in [Sources -> Nat]
      /\ counter[j] \in Nat /\ grown[j] \in Nat /\ MaxCount \in Nat
  BY <1>2, RatesAssumption DEF TypeOK, Counters
<1>5. counter' \in [Sources -> Counters] /\ grown' \in [Sources -> Nat]
  BY <1>1, <1>4 DEF Counters
<1>6. TypeOK'
  BY <1>1, <1>2, <1>3, <1>5 DEF TypeOK
<1>7. GrowthBound'
  <2> SUFFICES ASSUME NEW k \in DOMAIN prev, k \notin unread
               PROVE  counter'[k] <= prev[k] + grown'[k]
    BY <1>1 DEF GrowthBound
  <2>1. counter[k] <= prev[k] + grown[k]
    BY <1>2 DEF GrowthBound
  <2>2. k \in Sources /\ prev[k] \in Nat
    BY <1>2 DEF TypeOK, Counters
  <2>3. CASE k # j
    BY <2>1, <2>2, <2>3, <1>1, <1>4
  <2>4. CASE k = j
    <3>1. counter'[j] = counter[j] + 1
      BY <1>1, <1>4
    <3>2. \/ grown'[j] = grown[j] + 1
          \/ grown'[j] = grown[j] /\ grown[j] >= MaxCount
      BY <1>1, <1>4
    <3> QED
      BY <2>1, <2>2, <2>4, <3>1, <3>2, <1>1, <1>4
  <2> QED
    BY <2>3, <2>4
<1>8. HasTimestamp' /\ SpanIsAge' /\ SleptLongEnough'
  BY <1>1, <1>2, <1>3 DEF HasTimestamp, SpanIsAge, SleptLongEnough
<1> QED
  BY <1>6, <1>7, <1>8 DEF Inv

LEMMA RollBackInv == Inv /\ (\E k \in Sources : RollBack(k)) => Inv'
<1> SUFFICES ASSUME Inv, NEW j \in Sources, RollBack(j) PROVE Inv'
  OBVIOUS
<1>1. /\ UNCHANGED <<kind, pc, timer, prev, last, out, span, grown, unread>>
      /\ counter' = [counter EXCEPT ![j] = 0]
  BY DEF RollBack
<1>2. TypeOK /\ HasTimestamp /\ GrowthBound /\ SpanIsAge /\ SleptLongEnough
  BY DEF Inv
<1>3. Sources' = Sources /\ Keyed' = Keyed
  BY <1>1 DEF Sources, Keyed
<1>4. counter \in [Sources -> Counters] /\ 0 \in Counters
  BY <1>2, RatesAssumption DEF TypeOK, Counters
<1>5. TypeOK'
  BY <1>1, <1>2, <1>3, <1>4 DEF TypeOK
<1>6. GrowthBound'
  <2> SUFFICES ASSUME NEW k \in DOMAIN prev, k \notin unread
               PROVE  counter'[k] <= prev[k] + grown[k]
    BY <1>1 DEF GrowthBound
  <2>1. counter[k] <= prev[k] + grown[k]
    BY <1>2 DEF GrowthBound
  <2>2. k \in Sources /\ prev[k] \in Nat /\ grown[k] \in Nat
    BY <1>2 DEF TypeOK, Counters
  <2>3. counter'[k] = IF k = j THEN 0 ELSE counter[k]
    BY <1>1, <1>4, <2>2
  <2> QED
    BY <2>1, <2>2, <2>3
<1>7. HasTimestamp' /\ SpanIsAge' /\ SleptLongEnough'
  BY <1>1, <1>2, <1>3 DEF HasTimestamp, SpanIsAge, SleptLongEnough
<1> QED
  BY <1>5, <1>6, <1>7 DEF Inv

\* Time passes for the timer, the timestamp and the history alike.
LEMMA TickInv == Inv /\ Tick => Inv'
<1> SUFFICES ASSUME Inv, Tick PROVE Inv'
  OBVIOUS
<1>1. /\ UNCHANGED <<kind, pc, counter, prev, out, grown, unread>>
      /\ timer' = IF timer > 0 THEN timer - 1 ELSE 0
      /\ last' = IF last = None THEN None ELSE Older(last)
      /\ span' = [k \in Sources |-> Older(span[k])]
  BY DEF Tick
<1>2. TypeOK /\ HasTimestamp /\ GrowthBound /\ SpanIsAge /\ SleptLongEnough
  BY DEF Inv
<1>3. Sources' = Sources /\ Keyed' = Keyed
  BY <1>1 DEF Sources, Keyed
<1>4. /\ timer \in Nat /\ last \in Nat \cup {None}
      /\ \A k \in Sources : span[k] \in Nat
  BY <1>2 DEF TypeOK
<1>5. timer' \in Nat
  BY <1>1, <1>4
<1>6. last # None =>
        /\ last \in Nat /\ last' \in Nat /\ last' # None
        /\ last' = last + 1 \/ (last' = last /\ last >= MaxAge)
  BY <1>1, <1>4, OlderFacts, RatesAssumption
<1>7. span' \in [Sources -> Nat]
  BY <1>1, <1>4, OlderFacts
<1>8. TypeOK'
  BY <1>1, <1>2, <1>3, <1>5, <1>6, <1>7 DEF TypeOK
<1>9. HasTimestamp' /\ GrowthBound'
  BY <1>1, <1>2, <1>6 DEF HasTimestamp, GrowthBound
<1>10. SpanIsAge'
  <2> SUFFICES ASSUME Keyed, NEW k \in DOMAIN prev PROVE span'[k] = last'
    BY <1>1, <1>3 DEF SpanIsAge
  <2>1. k \in Sources /\ span[k] = last
    BY <1>2 DEF TypeOK, SpanIsAge
  <2>2. last # None
    BY <2>1, <1>4, RatesAssumption
  <2> QED
    BY <2>1, <2>2, <1>1
<1>11. SleptLongEnough'
  <2>1. \A due \in {Warmup, Refresh} :
          last # None /\ last + timer >= due => last' + timer' >= due
    BY <1>1, <1>4, <1>5, <1>6, RatesAssumption
  <2>2. last # None /\ last >= Refresh => last' >= Refresh
    BY <1>6, RatesAssumption
  <2>3. last' # None => last # None
    BY <1>1
  <2> QED
    BY <1>1, <1>2, <1>6, <2>1, <2>2, <2>3 DEF SleptLongEnough
<1> QED
  BY <1>8, <1>9, <1>10, <1>11 DEF Inv

LEMMA StutterInv == Inv /\ UNCHANGED vars => Inv'
BY DEF vars, Inv, TypeOK, Sources, Keyed, HasTimestamp, GrowthBound, SpanIsAge,
       SleptLongEnough

LEMMA StepInv == Inv /\ [Next]_vars => Inv'
BY BootstrapInv, MeasureInv, NextCycleInv, GrowInv, RollBackInv, TickInv,
   StutterInv DEF Next

LEMMA Inductive == Spec => []Inv
<1> QED
  BY InitInv, StepInv, PTL DEF Spec

-----------------------------------------------------------------------------
(* The theorems *)

(***************************************************************************)
(* The plugins' state keeps its types: in particular no rate is ever       *)
(* negative, however the counters roll back (network.rs:202-205).          *)
(***************************************************************************)
THEOREM RatesTypes == Spec => []TypeOK
BY Inductive, PTL DEF Inv

\* Only Measure publishes.
LEMMA OutKept ==
    ASSUME [Next]_vars, ~Measure
    PROVE  out' = out /\ Keyed' = Keyed
BY DEF Next, vars, Bootstrap, NextCycle, Grow, RollBack, Tick, Keyed

(***************************************************************************)
(* No traffic is invented, for any items, counters and periods.            *)
(***************************************************************************)
THEOREM NothingInvented == Spec => []NoPhantomTraffic
<1>1. Init => NoPhantomTraffic
  <2>1. DOMAIN NoOutput.rates = {}
    BY DEF NoOutput
  <2> QED
    BY <2>1 DEF Init, NoPhantomTraffic
<1>2. Inv /\ NoPhantomTraffic /\ [Next]_vars => NoPhantomTraffic'
  <2> SUFFICES ASSUME Inv, NoPhantomTraffic, [Next]_vars
               PROVE  NoPhantomTraffic'
    OBVIOUS
  <2>1. CASE Measure
    <3>1. PICK R \in SUBSET Sources :
            \E Z \in MayFail(R) : out'.rates = RatesOf(R, Z)
      BY <2>1 DEF Measure
    <3>2. PICK Z \in MayFail(R) : out'.rates = RatesOf(R, Z)
      BY <3>1
    <3> QED
      BY <3>2, RatesOfFacts DEF NoPhantomTraffic
  <2>2. CASE ~Measure
    BY <2>2, OutKept DEF NoPhantomTraffic
  <2> QED
    BY <2>1, <2>2
<1> QED
  BY <1>1, <1>2, Inductive, PTL DEF Spec

(***************************************************************************)
(* The rate of an item is over the time between its own two samples.       *)
(***************************************************************************)
THEOREM IntervalsAreExact == Spec => []KeyedIntervalExact
<1>1. Init => KeyedIntervalExact
  <2>1. DOMAIN NoOutput.rates = {}
    BY DEF NoOutput
  <2> QED
    BY <2>1 DEF Init, KeyedIntervalExact
<1>2. Inv /\ KeyedIntervalExact /\ [Next]_vars => KeyedIntervalExact'
  <2> SUFFICES ASSUME Inv, KeyedIntervalExact, [Next]_vars
               PROVE  KeyedIntervalExact'
    OBVIOUS
  <2>1. CASE Measure
    <3>1. PICK R \in SUBSET Sources : \E Z \in MayFail(R) :
            out' = [elapsed |-> last, rates |-> RatesOf(R, Z)]
      BY <2>1 DEF Measure
    <3>2. PICK Z \in MayFail(R) :
            out' = [elapsed |-> last, rates |-> RatesOf(R, Z)]
      BY <3>1
    <3>3. Keyed' = Keyed
      BY <2>1 DEF Measure, Keyed
    <3> QED
      BY <3>2, <3>3, RatesOfFacts DEF KeyedIntervalExact
  <2>2. CASE ~Measure
    BY <2>2, OutKept DEF KeyedIntervalExact
  <2> QED
    BY <2>1, <2>2
<1> QED
  BY <1>1, <1>2, Inductive, PTL DEF Spec

(***************************************************************************)
(* Every published rate is over at least the shorter of the warm-up and    *)
(* the refresh.                                                            *)
(***************************************************************************)
THEOREM IntervalsAreReal == Spec => []RealInterval
<1>1. Init => RealInterval
  BY DEF Init, RealInterval
<1>2. Inv /\ RealInterval /\ [Next]_vars => RealInterval'
  <2> SUFFICES ASSUME Inv, RealInterval, [Next]_vars
               PROVE  RealInterval'
    OBVIOUS
  <2>1. CASE Measure
    <3>1. out'.elapsed = last
      BY <2>1 DEF Measure
    <3> QED
      BY <2>1, <3>1, MeasureElapsed DEF RealInterval
  <2>2. CASE ~Measure
    BY <2>2, OutKept DEF RealInterval
  <2> QED
    BY <2>1, <2>2
<1> QED
  BY <1>1, <1>2, Inductive, PTL DEF Spec
=============================================================================
