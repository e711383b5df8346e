-------------------------- MODULE AlgorithmsProofs --------------------------
(***************************************************************************)
(* Proofs about Thresholds and EventTime, for all their inputs and not the *)
(* few of a model-checked instance: whatever limits an operator may write, *)
(* a configuration that starts judges samples as the documents say; and an *)
(* event of any day whatever carries that day's date.                      *)
(***************************************************************************)
EXTENDS Thresholds, EventTime, TLAPS, WellFoundedInduction

-----------------------------------------------------------------------------
(* The inductive invariant *)

\* A sample's level is the one the configuration gives it.
SampleJudged ==
    sample.level # None =>
        sample.level = LevelFor(conf, sample.item, sample.value, sample.divisor)

Inv == /\ conf \in Conf
       /\ phase = "serving" => Valid(conf)
       /\ sample.item \in BOOLEAN
       /\ SampleJudged

-----------------------------------------------------------------------------
(* Lemmas *)

LEMMA EmptyIsBlock == Empty \in Block /\ \A n \in Names : Empty[n] = None
BY DEF Empty, Block

LEMMA BlockEntries ==
    ASSUME NEW b \in Block, NEW n \in Names
    PROVE  b[n] = None \/ b[n] \in Int
BY ThresholdsAssumption DEF Block

\* The merge of two blocks, limit by limit.
LEMMA OverFacts ==
    ASSUME NEW specific \in Block \cup {None}, NEW global \in Block
    PROVE  /\ Over(specific, global) \in Block
           /\ specific = None => Over(specific, global) = global
           /\ specific # None => \A n \in Names :
                Over(specific, global)[n] =
                    IF specific[n] # None THEN specific[n] ELSE global[n]
<1>1. CASE specific = None
  BY <1>1 DEF Over
<1>2. CASE specific # None
  BY <1>2 DEF Over, Block
<1> QED
  BY <1>1, <1>2

\* The ladder every other item gets: a block, and in a valid configuration an
\* ordered one, since the built-in ladders ascend.
LEMMA EffectiveGlobalFacts ==
    ASSUME NEW c \in Conf
    PROVE  /\ EffectiveGlobal(c) \in Block
           /\ Valid(c) => Ordered(EffectiveGlobal(c))
<1>1. CASE c.global # None
  BY <1>1 DEF EffectiveGlobal, Conf, Valid
<1>2. CASE c.global = None /\ c.useBuiltin /\ c.builtin # None
  <2>1. /\ c.builtin \in [Names -> Limits]
        /\ c.builtin["careful"] <= c.builtin["warning"]
        /\ c.builtin["warning"] <= c.builtin["critical"]
    BY <1>2, ThresholdsAssumption DEF Conf
  <2>2. \A n \in Names : c.builtin[n] \in Int
    BY <2>1, ThresholdsAssumption
  <2>3. c.builtin["careful"] <= c.builtin["critical"]
    BY <2>1, <2>2 DEF Names
  <2> QED
    BY <1>2, <2>1, <2>3 DEF EffectiveGlobal, Block, Ordered, LE
<1>3. CASE c.global = None /\ ~(c.useBuiltin /\ c.builtin # None)
  BY <1>3, EmptyIsBlock DEF EffectiveGlobal, Ordered, LE, Names
<1> QED
  BY <1>1, <1>2, <1>3

\* The ladder in force, for the item with the override and for any other.
LEMMA ResolveFacts ==
    ASSUME NEW c \in Conf, NEW item \in BOOLEAN
    PROVE  /\ Resolve(c, item) \in Block
           /\ Valid(c) => Ordered(Resolve(c, item))
<1>1. /\ EffectiveGlobal(c) \in Block
      /\ Valid(c) => Ordered(EffectiveGlobal(c))
      /\ c.specific \in Block \cup {None}
  BY EffectiveGlobalFacts DEF Conf
<1>2. CASE item /\ c.specific # None
  BY <1>1, <1>2, OverFacts DEF Resolve, Valid
<1>3. CASE ~(item /\ c.specific # None)
  <2>1. Resolve(c, item) = EffectiveGlobal(c)
    BY <1>1, <1>3, OverFacts DEF Resolve
  <2> QED
    BY <1>1, <2>1
<1> QED
  BY <1>2, <1>3

\* The level is that of the highest limit that is breached.
LEMMA ComputeLevelFacts ==
    ASSUME NEW value, NEW divisor, NEW b
    PROVE  LET level == ComputeLevel(value, divisor, b)
               breached == {n \in Names : Breached(value, divisor, b[n])}
           IN  /\ level # "ok" => level \in breached
               /\ \A n \in breached : Rank(n) <= Rank(level)
<1> DEFINE level == ComputeLevel(value, divisor, b)
           over(n) == Breached(value, divisor, b[n])
<1>1. CASE over("critical")
  BY <1>1 DEF ComputeLevel, Names, Rank
<1>2. CASE ~over("critical") /\ over("warning")
  BY <1>2 DEF ComputeLevel, Names, Rank
<1>3. CASE ~over("critical") /\ ~over("warning") /\ over("careful")
  BY <1>3 DEF ComputeLevel, Names, Rank
<1>4. CASE ~over("critical") /\ ~over("warning") /\ ~over("careful")
  BY <1>4 DEF ComputeLevel, Names, Rank
<1> QED
  BY <1>1, <1>2, <1>3, <1>4

-----------------------------------------------------------------------------
(* The steps *)

LEMMA Inductive == Spec => []Inv
<1>1. Init => Inv
  BY DEF Init, Inv, NoReading, SampleJudged
<1>2. Inv /\ [Next]_vars => Inv'
  <2> SUFFICES ASSUME Inv, [Next]_vars PROVE Inv'
    OBVIOUS
  <2>1. CASE Validate
    BY <2>1 DEF Validate, Inv, SampleJudged
  <2>2. CASE Observe
    <3>1. PICK item \in BOOLEAN, value \in Values, divisor \in Divisors :
            sample' = [item |-> item, value |-> value, divisor |-> divisor,
                       level |-> LevelFor(conf, item, value, divisor)]
      BY <2>2 DEF Observe
    <3>2. phase' = phase /\ conf' = conf
      BY <2>2 DEF Observe
    <3>3. /\ sample'.item = item /\ sample'.value = value
          /\ sample'.divisor = divisor
          /\ sample'.level = LevelFor(conf, item, value, divisor)
      BY <3>1
    <3> QED
      BY <3>2, <3>3 DEF Inv, SampleJudged
  <2>3. CASE UNCHANGED vars
    BY <2>3 DEF vars, Inv, SampleJudged
  <2> QED
    BY <2>1, <2>2, <2>3 DEF Next
<1> QED
  BY <1>1, <1>2, PTL DEF Spec

-----------------------------------------------------------------------------
(* The theorems *)

(***************************************************************************)
(* A configuration that validate (config.rs:257-280) lets start has an     *)
(* ordered ladder in force for every item.                                 *)
(***************************************************************************)
THEOREM LaddersAreOrdered == Spec => []LadderInForceOrdered
<1>1. Inv => LadderInForceOrdered
  <2> SUFFICES ASSUME Inv, phase = "serving", NEW item \in BOOLEAN,
                      NEW m \in Names, NEW n \in Names,
                      Resolve(conf, item)[m] # None,
                      Resolve(conf, item)[n] # None, Rank(m) <= Rank(n)
               PROVE  Resolve(conf, item)[m] <= Resolve(conf, item)[n]
    BY DEF LadderInForceOrdered
  <2> DEFINE b == Resolve(conf, item)
  <2>1. b \in Block /\ Ordered(b)
    BY ResolveFacts DEF Inv
  <2>2. b[m] \in Int /\ b[n] \in Int
    BY <2>1, BlockEntries
  <2>3. CASE m = n
    BY <2>2, <2>3
  <2>4. CASE m # n
    <3>1. \/ m = "careful" /\ n = "warning"
          \/ m = "careful" /\ n = "critical"
          \/ m = "warning" /\ n = "critical"
      BY <2>4 DEF Names, Rank
    <3> QED
      BY <2>1, <3>1 DEF Ordered, LE
  <2> QED
    BY <2>3, <2>4
<1> QED
  BY <1>1, Inductive, PTL

(***************************************************************************)
(* Every limit in force can be seen: a sample at exactly that limit has    *)
(* its level, or one whose limit is the same number.                       *)
(***************************************************************************)
THEOREM NoLimitIsDead == Spec => []NoShadowedLimit
<1>1. Inv => NoShadowedLimit
  <2> SUFFICES ASSUME Inv, phase = "serving", NEW item \in BOOLEAN,
                      NEW n \in Names, Resolve(conf, item)[n] # None
               PROVE  LET b == Resolve(conf, item)
                          level == ComputeLevel(b[n], 1, b)
                      IN  level \in Names /\ b[level] = b[n]
    BY DEF NoShadowedLimit
  <2> DEFINE b == Resolve(conf, item)
  <2>1. b \in Block /\ Ordered(b)
    BY ResolveFacts DEF Inv
  <2>2. b[n] \in Int /\ \A k \in Names : b[k] = None \/ b[k] \in Int
    BY <2>1, BlockEntries
  <2>3. \A k \in Names : Breached(b[n], 1, b[k]) <=> b[k] # None /\ b[n] >= b[k]
    BY <2>2 DEF Breached
  <2>4. 1 * 1 = 1 /\ Names = {"careful", "warning", "critical"}
    BY DEF Names
  <2> DEFINE level == ComputeLevel(b[n], 1, b)
  <2>5. CASE Breached(b[n], 1, b["critical"])
    <3>1. level = "critical" /\ b["critical"] \in Int /\ b[n] >= b["critical"]
      BY <2>2, <2>3, <2>4, <2>5 DEF ComputeLevel
    <3>2. b[n] <= b["critical"]
      BY <2>1, <2>2, <2>4, <3>1, <2>3, <2>5 DEF Ordered, LE
    <3> QED
      BY <2>2, <2>4, <3>1, <3>2
  <2>6. CASE ~Breached(b[n], 1, b["critical"]) /\ Breached(b[n], 1, b["warning"])
    <3>1. level = "warning" /\ b["warning"] \in Int /\ b[n] >= b["warning"]
      BY <2>2, <2>3, <2>4, <2>6 DEF ComputeLevel
    <3>2. n # "critical"
      BY <2>2, <2>3, <2>6
    <3>3. b[n] <= b["warning"]
      BY <2>1, <2>2, <2>4, <3>1, <3>2, <2>3, <2>6 DEF Ordered, LE
    <3> QED
      BY <2>2, <2>4, <3>1, <3>3
  <2>7. CASE ~Breached(b[n], 1, b["critical"]) /\ ~Breached(b[n], 1, b["warning"])
    <3>1. n = "careful"
      BY <2>2, <2>3, <2>4, <2>7
    <3>2. level = "careful"
      BY <2>2, <2>3, <2>4, <2>7, <3>1 DEF ComputeLevel
    <3> QED
      BY <2>4, <3>1, <3>2
  <2> QED
    BY <2>5, <2>6, <2>7
<1> QED
  BY <1>1, Inductive, PTL

(***************************************************************************)
(* The level of every sample is the worst breached limit (alerts.rs:48-50) *)
(* of the ladder its item is to be judged by, for any limits, values and   *)
(* divisors.                                                               *)
(***************************************************************************)
THEOREM WorstBreachWins == Spec => []LevelIsWorstBreach
<1>1. Inv => LevelIsWorstBreach
  <2> SUFFICES ASSUME Inv, sample.level # None PROVE LevelIsWorstBreach
    BY DEF LevelIsWorstBreach
  <2> DEFINE b == Resolve(conf, sample.item)
             own(n) == IF sample.item /\ conf.specific # None
                          /\ conf.specific[n] # None
                       THEN conf.specific[n] ELSE EffectiveGlobal(conf)[n]
  <2>1. sample.level = ComputeLevel(sample.value, sample.divisor, b)
    BY DEF Inv, SampleJudged, LevelFor
  <2>2. \A n \in Names : own(n) = b[n]
    <3>1. /\ EffectiveGlobal(conf) \in Block
          /\ conf.specific \in Block \cup {None}
      BY EffectiveGlobalFacts DEF Inv, Conf
    <3>2. CASE sample.item /\ conf.specific # None
      <4>1. b = Over(conf.specific, EffectiveGlobal(conf))
        BY <3>2 DEF Resolve
      <4>2. ASSUME NEW n \in Names PROVE own(n) = b[n]
        <5>1. Over(conf.specific, EffectiveGlobal(conf))[n]
                = IF conf.specific[n] # None THEN conf.specific[n]
                  ELSE EffectiveGlobal(conf)[n]
          BY <3>1, <3>2 DEF Over
        <5> QED
          BY <3>2, <4>1, <5>1
      <4> QED
        BY <4>2
    <3>3. CASE ~(sample.item /\ conf.specific # None)
      <4>1. b = EffectiveGlobal(conf)
        BY <3>1, <3>3, OverFacts DEF Resolve
      <4> QED
        BY <3>3, <4>1
    <3> QED
      BY <3>2, <3>3
  <2> DEFINE breached == {n \in Names :
                            Breached(sample.value, sample.divisor, own(n))}
  <2>3. breached = {n \in Names : Breached(sample.value, sample.divisor, b[n])}
    BY <2>2
  <2>4. /\ sample.level # "ok" => sample.level \in breached
        /\ \A n \in breached : Rank(n) <= Rank(sample.level)
    BY <2>1, <2>3, ComputeLevelFacts
  <2> QED
    BY <2>4 DEF LevelIsWorstBreach
<1> QED
  BY <1>1, Inductive, PTL

(***************************************************************************)
(* The early return of observe changes nothing observable                  *)
(* (alerts.rs:263-280), for any values and divisors.                       *)
(***************************************************************************)
THEOREM BailIsHarmless == Spec => []BailChangesNothing
<1>1. BailChangesNothing
  <2> SUFFICES ASSUME ~HasThresholds(conf), NEW item \in BOOLEAN,
                      NEW value \in Values, NEW divisor \in Divisors
               PROVE  LevelFor(conf, item, value, divisor) = None
    BY DEF BailChangesNothing
  <2>1. EffectiveGlobal(conf) = Empty /\ conf.specific = None
    BY DEF HasThresholds, EffectiveGlobal
  <2>2. Resolve(conf, item) = Empty
    BY <2>1 DEF Resolve, Over
  <2> QED
    BY <2>2 DEF LevelFor
<1> QED
  BY <1>1, PTL

(***************************************************************************)
(* What /limits announces (api/mod.rs:195-277), merged limit by limit, is  *)
(* the ladder that observe judges by.                                      *)
(***************************************************************************)
THEOREM LimitsAnnounceTheLadder == Spec => []AnnouncedLimitsAreEnforced
<1>1. Inv => AnnouncedLimitsAreEnforced
  <2> SUFFICES ASSUME Inv PROVE AnnouncedLimitsAreEnforced
    OBVIOUS
  <2> DEFINE announced == LimitsFor(conf)
             global == IF announced.global = None THEN Empty
                       ELSE announced.global
  <2>1. /\ EffectiveGlobal(conf) \in Block
        /\ conf.specific \in Block \cup {None}
    BY EffectiveGlobalFacts DEF Inv, Conf
  <2>2. /\ announced.global = ThresholdsJson(EffectiveGlobal(conf))
        /\ announced.per_item = ThresholdsJson(conf.specific)
    BY DEF LimitsFor
  <2>3. EffectiveGlobal(conf) # None \/ EffectiveGlobal(conf) = Empty
    BY DEF EffectiveGlobal
  <2>4. global = EffectiveGlobal(conf)
    BY <2>2, <2>3 DEF ThresholdsJson
  <2>5. Resolve(conf, FALSE) = EffectiveGlobal(conf)
        /\ Resolve(conf, TRUE) = Over(conf.specific, EffectiveGlobal(conf))
    BY DEF Resolve, Over
  <2>6. Over(announced.per_item, EffectiveGlobal(conf))
          = Over(conf.specific, EffectiveGlobal(conf))
    <3>1. CASE conf.specific \notin {None, Empty}
      BY <2>2, <3>1 DEF ThresholdsJson
    <3>2. CASE conf.specific \in {None, Empty}
      <4>1. announced.per_item = None
        BY <2>2, <3>2 DEF ThresholdsJson
      <4>2. Over(None, EffectiveGlobal(conf)) = EffectiveGlobal(conf)
        BY DEF Over
      <4>3. Over(Empty, EffectiveGlobal(conf)) = EffectiveGlobal(conf)
        BY <2>1, EmptyIsBlock DEF Over, Block
      <4> QED
        BY <3>2, <4>1, <4>2, <4>3
    <3> QED
      BY <3>1, <3>2
  <2> HIDE DEF announced, global
  <2> QED
    BY <2>4, <2>5, <2>6 DEF AnnouncedLimitsAreEnforced, announced, global
<1> QED
  BY <1>1, Inductive, PTL

-----------------------------------------------------------------------------
(* The date of an event.  The conversion works with years that begin in    *)
(* March, so that a leap day is the last of its year.  A day is shown to   *)
(* lie in the year the conversion finds (StartOf to CivilIsDateOf); no day *)
(* lies in two years (OneYear); so the next day's date is tomorrow's, in   *)
(* the same year (NextInYear) or as the first day of the next (NextYear).  *)
(* Numbers of this size are beyond Zenon: the leaves are SMT's.            *)

\* A set of naturals that is not empty has a least element: what stands for
\* induction here, on the least number for which a claim fails.
LEMMA LeastElement ==
    ASSUME NEW T, T \subseteq Nat, T # {}
    PROVE  \E x \in T : \A y \in T : x <= y
<1> DEFINE R == {ss \in Nat \X Nat : ss[1] < ss[2]}
<1>1. IsWellFoundedOn(R, Nat)
  BY NatLessThanWellFounded, Zenon DEF OpToRel
<1> HIDE DEF R
<1>2. \E x \in T : \A y \in T : ~ (<<y, x>> \in R)
  BY <1>1, WFMin
<1>3. \A x, y \in Nat : ~ (<<y, x>> \in R) => x <= y
  BY DEF R
<1>4. QED
  BY <1>2, <1>3

\* The first day of the year that begins on 1 March of year y, counted from
\* 1 March of year 0; the leap day is that year's last.
Start(y) == 365 * y + y \div 4 - y \div 100 + y \div 400

\* Years, by era, century, four-year cycle and year of the cycle.
LEMMA StartOf ==
    ASSUME NEW era \in Nat, NEW q \in 0..3, NEW k \in 0..24, NEW j \in 0..3
    PROVE  Start(400 * era + 100 * q + 4 * k + j)
               = 146097 * era + 36524 * q + 1461 * k + 365 * j
<1> DEFINE y == 400 * era + 100 * q + 4 * k + j
<1>1. y \div 4 = 100 * era + 25 * q + k
  BY SMT
<1>2. y \div 100 = 4 * era + q
  BY SMT
<1>3. y \div 400 = era
  BY SMT
<1>4. Start(y) = 365 * y + (100 * era + 25 * q + k) - (4 * era + q) + era
  BY <1>1, <1>2, <1>3, SMT DEF Start
<1>5. QED
  BY <1>4, SMT

\* The first day of the next year.
LEMMA StartOfNext ==
    ASSUME NEW era \in Nat, NEW q \in 0..3, NEW k \in 0..24, NEW j \in 0..3
    PROVE  Start(400 * era + 100 * q + 4 * k + j + 1) =
             IF j < 3 THEN 146097 * era + 36524 * q + 1461 * k + 365 * (j + 1)
             ELSE IF k < 24 THEN 146097 * era + 36524 * q + 1461 * (k + 1)
             ELSE IF q < 3 THEN 146097 * era + 36524 * (q + 1)
             ELSE 146097 * (era + 1)
<1> DEFINE y == 400 * era + 100 * q + 4 * k + j + 1
<1>1. CASE j < 3
  <2>1. y = 400 * era + 100 * q + 4 * k + (j + 1) /\ j + 1 \in 0..3
    BY <1>1, SMT
  <2>2. Start(y) = 146097 * era + 36524 * q + 1461 * k + 365 * (j + 1)
    BY <2>1, StartOf, SMT
  <2>3. QED
    BY <1>1, <2>2, SMT
<1>2. CASE j = 3 /\ k < 24
  <2>1. /\ y = 400 * era + 100 * q + 4 * (k + 1) + 0
        /\ k + 1 \in 0..24 /\ 0 \in 0..3
    BY <1>2, SMT
  <2>2. Start(y) = 146097 * era + 36524 * q + 1461 * (k + 1) + 365 * 0
    BY <2>1, StartOf, SMT
  <2>3. QED
    BY <1>2, <2>2, SMT
<1>3. CASE j = 3 /\ k = 24 /\ q < 3
  <2>1. /\ y = 400 * era + 100 * (q + 1) + 4 * 0 + 0
        /\ q + 1 \in 0..3 /\ 0 \in 0..3 /\ 0 \in 0..24
    BY <1>3, SMT
  <2>2. Start(y) = 146097 * era + 36524 * (q + 1) + 1461 * 0 + 365 * 0
    BY <2>1, StartOf, SMT
  <2>3. QED
    BY <1>3, <2>2, SMT
<1>4. CASE j = 3 /\ k = 24 /\ q = 3
  <2> DEFINE next == era + 1
  <2>1. y = 400 * next + 100 * 0 + 4 * 0 + 0
    BY <1>4, SMT
  <2>2. next \in Nat /\ 0 \in 0..3 /\ 0 \in 0..24
    BY SMT
  <2> HIDE DEF next
  <2>3. Start(400 * next + 100 * 0 + 4 * 0 + 0)
            = 146097 * next + 36524 * 0 + 1461 * 0 + 365 * 0
    BY <2>2, StartOf, SMT
  <2>4. QED
    BY <1>4, <2>1, <2>3, SMT DEF next
<1>5. QED
  BY <1>1, <1>2, <1>3, <1>4, SMT

\* The year of a day of an era, as the conversion computes it.
Yoe(doe) == (doe - doe \div 1460 + doe \div 36524 - doe \div 146096) \div 365

\* A day of an era: day b of the four-year cycle k of the century q.
Splits(doe, q, k, b) ==
    /\ q \in 0..3 /\ k \in 0..24 /\ b \in Nat
    /\ b <= 1460
    /\ 1461 * k + b < 36524
    /\ doe = 36524 * q + 1461 * k + b

\* The year of a four-year cycle; the last one has the leap day.
Among(b) == IF b < 365 THEN 0 ELSE IF b < 730 THEN 1
            ELSE IF b < 1095 THEN 2 ELSE 3

LEMMA YoeIs ==
    ASSUME NEW doe, NEW q, NEW k, NEW b, Splits(doe, q, k, b)
    PROVE  Yoe(doe) = 100 * q + 4 * k + Among(b)
<1> USE DEF Splits
<1> DEFINE e == IF b + 24 * q + k >= 1460 THEN 1 ELSE 0
<1>1. doe \in Int /\ doe \div 36524 = q /\ doe \div 146096 = 0
  BY SMT
<1>2. /\ e \in 0..1
      /\ 1460 * e <= b + 24 * q + k
      /\ b + 24 * q + k < 1460 * e + 1460
  BY SMT
<1>3. /\ Among(b) \in 0..3
      /\ 365 * Among(b) <= b - e
      /\ b - e < 365 * Among(b) + 365
  BY SMT DEF Among
<1> HIDE DEF e
<1>4. doe \div 1460 = 25 * q + k + e
  BY <1>1, <1>2, SMT
<1>5. doe - doe \div 1460 + doe \div 36524 - doe \div 146096
          = 36500 * q + 1460 * k + b - e
  BY <1>1, <1>2, <1>4, SMT
<1>6. (36500 * q + 1460 * k + b - e) \div 365 = 100 * q + 4 * k + Among(b)
  BY <1>2, <1>3, SMT
<1>7. QED
  BY <1>5, <1>6, SMT DEF Yoe

\* A day of an era is one of a century, of a four-year cycle, or the last.
LEMMA DayOfEra ==
    ASSUME NEW doe \in Nat, doe < 146096
    PROVE  \E q, k, b : Splits(doe, q, k, b)
<1>1. PICK q \in 0..3, r \in Nat : r < 36524 /\ doe = 36524 * q + r
  <2> DEFINE q == doe \div 36524
             r == doe - 36524 * q
  <2>1. q \in 0..3 /\ r \in Nat /\ r < 36524 /\ doe = 36524 * q + r
    BY SMT
  <2> HIDE DEF q, r
  <2>2. QED
    BY <2>1, SMT
<1>2. PICK k \in 0..24, b \in Nat : b <= 1460 /\ r = 1461 * k + b
  <2> DEFINE k == r \div 1461
             b == r - 1461 * k
  <2>1. k \in 0..24 /\ b \in Nat /\ b <= 1460 /\ r = 1461 * k + b
    BY <1>1, SMT
  <2> HIDE DEF k, b
  <2>2. QED
    BY <2>1, SMT
<1>3. Splits(doe, q, k, b)
  BY <1>1, <1>2, SMT DEF Splits
<1>4. QED
  BY <1>3, SMT

\* The year that a day of an era falls in.
LEMMA YearOfEra ==
    ASSUME NEW era \in Nat, NEW doe \in Nat, doe < 146097
    PROVE  /\ Yoe(doe) \in 0..399
           /\ Start(400 * era + Yoe(doe)) <= 146097 * era + doe
           /\ 146097 * era + doe < Start(400 * era + Yoe(doe) + 1)
<1>1. CASE doe = 146096
  <2>1. doe \div 1460 = 100 /\ doe \div 36524 = 4 /\ doe \div 146096 = 1
    BY <1>1, SMT
  <2>2. Yoe(doe) = 399
    BY <1>1, <2>1, SMT DEF Yoe
  <2>3. /\ 400 * era + Yoe(doe) = 400 * era + 100 * 3 + 4 * 24 + 3
        /\ 400 * era + Yoe(doe) + 1 = 400 * era + 100 * 3 + 4 * 24 + 3 + 1
    BY <2>2, SMT
  <2>4. 3 \in 0..3 /\ 24 \in 0..24
    BY SMT
  <2>5. Start(400 * era + 100 * 3 + 4 * 24 + 3)
            = 146097 * era + 36524 * 3 + 1461 * 24 + 365 * 3
    BY <2>4, StartOf, SMT
  <2>6. Start(400 * era + 100 * 3 + 4 * 24 + 3 + 1) = 146097 * (era + 1)
    BY <2>4, StartOfNext, SMT
  <2>7. QED
    BY <1>1, <2>2, <2>3, <2>5, <2>6, SMT
<1>2. CASE doe # 146096
  <2>1. doe < 146096
    BY <1>2, SMT
  <2>2. PICK q, k, b : Splits(doe, q, k, b)
    BY <2>1, DayOfEra, SMT
  <2> DEFINE j == Among(b)
             y == 400 * era + 100 * q + 4 * k + j
  <2>3. /\ j \in 0..3
        /\ 365 * j <= b
        /\ j < 3 => b < 365 * (j + 1)
    BY <2>2, SMT DEF Among, Splits
  <2>4. Yoe(doe) = 100 * q + 4 * k + j
    BY <2>2, YoeIs, SMT
  <2> HIDE DEF j
  <2>5. q \in 0..3 /\ k \in 0..24
    BY <2>2, SMT DEF Splits
  <2>6. Start(y) = 146097 * era + 36524 * q + 1461 * k + 365 * j
    BY <2>3, <2>5, StartOf, SMT
  <2>7. Start(y + 1) =
             IF j < 3 THEN 146097 * era + 36524 * q + 1461 * k + 365 * (j + 1)
             ELSE IF k < 24 THEN 146097 * era + 36524 * q + 1461 * (k + 1)
             ELSE IF q < 3 THEN 146097 * era + 36524 * (q + 1)
             ELSE 146097 * (era + 1)
    BY <2>3, <2>5, StartOfNext, SMT
  <2>8. 146097 * era + doe < Start(y + 1)
    BY <2>2, <2>3, <2>7, SMT DEF Splits
  <2>9. Start(y) <= 146097 * era + doe
    BY <2>2, <2>3, <2>6, SMT DEF Splits
  <2>10. Yoe(doe) \in 0..399 /\ 400 * era + Yoe(doe) = y
    BY <2>3, <2>4, <2>5, SMT
  <2> HIDE DEF y
  <2>11. QED
    BY <2>8, <2>9, <2>10, SMT
<1>3. QED
  BY <1>1, <1>2, SMT

\* The first day of a month of such a year, March being month 0.
MonthStart(mp) == (153 * mp + 2) \div 5

\* The date of a day of the year that begins in March of year y.
DateOf(y, doy) ==
    LET mp == (5 * doy + 2) \div 153
        month == IF mp < 10 THEN mp + 3 ELSE mp - 9
    IN  Date(y + (IF month <= 2 THEN 1 ELSE 0), month, doy - MonthStart(mp) + 1)

\* The start of an era's year, as the conversion computes it.
LEMMA StartInEra ==
    ASSUME NEW era \in Nat, NEW yoe \in 0..399
    PROVE  Start(400 * era + yoe)
               = 146097 * era + (365 * yoe + yoe \div 4 - yoe \div 100)
<1> DEFINE y == 400 * era + yoe
<1>1. y \div 4 = 100 * era + yoe \div 4
  BY SMT
<1>2. y \div 100 = 4 * era + yoe \div 100
  BY SMT
<1>3. y \div 400 = era
  BY SMT
<1>4. yoe \div 4 \in Int /\ yoe \div 100 \in Int
  BY SMT
<1> DEFINE a == yoe \div 4
           b == yoe \div 100
<1>5. Start(y) = 365 * y + (100 * era + a) - (4 * era + b) + era
  BY <1>1, <1>2, <1>3, SMT DEF Start
<1>6. a \in Int /\ b \in Int
  BY <1>4, SMT
<1> HIDE DEF a, b
<1>7. Start(y) = 146097 * era + (365 * yoe + a - b)
  BY <1>5, <1>6, SMT
<1>8. QED
  BY <1>7, SMT DEF a, b

\* Day z, counted like the starts, is in the year that begins in March of y.
InYear(z, y) == y \in Nat /\ Start(y) <= z /\ z < Start(y + 1)

\* The conversion finds the year that began last, and the day of that year.
LEMMA CivilIsDateOf ==
    ASSUME NEW n \in Nat, NEW z, z = n + 719468
    PROVE  \E y : InYear(z, y) /\ CivilFromDays(n) = DateOf(y, z - Start(y))
<1> DEFINE era == z \div 146097
           doe == z - era * 146097
           yoe == Yoe(doe)
           doy == doe - (365 * yoe + yoe \div 4 - yoe \div 100)
           y == 400 * era + yoe
<1>1. z \in Nat /\ era \in Nat /\ doe \in Nat /\ doe < 146097
  BY SMT
<1>2. z = 146097 * era + doe
  BY SMT
<1>3. CivilFromDays(n) = DateOf(yoe + era * 400, doy)
  BY SMT DEF CivilFromDays, DateOf, Yoe, MonthStart
<1> HIDE DEF era, doe
<1>4. /\ yoe \in 0..399
      /\ Start(y) <= z
      /\ z < Start(y + 1)
  BY <1>1, <1>2, YearOfEra, SMT
<1>5. Start(y) = 146097 * era + (365 * yoe + yoe \div 4 - yoe \div 100)
  BY <1>1, <1>4, StartInEra, SMT
<1> HIDE DEF yoe
<1>6. y \in Nat /\ yoe + era * 400 = y
  BY <1>1, <1>4, SMT
<1>7. Start(y) \in Int
  BY <1>6, SMT DEF Start
<1>8. doy = z - Start(y)
  <2>1. 365 * yoe + yoe \div 4 - yoe \div 100 \in Int
    BY <1>4, SMT
  <2> DEFINE s == 365 * yoe + yoe \div 4 - yoe \div 100
  <2>2. s \in Int /\ Start(y) = 146097 * era + s /\ doy = doe - s
    BY <1>5, <2>1, SMT
  <2> HIDE DEF s, y, doy
  <2>3. QED
    BY <1>1, <1>2, <2>2, SMT
<1>9. CivilFromDays(n) = DateOf(y, z - Start(y))
  BY <1>3, <1>6, <1>8, SMT
<1>10. InYear(z, y)
  BY <1>4, <1>6, SMT DEF InYear
<1> HIDE DEF y
<1>11. QED
  BY <1>9, <1>10, SMT

\* A year that begins in March ends with the leap day, if there is one.
LEMMA YearLength ==
    ASSUME NEW y \in Nat
    PROVE  /\ Start(y) \in Int /\ Start(y + 1) \in Int
           /\ Start(y + 1) = Start(y) + (IF Leap(y + 1) THEN 366 ELSE 365)
<1>1. (y + 1) \div 4 = y \div 4 + (IF (y + 1) % 4 = 0 THEN 1 ELSE 0)
  BY SMT
<1>2. (y + 1) \div 100 = y \div 100 + (IF (y + 1) % 100 = 0 THEN 1 ELSE 0)
  BY SMT
<1>3. (y + 1) \div 400 = y \div 400 + (IF (y + 1) % 400 = 0 THEN 1 ELSE 0)
  BY SMT
<1>4. /\ (y + 1) % 400 = 0 => (y + 1) % 100 = 0
      /\ (y + 1) % 100 = 0 => (y + 1) % 4 = 0
  BY SMT
<1>5. Start(y) \in Int /\ Start(y + 1) \in Int
  BY SMT DEF Start
<1>6. QED
  BY <1>1, <1>2, <1>3, <1>4, <1>5, SMT DEF Start, Leap

LEMMA StartGrows ==
    ASSUME NEW v \in Nat, NEW w \in Nat, v <= w
    PROVE  Start(v) <= Start(w)
<1>1. w \div 4 >= v \div 4 /\ w \div 400 >= v \div 400
  BY SMT
<1>2. w \div 100 - v \div 100 <= w - v
  BY SMT
<1>3. /\ v \div 4 \in Int /\ w \div 4 \in Int
      /\ v \div 100 \in Int /\ w \div 100 \in Int
      /\ v \div 400 \in Int /\ w \div 400 \in Int
  BY SMT
<1>4. QED
  BY <1>1, <1>2, <1>3, SMT DEF Start

\* A day is in one year.
LEMMA OneYear ==
    ASSUME NEW z \in Nat, NEW v, NEW w, InYear(z, v), InYear(z, w)
    PROVE  v = w
<1>1. /\ v \in Nat /\ w \in Nat
      /\ Start(v) \in Int /\ Start(w) \in Int
      /\ Start(v + 1) \in Int /\ Start(w + 1) \in Int
  BY YearLength, SMT DEF InYear
<1>2. ~(v < w)
  <2>1. v < w => Start(v + 1) <= Start(w)
    BY <1>1, StartGrows, SMT
  <2>2. QED
    BY <1>1, <2>1, SMT DEF InYear
<1>3. ~(w < v)
  <2>1. w < v => Start(w + 1) <= Start(v)
    BY <1>1, StartGrows, SMT
  <2>2. QED
    BY <1>1, <2>1, SMT DEF InYear
<1>4. QED
  BY <1>1, <1>2, <1>3, SMT

\* Day doy of the year is in month mp.
InMonth(doy, mp) ==
    /\ doy \in Nat /\ mp \in 0..11
    /\ MonthStart(mp) <= doy /\ doy < MonthStart(mp + 1)

\* How the months follow each other; February may be shorter.
LEMMA MonthStarts ==
    /\ MonthStart(0) = 0 /\ MonthStart(11) = 337
    /\ \A mp \in 0..11 :
          /\ MonthStart(mp) \in Nat /\ MonthStart(mp + 1) \in Nat
          /\ mp # 11 => MonthStart(mp + 1) = MonthStart(mp)
                            + (IF mp \in {1, 3, 6, 8} THEN 30 ELSE 31)
          /\ MonthStart(12) = 367
BY SMT DEF MonthStart

LEMMA MonthOf ==
    ASSUME NEW doy \in Nat, doy <= 365
    PROVE  \E mp : InMonth(doy, mp)
<1> DEFINE mp == (5 * doy + 2) \div 153
<1>1. mp \in 0..11 /\ 153 * mp <= 5 * doy + 2 /\ 5 * doy + 2 < 153 * mp + 153
  BY SMT
<1> HIDE DEF mp
<1>2. MonthStart(mp) <= doy /\ doy < MonthStart(mp + 1)
  BY <1>1, SMT DEF MonthStart
<1>3. QED
  BY <1>1, <1>2, SMT DEF InMonth

LEMMA DateInMonth ==
    ASSUME NEW y \in Nat, NEW doy, NEW mp, InMonth(doy, mp)
    PROVE  DateOf(y, doy) = Date(IF mp < 10 THEN y ELSE y + 1,
                                 IF mp < 10 THEN mp + 3 ELSE mp - 9,
                                 doy - MonthStart(mp) + 1)
<1>1. (5 * doy + 2) \div 153 = mp
  BY SMT DEF InMonth, MonthStart
<1>2. mp \in 0..11
  BY DEF InMonth
<1>3. (IF mp < 10 THEN mp + 3 ELSE mp - 9) <= 2 <=> ~(mp < 10)
  BY <1>2, SMT
<1>4. QED
  BY <1>1, <1>2, <1>3, SMT DEF DateOf

\* The day after, spelled out.
LEMMA TomorrowOf ==
    ASSUME NEW y \in Int, NEW m \in Int, NEW d \in Int
    PROVE  Tomorrow(Date(y, m, d)) =
             IF d < DaysIn(y, m) THEN Date(y, m, d + 1)
             ELSE IF m < 12 THEN Date(y, m + 1, 1)
             ELSE Date(y + 1, 1, 1)
<1> DEFINE r == Date(y, m, d)
<1>1. r.year = y /\ r.month = m /\ r.day = d
  BY DEF Date
<1> HIDE DEF r
<1>2. Tomorrow(r) =
             IF d < DaysIn(y, m) THEN Date(y, m, d + 1)
             ELSE IF m < 12 THEN Date(y, m + 1, 1)
             ELSE Date(y + 1, 1, 1)
  BY <1>1 DEF Tomorrow
<1>3. QED
  BY <1>2 DEF r

\* The day after, within the year that begins in March.
LEMMA NextInYear ==
    ASSUME NEW z \in Nat, NEW y, InYear(z, y), InYear(z + 1, y)
    PROVE  DateOf(y, (z + 1) - Start(y)) = Tomorrow(DateOf(y, z - Start(y)))
<1> DEFINE doy == z - Start(y)
<1>1. /\ y \in Nat /\ Start(y) \in Int
      /\ doy \in Nat
      /\ (z + 1) - Start(y) = doy + 1
      /\ doy + 1 <= 365
      /\ doy + 1 = 365 => Leap(y + 1)
  <2>1. y \in Nat
    BY DEF InYear
  <2>2. QED
    BY <2>1, YearLength, SMT DEF InYear
<1> HIDE DEF doy
<1>2. PICK mp : InMonth(doy, mp)
  BY <1>1, MonthOf, SMT
<1> DEFINE d == DateOf(y, doy)
           m == IF mp < 10 THEN mp + 3 ELSE mp - 9
           yy == IF mp < 10 THEN y ELSE y + 1
<1>3. d = Date(yy, m, doy - MonthStart(mp) + 1)
  BY <1>1, <1>2, DateInMonth, SMT
<1>4. mp \in 0..11 /\ MonthStart(mp) \in Nat /\ MonthStart(mp + 1) \in Nat
  BY <1>2, MonthStarts, SMT DEF InMonth
<1>5. mp # 11 => DaysIn(yy, m) = MonthStart(mp + 1) - MonthStart(mp)
  BY <1>4, MonthStarts, SMT DEF DaysIn
<1>6. mp = 11 => DaysIn(yy, m) = IF Leap(y + 1) THEN 29 ELSE 28
  BY SMT DEF DaysIn
<1>7. yy \in Int /\ m \in Int /\ doy - MonthStart(mp) + 1 \in Int
  BY <1>1, <1>4, SMT
<1> HIDE DEF m, yy
<1> SUFFICES DateOf(y, doy + 1) = Tomorrow(d)
  BY <1>1, SMT DEF doy
<1>8. CASE doy + 1 < MonthStart(mp + 1)
  <2>1. InMonth(doy + 1, mp)
    BY <1>1, <1>2, <1>4, <1>8, SMT DEF InMonth
  <2>2. DateOf(y, doy + 1) = Date(yy, m, (doy + 1) - MonthStart(mp) + 1)
    <3>1. DateOf(y, doy + 1) = Date(IF mp < 10 THEN y ELSE y + 1,
                                    IF mp < 10 THEN mp + 3 ELSE mp - 9,
                                    (doy + 1) - MonthStart(mp) + 1)
      BY <1>1, <1>4, <2>1, DateInMonth, SMT
    <3>2. QED
      BY <3>1, SMT DEF m, yy
  <2>3. doy - MonthStart(mp) + 1 < DaysIn(yy, m)
    <3>1. CASE mp = 11
      BY <1>1, <1>4, <1>6, <3>1, MonthStarts, SMT
    <3>2. CASE mp # 11
      BY <1>1, <1>4, <1>5, <1>8, <3>2, SMT
    <3>3. QED
      BY <3>1, <3>2
  <2>4. doy - MonthStart(mp) + 1 + 1 = (doy + 1) - MonthStart(mp) + 1
    BY <1>1, <1>4, SMT
  <2>5. QED
    BY <1>3, <1>7, <2>2, <2>3, <2>4, TomorrowOf, SMT
<1>9. CASE ~(doy + 1 < MonthStart(mp + 1))
  <2>1. mp # 11 /\ doy + 1 = MonthStart(mp + 1)
    BY <1>1, <1>2, <1>4, <1>9, MonthStarts, SMT DEF InMonth
  <2>2. InMonth(doy + 1, mp + 1)
    <3>1. mp + 1 \in 0..11
      BY <1>4, <2>1, SMT
    <3>2. MonthStart(mp + 1) < MonthStart(mp + 1 + 1)
      BY <3>1, MonthStarts, SMT
    <3>3. QED
      BY <1>1, <2>1, <3>1, <3>2, SMT DEF InMonth
  <2>3. DateOf(y, doy + 1) = Date(IF mp + 1 < 10 THEN y ELSE y + 1,
                                  IF mp + 1 < 10 THEN mp + 4 ELSE mp - 8,
                                  1)
    BY <1>1, <1>4, <2>1, <2>2, DateInMonth, SMT
  <2>4. ~(doy - MonthStart(mp) + 1 < DaysIn(yy, m))
    BY <1>1, <1>4, <1>5, <2>1, SMT
  <2>5. Tomorrow(d) = IF m < 12 THEN Date(yy, m + 1, 1)
                      ELSE Date(yy + 1, 1, 1)
    BY <1>3, <1>7, <2>4, TomorrowOf, SMT
  <2>6. CASE mp = 9
    <3>1. m = 12 /\ yy = y
      BY <2>6, SMT DEF m, yy
    <3>2. DateOf(y, doy + 1) = Date(y + 1, 1, 1)
      BY <2>3, <2>6, SMT
    <3>3. QED
      BY <2>5, <3>1, <3>2, SMT
  <2>7. CASE mp < 9
    <3>1. m = mp + 3 /\ m < 12 /\ yy = y
      BY <1>4, <2>7, SMT DEF m, yy
    <3>2. DateOf(y, doy + 1) = Date(y, mp + 4, 1)
      BY <1>4, <2>3, <2>7, SMT
    <3>3. QED
      BY <1>4, <2>5, <3>1, <3>2, SMT
  <2>8. CASE mp = 10
    <3>1. m = 1 /\ yy = y + 1
      BY <2>8, SMT DEF m, yy
    <3>2. DateOf(y, doy + 1) = Date(y + 1, 2, 1)
      BY <2>3, <2>8, SMT
    <3>3. QED
      BY <2>5, <3>1, <3>2, SMT
  <2>9. QED
    BY <1>4, <2>1, <2>6, <2>7, <2>8, SMT
<1>10. QED
  BY <1>8, <1>9

\* The day after the last of February.
LEMMA NextYear ==
    ASSUME NEW z \in Nat, NEW y, InYear(z, y), ~(z + 1 < Start(y + 1))
    PROVE  /\ InYear(z + 1, y + 1)
           /\ DateOf(y + 1, (z + 1) - Start(y + 1))
                  = Tomorrow(DateOf(y, z - Start(y)))
<1> DEFINE doy == z - Start(y)
<1>1. /\ y \in Nat /\ y + 1 \in Nat
      /\ Start(y) \in Int /\ Start(y + 1) \in Int /\ Start(y + 1 + 1) \in Int
      /\ Start(y + 1) = Start(y) + (IF Leap(y + 1) THEN 366 ELSE 365)
      /\ Start(y + 1) < Start(y + 1 + 1)
  <2>1. y \in Nat /\ y + 1 \in Nat
    BY SMT DEF InYear
  <2>2. QED
    BY <2>1, YearLength, SMT
<1>2. z + 1 = Start(y + 1) /\ doy = IF Leap(y + 1) THEN 365 ELSE 364
  BY <1>1, SMT DEF InYear
<1>3. InYear(z + 1, y + 1)
  BY <1>1, <1>2, SMT DEF InYear
<1> HIDE DEF doy
<1>4. InMonth(doy, 11) /\ InMonth(0, 0)
  BY <1>2, MonthStarts, SMT DEF InMonth
<1>5. DateOf(y, doy) = Date(y + 1, 2, doy - 337 + 1)
  BY <1>1, <1>4, DateInMonth, MonthStarts, SMT
<1>6. DateOf(y + 1, 0) = Date(y + 1, 3, 1)
  BY <1>1, <1>4, DateInMonth, MonthStarts, SMT
<1>7. ~(doy - 337 + 1 < DaysIn(y + 1, 2))
  BY <1>2, SMT DEF DaysIn
<1>8. Tomorrow(DateOf(y, doy)) = Date(y + 1, 3, 1)
  BY <1>1, <1>2, <1>5, <1>7, TomorrowOf, SMT DEF doy
<1>9. (z + 1) - Start(y + 1) = 0
  BY <1>1, <1>2, SMT
<1>10. QED
  BY <1>3, <1>6, <1>8, <1>9, SMT DEF doy

\* The conversion of a day and that of the next.
LEMMA ConversionSteps ==
    ASSUME NEW n \in Nat, NEW next, next = n + 1
    PROVE  CivilFromDays(next) = Tomorrow(CivilFromDays(n))
<1>1. PICK z, t : z = n + 719468 /\ t = next + 719468
  OBVIOUS
<1>2. z \in Nat /\ t \in Nat /\ next \in Nat /\ t = z + 1
  BY <1>1, SMT
<1>3. PICK y : InYear(z, y) /\ CivilFromDays(n) = DateOf(y, z - Start(y))
  BY <1>1, <1>2, CivilIsDateOf, SMT
<1>4. PICK w : InYear(t, w) /\ CivilFromDays(next) = DateOf(w, t - Start(w))
  BY <1>1, <1>2, CivilIsDateOf, SMT
<1>5. CASE z + 1 < Start(y + 1)
  <2>1. y \in Nat /\ Start(y) \in Int
    BY <1>3, YearLength, SMT DEF InYear
  <2>2. InYear(z + 1, y)
    BY <1>2, <1>3, <1>5, <2>1, SMT DEF InYear
  <2>3. w = y
    BY <1>2, <1>4, <2>2, OneYear, SMT
  <2>4. DateOf(y, (z + 1) - Start(y)) = Tomorrow(DateOf(y, z - Start(y)))
    BY <1>2, <1>3, <2>2, NextInYear, SMT
  <2>5. t - Start(w) = (z + 1) - Start(y)
    BY <1>2, <2>3, Zenon
  <2>6. QED
    BY <1>3, <1>4, <2>3, <2>4, <2>5, SMT
<1>6. CASE ~(z + 1 < Start(y + 1))
  <2>1. InYear(z + 1, y + 1)
    BY <1>2, <1>3, <1>6, NextYear, SMT
  <2>2. w = y + 1
    BY <1>2, <1>4, <2>1, OneYear, SMT
  <2>3. DateOf(y + 1, (z + 1) - Start(y + 1))
            = Tomorrow(DateOf(y, z - Start(y)))
    BY <1>2, <1>3, <1>6, NextYear, SMT
  <2>4. t - Start(w) = (z + 1) - Start(y + 1)
    BY <1>2, <2>2, Zenon
  <2>5. QED
    BY <1>3, <1>4, <2>2, <2>3, <2>4, SMT
<1>7. QED
  BY <1>5, <1>6, SMT

(***************************************************************************)
(* Every day's event carries that day's date (alerts.rs:178-203), however  *)
(* late: across month ends, leap years, centuries and eras.                *)
(***************************************************************************)
THEOREM DatesAreRight == CalendarSpec => []DateIsRight
<1> DEFINE DateInv == day \in Nat /\ DateIsRight
<1>1. CalendarInit => DateInv
  <2> SUFFICES ASSUME CalendarInit PROVE DateInv
    OBVIOUS
  <2>1. day = 0 /\ date = Date(1970, 1, 1)
    BY SMT DEF CalendarInit
  <2>2. CivilFromDays(0) = Date(1970, 1, 1)
    BY SMT DEF CivilFromDays
  <2>3. QED
    BY <2>1, <2>2, SMT DEF DateIsRight
<1>2. DateInv /\ [CalendarNext]_calendarVars => DateInv'
  <2> SUFFICES ASSUME DateInv, [CalendarNext]_calendarVars PROVE DateInv'
    OBVIOUS
  <2>1. CASE CalendarNext
    <3>1. day \in Nat /\ day' = day + 1 /\ date' = Tomorrow(date)
      BY <2>1, SMT DEF CalendarNext
    <3>2. CivilFromDays(day') = Tomorrow(CivilFromDays(day))
      BY <3>1, ConversionSteps, SMT
    <3>3. QED
      BY <3>1, <3>2, SMT DEF DateIsRight
  <2>2. CASE UNCHANGED calendarVars
    BY <2>2, SMT DEF calendarVars, DateIsRight
  <2>3. QED
    BY <2>1, <2>2
<1>3. DateInv => DateIsRight
  OBVIOUS
<1> HIDE DEF DateInv
<1>4. QED
  BY <1>1, <1>2, <1>3, PTL DEF CalendarSpec

\* The order of dates.
Earlier(d, e) ==
    \/ d.year < e.year
    \/ d.year = e.year /\ d.month < e.month
    \/ d.year = e.year /\ d.month = e.month /\ d.day < e.day

LEMMA DatesHaveParts ==
    ASSUME NEW n \in Nat
    PROVE  /\ CivilFromDays(n).year \in Int
           /\ CivilFromDays(n).month \in Int
           /\ CivilFromDays(n).day \in Int
BY SMT DEF CivilFromDays, Date

(***************************************************************************)
(* Later days have later dates: while the wall clock is not set back, the  *)
(* dates in the `ts' of the journal's events never go back either.         *)
(***************************************************************************)
THEOREM DatesAscend ==
    ASSUME NEW m \in Nat
    PROVE  \A n \in Nat : m < n => Earlier(CivilFromDays(m), CivilFromDays(n))
<1> DEFINE Fails ==
      {n \in Nat : m < n /\ ~Earlier(CivilFromDays(m), CivilFromDays(n))}
<1> SUFFICES ASSUME Fails # {} PROVE FALSE
  BY SMT
<1>1. PICK n \in Fails : \A k \in Fails : n <= k
  <2>1. Fails \subseteq Nat
    BY SMT
  <2> HIDE DEF Fails
  <2>2. QED
    BY <2>1, LeastElement
<1>2. n \in Nat /\ m < n /\ ~Earlier(CivilFromDays(m), CivilFromDays(n))
  BY SMT
<1>3. PICK k : k = n - 1
  BY SMT
<1>4. k \in Nat /\ n = k + 1 /\ ~(n <= k)
  BY <1>2, <1>3, SMT
<1>5. m = k \/ Earlier(CivilFromDays(m), CivilFromDays(k))
  BY <1>1, <1>2, <1>4, SMT
<1>6. Earlier(CivilFromDays(k), CivilFromDays(n))
  <2> DEFINE d == CivilFromDays(k)
  <2>1. CivilFromDays(n) = Tomorrow(d)
    BY <1>4, ConversionSteps, SMT
  <2>2. d.year \in Int /\ d.month \in Int /\ d.day \in Int
    BY <1>4, DatesHaveParts, SMT
  <2> HIDE DEF d
  <2>3. Earlier(d, Tomorrow(d))
    BY <2>2, SMT DEF Tomorrow, Date, Earlier
  <2>4. QED
    BY <2>1, <2>3, SMT DEF d
<1>7. Earlier(CivilFromDays(m), CivilFromDays(n))
  BY <1>2, <1>4, <1>5, <1>6, DatesHaveParts, SMT DEF Earlier
<1>8. QED
  BY <1>2, <1>7
=============================================================================
