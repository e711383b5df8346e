----------------------------- MODULE Thresholds -----------------------------
(***************************************************************************)
(* The limits of one alertable field and of one item that overrides them:  *)
(* the startup check of the ladders (config.rs, validate), the ladder in   *)
(* force (alerts.rs, effective_global and resolve), the level of a sample  *)
(* (level_for, compute_level) and what /limits says of them (api/mod.rs).  *)
(*                                                                         *)
(* A sample's divisor (normalize_by) is 1 for a field without one, None    *)
(* when it is missing or not finite.  Every divisor the program reads is a *)
(* count or a capacity, so value / divisor >= limit is value >= limit *    *)
(* divisor.  Limits are integers here; nothing but their order is used.    *)
(***************************************************************************)
EXTENDS Integers

CONSTANTS
    None,        \* Option::None
    Limits,      \* the limits an operator may set
    Builtins,    \* builtin_thresholds of the fields, and None
    Values,      \* values of the field
    Divisors     \* values of its divisor, or None

Names == {"careful", "warning", "critical"}

Block == [Names -> Limits \cup {None}]

ASSUME ThresholdsAssumption ==
    /\ Limits \subseteq Int
    /\ None \notin Int
    /\ Values \subseteq Int
    /\ Divisors \subseteq Nat \cup {None}
    /\ \A b \in Builtins : b # None =>
          /\ b \in [Names -> Limits]
          /\ b["careful"] <= b["warning"] /\ b["warning"] <= b["critical"]

VARIABLES
    phase,       \* "starting", "refused" or "serving"
    conf,        \* the configuration of the field
    sample       \* the sample of the current cycle, and its level

vars == <<phase, conf, sample>>

Conf == [global: Block \cup {None},    \* plugins.<p>.thresholds.<field>
         specific: Block \cup {None},  \* plugins.<p>.thresholds_by_item.<item>
         builtin: Builtins,
         useBuiltin: BOOLEAN]          \* alerts.use_builtin_defaults

-----------------------------------------------------------------------------
(* The ladder in force *)

Empty == [n \in Names |-> None]

EffectiveGlobal(c) ==
    IF c.global # None THEN c.global
    ELSE IF c.useBuiltin /\ c.builtin # None THEN c.builtin ELSE Empty

\* The per-limit merge of an override over the global block.
Over(specific, global) ==
    IF specific = None THEN global
    ELSE [n \in Names |-> IF specific[n] # None THEN specific[n] ELSE global[n]]

\* resolve(): for the item with the override, or for any other.
Resolve(c, item) == Over(IF item THEN c.specific ELSE None, EffectiveGlobal(c))

\* Mutant of HasThresholds: overrides of single items are not looked at.
HasThresholdsGlobal(c) ==
    c.global # None \/ (c.useBuiltin /\ c.builtin # None)

HasThresholds(c) ==
    c.global # None \/ c.specific # None \/ (c.useBuiltin /\ c.builtin # None)

-----------------------------------------------------------------------------
(* The startup check *)

LE(a, b) == a # None /\ b # None => a <= b

\* Mutant of Ordered: only neighbouring limits are compared.
OrderedNeighbours(b) ==
    LE(b["careful"], b["warning"]) /\ LE(b["warning"], b["critical"])

\* check_threshold_order
Ordered(b) == /\ LE(b["careful"], b["warning"])
              /\ LE(b["warning"], b["critical"])
              /\ LE(b["careful"], b["critical"])

\* Mutant of Valid: the merged ladder is not checked.
ValidBlocks(c) ==
    /\ c.global # None => Ordered(c.global)
    /\ c.specific # None => Ordered(c.specific)

\* validate(): every declared block, and every merged one.
Valid(c) ==
    /\ c.global # None => Ordered(c.global)
    /\ c.specific # None => /\ Ordered(c.specific)
                            /\ Ordered(Over(c.specific, EffectiveGlobal(c)))

-----------------------------------------------------------------------------
(* The level of a sample *)

Breached(value, divisor, limit) == limit # None /\ value >= limit * divisor

\* Mutant of ComputeLevel: the limits are tested from the lowest.
ComputeLevelUpwards(value, divisor, b) ==
    IF Breached(value, divisor, b["careful"]) THEN "careful"
    ELSE IF Breached(value, divisor, b["warning"]) THEN "warning"
    ELSE IF Breached(value, divisor, b["critical"]) THEN "critical"
    ELSE "ok"

\* compute_level, for the direction every shipped field has (High).
ComputeLevel(value, divisor, b) ==
    IF Breached(value, divisor, b["critical"]) THEN "critical"
    ELSE IF Breached(value, divisor, b["warning"]) THEN "warning"
    ELSE IF Breached(value, divisor, b["careful"]) THEN "careful"
    ELSE "ok"

\* level_for: none without limits, or with an unusable divisor.
LevelFor(c, item, value, divisor) ==
    IF Resolve(c, item) = Empty \/ divisor \in {None, 0} THEN None
    ELSE ComputeLevel(value, divisor, Resolve(c, item))

-----------------------------------------------------------------------------
(* What GET /limits says of the field *)

\* thresholds_json: a ladder without a limit is not announced.
ThresholdsJson(b) == IF b \in {None, Empty} THEN None ELSE b

\* Mutant of LimitsFor: built-in ladders are not announced.
LimitsForConfigured(c) == [global |-> ThresholdsJson(c.global),
                           per_item |-> ThresholdsJson(c.specific)]

\* limits_for: the global ladder, and the override as it was declared.
LimitsFor(c) == [global |-> ThresholdsJson(EffectiveGlobal(c)),
                 per_item |-> ThresholdsJson(c.specific)]

-----------------------------------------------------------------------------

NoReading == [item |-> FALSE, value |-> None, divisor |-> None, level |-> None]

Init ==
    /\ phase = "starting"
    /\ conf \in Conf
    /\ sample = NoReading

Validate ==
    /\ phase = "starting"
    /\ phase' = IF Valid(conf) THEN "serving" ELSE "refused"
    /\ UNCHANGED <<conf, sample>>

\* A cycle of observe(), which returns at once when nothing has thresholds.
Observe ==
    /\ phase = "serving"
    /\ HasThresholds(conf)
    /\ \E item \in BOOLEAN, value \in Values, divisor \in Divisors :
          sample' = [item |-> item, value |-> value, divisor |-> divisor,
                     level |-> LevelFor(conf, item, value, divisor)]
    /\ UNCHANGED <<phase, conf>>

Next == Validate \/ Observe

Spec == Init /\ [][Next]_vars

-----------------------------------------------------------------------------
(* Properties *)

Rank(level) == CASE level = "ok" -> 0 [] level = "careful" -> 1
                 [] level = "warning" -> 2 [] level = "critical" -> 3

(***************************************************************************)
(* Whatever blocks the operator wrote (global, partial override, built-in  *)
(* ladder underneath), a configuration that starts has an ordered ladder   *)
(* in force, for the item that overrides it and for every other one.       *)
(***************************************************************************)
LadderInForceOrdered ==
    phase = "serving" =>
        \A item \in BOOLEAN : \A m, n \in Names :
            LET b == Resolve(conf, item) IN
            b[m] # None /\ b[n] # None /\ Rank(m) <= Rank(n) => b[m] <= b[n]

(***************************************************************************)
(* No limit in force is dead: the level at exactly that limit is its own,  *)
(* or one whose limit is the same number.                                  *)
(***************************************************************************)
NoShadowedLimit ==
    phase = "serving" =>
        \A item \in BOOLEAN, n \in Names :
            LET b == Resolve(conf, item)
                level == ComputeLevel(b[n], 1, b)
            IN  b[n] # None => level \in Names /\ b[level] = b[n]

(***************************************************************************)
(* The level is the worst breached limit, as the comment of compute_level  *)
(* claims (alerts.rs:48-50): no limit above it is breached, and the limit  *)
(* it names is; and it never comes from a limit the item overrides.        *)
(***************************************************************************)
LevelIsWorstBreach ==
    sample.level # None =>
        LET own(n) == IF sample.item /\ conf.specific # None
                         /\ conf.specific[n] # None
                      THEN conf.specific[n] ELSE EffectiveGlobal(conf)[n]
            breached == {n \in Names :
                           Breached(sample.value, sample.divisor, own(n))}
        IN  /\ sample.level # "ok" => sample.level \in breached
            /\ \A n \in breached : Rank(n) <= Rank(sample.level)

(***************************************************************************)
(* The early return of observe (alerts.rs:263-280) "changes nothing        *)
(* observable": without thresholds no item would have got a level.         *)
(***************************************************************************)
BailChangesNothing ==
    ~HasThresholds(conf) =>
        \A item \in BOOLEAN, value \in Values, divisor \in Divisors :
            LevelFor(conf, item, value, divisor) = None

(***************************************************************************)
(* /limits announces "the thresholds in force" (docs/api.md 8.4), with the *)
(* overrides not merged: a client that merges the two, limit by limit,     *)
(* has the ladder that observe judges samples by, whatever was left out.   *)
(***************************************************************************)
AnnouncedLimitsAreEnforced ==
    LET announced == LimitsFor(conf)
        global == IF announced.global = None THEN Empty ELSE announced.global
    IN  /\ Over(announced.per_item, global) = Resolve(conf, TRUE)
        /\ global = Resolve(conf, FALSE)
=============================================================================
