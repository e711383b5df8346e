-------------------------------- MODULE Rates --------------------------------
(***************************************************************************)
(* The rate plugins' collect(): two samples of cumulative counters, taken  *)
(* an interval apart, make a rate (ARCHITECTURE.md 5.4, 5.5).              *)
(*   "keyed"    network.rs and diskio.rs: a map of items                   *)
(*   "drops"    network.rs: the drop counters of its items, each in a file *)
(*              of its own, which reads as 0 when it cannot be read        *)
(*   "cpu"      cpu.rs: one sample of /proc/stat                           *)
(*   "memswap"  memswap.rs: one sample of /proc/vmstat                     *)
(* An unreadable /proc file is a reading without its one key; a vanished   *)
(* or hidden item is absent from the reading.  Each key stands for one of  *)
(* the counters of its sample, and a rate is the pair (delta, elapsed) the *)
(* code divides.                                                           *)
(*                                                                         *)
(* The other steps are the loop around collect() (collector.rs:132-158):   *)
(* its sleep, and a stop and re-wake, which starts from State::default().  *)
(***************************************************************************)
EXTENDS Naturals

CONSTANTS
    Kinds,       \* the kinds of plugin above
    Keys,        \* items of a keyed plugin
    Proc,        \* the /proc file of the others
    None,        \* Option::None
    Refresh,     \* ticks between two cycles, at least
    Warmup,      \* RATE_WARMUP in ticks
    MaxCount,    \* bound: largest counter value
    MaxAge       \* bound: ages saturate here

ASSUME RatesAssumption ==
    /\ Kinds \subseteq {"keyed", "drops", "cpu", "memswap"}
    /\ {Refresh, Warmup, MaxCount, MaxAge} \subseteq Nat \ {0}
    /\ Warmup <= MaxAge /\ Refresh <= MaxAge
    /\ None \notin Nat

VARIABLES
    kind,      \* which plugin this is; never changes
    pc,        \* collect() at its start, in the warm-up sleep, or between cycles
    timer,     \* time left of the sleep it is in
    counter,   \* the operating system's cumulative counters
    prev,      \* state.previous, state.prev: the sample to diff against
    last,      \* age of state.last, or None
    out,       \* the published cycle
    span,      \* history: time since each key was last read
    grown,     \* history: growth of each counter since it was last read
    unread     \* history: the keys whose 0 in prev stands for no reading

vars == <<kind, pc, timer, counter, prev, last, out, span, grown, unread>>

Keyed == kind \in {"keyed", "drops"}

Sources == IF Keyed THEN Keys ELSE {Proc}

NoSample == <<>>

NoOutput == [elapsed |-> None, rates |-> <<>>]

Init ==
    /\ kind \in Kinds
    /\ pc = "start"
    /\ timer = 0
    /\ counter = [k \in Sources |-> 0]
    /\ prev = NoSample
    /\ last = None
    /\ out = NoOutput
    /\ span = [k \in Sources |-> 0]
    /\ grown = [k \in Sources |-> 0]
    /\ unread = {}

-----------------------------------------------------------------------------

\* What a reading of R may find unreadable in it.
MayFail(R) == IF kind = "drops" THEN SUBSET R ELSE {{}}

\* A reading of the sources in R, those in Z as 0, and what the history notes.
Reading(R, Z) == [k \in R |-> IF k \in Z THEN 0 ELSE counter[k]]

NoteReading(R, Z) ==
    /\ span' = [k \in Sources |-> IF k \in R THEN 0 ELSE span[k]]
    /\ grown' = [k \in Sources |-> IF k \in R THEN 0 ELSE grown[k]]
    /\ unread' = (unread \ R) \cup Z

Cold == IF kind = "cpu" THEN prev = NoSample ELSE last = None

\* Mutant of Bootstrap: the baseline is diffed at once (no warm-up sleep).
BootstrapNoSleep ==
    /\ pc = "start"
    /\ Cold
    /\ \E R \in SUBSET Sources : \E Z \in MayFail(R) :
          prev' = Reading(R, Z) /\ NoteReading(R, Z)
    /\ last' = 0
    /\ pc' = "warm"
    /\ timer' = 0
    /\ UNCHANGED <<kind, counter, out>>

\* The cold path: a baseline sample, then the warm-up sleep.
Bootstrap ==
    /\ pc = "start"
    /\ Cold
    /\ \E R \in SUBSET Sources : \E Z \in MayFail(R) :
          prev' = Reading(R, Z) /\ NoteReading(R, Z)
    /\ last' = 0
    /\ pc' = "warm"
    /\ timer' = Warmup
    /\ UNCHANGED <<kind, counter, out>>

\* Mutant of SaturatingSub: plain subtraction.
PlainSub(a, b) == a - b

SaturatingSub(a, b) == IF a > b THEN a - b ELSE 0

\* The rates of a cycle: of the items in both samples; memswap says 0 when it
\* has no two samples.  A counter that was not read last time may be published
\* with all it ever counted.
RatesOf(R, Z) ==
    LET both == DOMAIN prev \cap R IN
    [k \in IF kind = "memswap" THEN Sources ELSE both |->
        [delta |-> IF k \in both
                   THEN SaturatingSub(Reading(R, Z)[k], prev[k]) ELSE 0,
         span |-> span[k],
         grown |-> IF k \in unread THEN counter[k] ELSE grown[k]]]

\* Mutant of NextSample: old and new samples are merged, the old ones winning.
NextSampleMerged(R, Z) ==
    [k \in DOMAIN prev \cup R |->
        IF k \in DOMAIN prev THEN prev[k] ELSE Reading(R, Z)[k]]

\* Mutant of NextSample: a vanished item keeps its last sample.
NextSampleKeepsVanished(R, Z) ==
    [k \in DOMAIN prev \cup R |-> IF k \in R THEN Reading(R, Z)[k] ELSE prev[k]]

\* The sample for the next cycle.  A keyed plugin takes the current one, never
\* a merge; cpu and memswap return early, keeping the old one, when they could
\* not read (cpu also when it had none).
NextSample(R, Z) ==
    IF \/ kind = "cpu" /\ (R = {} \/ prev = NoSample)
       \/ kind = "memswap" /\ R = {}
    THEN prev ELSE Reading(R, Z)

\* The measured cycle: elapsed is the age of state.last, which is advanced
\* even by a cycle that cannot read (cpu.rs:74, memswap.rs:95).
Measure ==
    /\ \/ pc = "start" /\ ~Cold
       \/ pc = "warm" /\ timer = 0
    /\ \E R \in SUBSET Sources : \E Z \in MayFail(R) :
          /\ out' = [elapsed |-> last, rates |-> RatesOf(R, Z)]
          /\ prev' = NextSample(R, Z)
          /\ NoteReading(R, Z)
    /\ last' = 0
    /\ pc' = "sleep"
    /\ timer' = Refresh
    /\ UNCHANGED <<kind, counter>>

-----------------------------------------------------------------------------

\* The loop goes round, or it stopped and was woken anew with a default State.
NextCycle ==
    /\ pc = "sleep"
    /\ timer = 0
    /\ pc' = "start"
    /\ \/ UNCHANGED <<prev, last>>
       \/ prev' = NoSample /\ last' = None
    /\ UNCHANGED <<kind, timer, counter, out, span, grown, unread>>

\* A counter grows, or rolls back (reboot of a device, 32-bit wrap).
Grow(k) ==
    /\ counter[k] < MaxCount
    /\ counter' = [counter EXCEPT ![k] = @ + 1]
    /\ grown' = [grown EXCEPT ![k] = IF @ < MaxCount THEN @ + 1 ELSE @]
    /\ UNCHANGED <<kind, pc, timer, prev, last, out, span, unread>>

RollBack(k) ==
    /\ counter' = [counter EXCEPT ![k] = 0]
    /\ UNCHANGED <<kind, pc, timer, prev, last, out, span, grown, unread>>

Older(age) == IF age < MaxAge THEN age + 1 ELSE age

Tick ==
    /\ timer' = IF timer > 0 THEN timer - 1 ELSE 0
    /\ last' = IF last = None THEN None ELSE Older(last)
    /\ span' = [k \in Sources |-> Older(span[k])]
    /\ UNCHANGED <<kind, pc, counter, prev, out, grown,
                   unread>>

Next ==
    \/ Bootstrap \/ Measure \/ NextCycle
    \/ \E k \in Sources : Grow(k) \/ RollBack(k)
    \/ Tick

Spec == Init /\ [][Next]_vars

-----------------------------------------------------------------------------
(* Properties *)

Counters == 0..MaxCount

Rate == [delta: Nat, span: Nat, grown: Nat]

TypeOK ==
    /\ kind \in Kinds
    /\ pc \in {"start", "warm", "sleep"}
    /\ timer \in Nat
    /\ counter \in [Sources -> Counters]
    /\ DOMAIN prev \subseteq Sources
    /\ prev \in [DOMAIN prev -> Counters]
    /\ last \in Nat \cup {None}
    /\ DOMAIN out.rates \subseteq Sources
    /\ out.rates \in [DOMAIN out.rates -> Rate]
    /\ out.elapsed \in Nat \cup {None}
    /\ span \in [Sources -> Nat]
    /\ grown \in [Sources -> Nat]
    /\ unread \subseteq Sources

(***************************************************************************)
(* No traffic is invented: whatever appears, vanishes, rolls back, stops   *)
(* and restarts, a published delta is at most what its counter really grew *)
(* by since the plugin last read it, so nothing is ever counted twice; but *)
(* for the cycle after one in which a drop counter could not be read       *)
(* (linux.rs:218-224), whose delta is at most what the counter stands at.  *)
(***************************************************************************)
NoPhantomTraffic ==
    \A k \in DOMAIN out.rates : out.rates[k].delta <= out.rates[k].grown

(***************************************************************************)
(* "divide by the measured interval" (ARCHITECTURE.md:225-226), for the    *)
(* keyed plugins: the elapsed time of a rate is the time between the two   *)
(* samples it diffs, for an item that comes and goes as well.              *)
(***************************************************************************)
KeyedIntervalExact ==
    Keyed =>
        \A k \in DOMAIN out.rates : out.elapsed = out.rates[k].span

(***************************************************************************)
(* The first cycle of an activity period carries a rate over a real        *)
(* interval (ARCHITECTURE.md 5.5): none is ever shorter than both the      *)
(* warm-up and the refresh, so the `elapsed > 0.0' test never turns a rate *)
(* into 0.                                                                 *)
(***************************************************************************)
RealInterval ==
    out # NoOutput => out.elapsed >= Warmup \/ out.elapsed >= Refresh

(***************************************************************************)
(* What the comments of the scalar plugins say: sin and sout are diffed    *)
(* "over the measured interval" (memswap.rs:5-6), and the state holds "the *)
(* previous cumulative sample and the measured timestamp it was taken at"  *)
(* (cpu.rs:38-39).                                                         *)
(***************************************************************************)
IntervalOfItsSamples ==
    \A k \in DOMAIN out.rates :
        out.rates[k].delta > 0 => out.elapsed = out.rates[k].span
=============================================================================
