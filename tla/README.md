# Verification of glances-rs

glances-rs is a REST server for system statistics that collects nothing until
somebody asks. This directory holds TLA+ models of its logic, the TLC runs
that check them, and theorems checked by TLAPS. Paths below are relative to
the repository's root; code references are to `src/*.rs`.

## 1. The system

### Parts, their state and their operations

| Part | State | Operations | Models |
|---|---|---|---|
| Collection engine, `collector.rs` | a task per woken plugin, with its watch channel | `ensure_plugin`, `spawn_plugin`, `plugin_loop` | `Engine`, `LazyCollection` |
| Shared state, `state.rs` | `collectors` (registry), `store` (last snapshot per plugin), `last_request`, `alerts` | `touch`, `idle_for`, `publish`, `snapshot` | `Engine`, `Server` |
| Alert engine, `alerts.rs` | hysteresis map, time of the last `observe` per plugin, event journal | `observe` (gap reset, prune, `reconcile`, journal) | `Alerts`, `Server` |
| Limits and levels, `config.rs`, `alerts.rs`, `api/mod.rs` | the configuration, read once | `Config::validate`, `effective_global`, `resolve`, `level_for`, `compute_level`, `limits_for` | `Thresholds` |
| Event timestamps, `alerts.rs` | none | `iso8601_utc` | `EventTime` |
| Rate plugins, `plugins/{network,diskio,cpu,memswap}.rs` | the previous sample and its instant | `collect` | `Rates`, `Payloads` |
| Instantaneous plugins, `plugins/{mem,load,fs,system,uptime}.rs` | a stopwatch | `collect` | `Payloads` |
| `/proc` readers, `plugins/linux.rs` | none | `parse_meminfo`, `parse_swap`, `parse_proc_stat`, `cpu_percents`, `fs_usage`, ... | `Payloads`, `Rates` |
| Item filters, `plugins/filter.rs` | compiled patterns | `shown`, `hide_or_default` | `Payloads` |
| Field tables, `plugins/{fields,mod}.rs`, and `GET .../info` | static | `fields`, `alert_fields`, `builtin_thresholds`, `field_schema` | `Fields` |
| `GET /api/5/all`, `api/mod.rs` | a `JoinSet` of one task per plugin | `all_stats` | `Aggregate` |
| `GET /api/5/<plugin>`, `api/mod.rs` | none | `plugin_stats` | a request of `Engine` |
| Startup, `lib.rs`, `config.rs`, `server.rs` | none | `parse_args`, `Config::load`, `resolve_password`, `check_security`, `serve` | `Startup` |
| Request guards, `api/security.rs` | none | `require_trusted_host`, `require_auth`, the CORS layer | `Startup` |

### How they interact

A handler calls `ensure_plugin`. It touches the plugin, takes the registry's
mutex and either clones the receiver of the registered collector or creates a
channel, spawns `plugin_loop` and registers it. It waits, under the guard
timeout, for the channel to say that a first cycle was published, then reads
the store. The loop goes round: `collect`, `Alerts::observe`, `publish`, signal
`ready`, sleep one refresh, check whether the plugin has been idle for
`refresh * idle_cycles`; if it has, take the registry's mutex, check again, and
leave the registry or go on. A stopped plugin keeps its snapshot and its alert
state; its collector's own `State` is dropped. `/all` starts one
`ensure_plugin` task per registered plugin and joins them as they end.

### What is hard here

* Requests, loops and clients that leave interleave at every `.await`; the
  last check of idleness races the request that makes it false.
* The guard timeout races the first cycle, the idle timeout races the first
  cycle, and a collection may hang for ever.
* Three notions of time decide alerts: the refresh, the hysteresis window and
  the gap rule, which guesses from elapsed time whether a collector stopped.
* Items come and go between cycles while alert state and samples are kept.
* Partial overrides of limits merge with ladders validated elsewhere, and are
  announced by a third function.
* A reading may fail in part (a line, a file, a `statvfs`), and 0 then stands
  both for nothing and for not known; alerts are judged by what is made of it.
* What a plugin publishes, what `/info` says of it and what the alert engine
  reads of it are three lists in different files.
* "Closed by default" is kept by three checks in three files that rely on each
  other, over files and variables that may change while the program starts.

`PROJECT.json` lists each hazard at its line with the properties that cover it.

### What makes each part correct

* Engine: one collector per woken plugin; no request is left waiting on a
  collector that gave up; 200 means data of this activity period; a collector
  stops when, and only when, nobody wants it; every call ends.
* Alerts: a level commits exactly when it was sustained; state does not leak;
  the journal is bounded and its events fit together.
* Limits: the ladder in force is ordered whatever blocks it is merged from,
  and the level is the worst breached limit.
* Rates: no growth is invented or counted twice; growth is divided by the time
  in which it happened.
* Payloads: what is published is what is announced, the alert engine finds what
  it needs on every path, a partly failed reading shows no less usage than what
  could be read, and the published shares of cpu are those of one whole.
* Startup: the program runs with the configuration that was named or not at
  all, and no handler runs for a request without the declared secret.
* `/all`: answered within one guard timeout, accounts for every plugin, and a
  plugin's failure stays its own.

## 2. The modules

### Engine (with LazyCollection, EngineProofs)

A step is the code between two `.await` points of one task. The server runs on
a `current_thread` runtime (`main.rs:9`), so that is its real granularity.

| Action | Code |
|---|---|
| `Call` | `ensure_plugin` up to the registry lock: registration check, `touch` |
| `Join`, `Spawn` | its critical section, either branch of `collectors.get` |
| `SeeReady`, `GuardExpires`, `SenderGone` | the ways `timeout(first_cycle(..))` ends |
| `ReadSnapshot` | `app.snapshot(id).await.ok_or(Timeout)` |
| `Cancel` | the client goes away: the future is dropped at an `.await` |
| `Deliver` | `plugin_stats` sends the answer |
| `Collected` | `collect().await` returned; `observe` and serialisation follow |
| `Publish` | the store is written, `ready` sent, the sleep begins |
| `Wake` | the sleep ended: the unlocked idle check |
| `StopOrContinue` | the registry lock is taken and idleness checked again |
| `Panic` | a cycle panics (only plugins in `Panicking`) |
| `Tick` | time passes |

`registry`, `loops` (task and channel), `store`, `idle` and `reqs` are the
registry, the tasks, the snapshots, `last_request` and the request futures. A
snapshot's body is abstracted to whether it is of the present activity period.
`fresh` in a request is a history variable: a cycle was published while it
waited, or before it joined, in this period. Timers hold the time left and may
fire late. `idle` saturates at the idle timeout, since the code only compares it
with `>=`. `Loops` is a set of slots; a slot is reused when its task has ended
and nobody holds its channel, so the number of tasks over time is not bounded.

The shipped build aborts on panic (`Cargo.toml:38`); `cargo test` and debug
builds unwind, which leaves a registry entry whose task is dead. Both are
covered: `Panicking = {}` is the shipped build. In an unwinding build such an
entry makes later calls answer 503 if it died before its first cycle; if it
died later the channel still says ready and they answer 200 with the last
snapshot (`HonestAnswers` holds: it is of that period). ARCHITECTURE.md:576-586
rejects unwinding for this very reason.

`LazyCollection` says what the engine promises without tasks, channels or
locks: per plugin asleep, waking, working; a call is answered 200 only with a
cycle of the period it joined. `Engine!LazySpec` is the refinement.

### Aggregate (with AggregateProofs)

`all_stats` over `Engine`: one request slot per plugin is its `/all` task.
`AllCalled`, `TaskStarts`, `TaskJoined`, `AllAnswers`, `AllCancelled` (the
`JoinSet` is dropped) and `AllDelivered` follow the handler; everything else is
`Engine`'s. Here time passes only when no task is ready to run (`PromptTick`): a
bound on latency is meaningless unless ready tasks are polled. Collections may
still take any time.

### Alerts (with AlertsProofs)

`observe` holds a `std::sync::Mutex` and awaits nothing: it is one action,
`Cycle`, made of `Before` (gap reset), `Surviving` (prune), `Reconcile` and
`Journal`, in the code's order. Inputs are any items and any level (or none)
for each of their fields. Instants are kept as ages, saturated above what they
are compared with. The order of a payload's items is not modelled, so the events of
one cycle reach the journal in any order. `steady` is a history variable: how long a
series has been observed at one level without a gap; it is defined from the
observations only, so that the hysteresis can be compared with it.

### Server (with ServerProofs)

`Engine` and `Alerts` together: `Collected` and `Observe` are one step (nothing
is awaited between them, `collector.rs:133-142`), the clocks advance together.
It discharges the assumption `Alerts` makes of its environment: two cycles of a
plugin are at least one refresh apart.

### Rates (with RatesProofs)

The two-sample protocol of the four rate plugins, on Linux. `kind` picks the
variant, since their early returns differ: network and diskio (`keyed`) replace
their sample by each reading; cpu and memswap keep the old one when the file
cannot be read. `drops` are the drop counters of network, each in a sysfs file
of its own: one that cannot be read is 0 in the sample (`linux.rs:222`), which a
failed reading of a whole item is not. A counter is one number per key. A
published rate is the pair (delta, elapsed) before the division. `span`, `grown`
and `unread` are history variables: the true time and growth since the key was
last read, and which zeros of the sample stand for no reading.

### Fields, Payloads (with PayloadsProofs)

`Fields` holds the nine field tables: names, keys, rate and watched flags,
divisors, built-in ladders. `Payloads` is one `collect()` of each plugin, from
`source` (what the system and the configuration say) to `payload` (the fields of
an item on the path taken). A value is a per-second rate, an amount, a share or
text; a share is what is published, the fraction rounded to a tenth of a percent
(`round1`). Where a fraction lies between two tenths, floating point decides
(12.05 is published as 12.0, 93.75 as 93.8): `TiesUp` says which ties go up, and
the theorems hold for any choice. One item stands
for all of a keyed plugin, because they are made alike and apart. A name is a
sequence of pieces of text, and a pattern is one too, searched for in a name
unless it is anchored at both ends; that is all the default patterns and a plain
list of an operator need of `Regex::is_match`. The figures of a source come in
any order: `MemAvailable` leaves out the kernel's reserves and may be below
`MemFree`. A filesystem has two kinds of source. `FsRead` is what `statvfs` says in
this cycle. `FsHeld` is a mount it cannot read: `sysinfo`'s own call fails there
too, so `size` and `left` are what `state.disks` holds from the last cycle that
could, and `bfree` is a history variable, what was free then. Two facts about the
system are premises of properties, not of sources: blocks left to a user are free
blocks (`LeftIsFree`, statvfs(3)), and a guest's ticks are also user ticks
(proc(5)). Every column of `/proc/stat` stands at 1 in the first sample, since only the
difference to the second is used.

### Startup (with StartupProofs)

One process from its command line to a request's handler, in the code's order:
`ParseArgs`, `Discover`, `Load`, `Serve`, then `Answer` for each request, until
`Shutdown`. `phase` says how far it has got; "failed" is an `Err` returned by
`run`. The command line, `GLANCES_RS_CONFIG` and the variable that
`password_env` names are chosen at the start. The file system is not ours:
`Discover` lets any set of files exist, and `Load` lets the file it found be
gone, wrong, or declare anything about access. `present` and `declared` are
history variables: which files there were, and what was read. A secret or a
path is a value; headers that do not decode are no credentials. `Answer` is one
step because the configuration never changes after the start.

### Thresholds, EventTime (with AlgorithmsProofs)

Pure algorithms run over bounded inputs: every configuration is validated as at
startup and, if accepted, samples are judged and limits announced. `EventTime`
compares the code's date arithmetic with a calendar that counts days one by one.
`MCAlgorithms` runs these two and `Payloads`, each over its own inputs.

## 3. The runs

| Run | Question | Bounds |
|---|---|---|
| `engine` | race contract, honest answers, refinement of `LazyCollection` | 2 requests, 3 loop slots, 3 plugins (a rate plugin that may panic, an instantaneous one, a disabled one) |
| `engine_live` | every call ends, idle collectors stop, wake-ups publish | 1 rate plugin, 2 requests, 2 loop slots |
| `alerts` | hysteresis, pruning, journal | 3 levels, a scalar series with no window and a collection series with a window of 2, journal of 2 |
| `server` | the engine drives the alert engine as `Alerts` assumes | 1 plugin, 1 request |
| `aggregate` | latency, partial failure, cancellation of `/all` | 2 plugins, a third request, guard 2 |
| `rates` | no invented growth, exact intervals | all four kinds, 2 items, counters to 2 with rollback, ages to 3 |
| `algorithms` | merged ladders, levels, announced limits; dates; payloads | limits 1 to 3, all block combinations, 6 values, 4 divisors; every day of 400 years from 1970; sizes 0 to 4 in any order, 0 or 1 tick in a column (user also 15 and 1759, idle 241 or back), 7 names, 2 patterns, every line, column and file that may be missing |
| `startup` | closed by default, the configuration that was named | command lines of up to 3 of 4 arguments, 2 paths to name, 2 candidates, 2 secrets (one empty), 1 host |
| `filters_default`, `alerts_initial`, `server_rewake`, `rates_stale` | disagreements of documents and code, section 5 | as above |

Why the bounds suffice. The races of the engine need a request that wakes, a
second one that joins, times out or re-wakes, and a loop that stops meanwhile.
Three slots give every plugin a loop while a dead one is still held by a waiter.
Requests, loops and plugins are otherwise independent, and the theorems of
section 4 are for any number of them. Refresh 1, warm-up 1, guard 1 and two idle
cycles let each timeout expire before, with and after each other one, because
timers may fire late. In `alerts` a window of 2 with a gap above 2 makes commits
before, at and across a gap possible, and a journal of 2 is full after two
events. In `rates` an age of 3 lets warm-up plus refresh be told apart from
either. Limits enter `Thresholds` only through comparisons, so three values give
every order of a ladder; value 6 and divisor 2 cover products between limits.
400 years are a whole period of the calendar. In `Payloads` sizes to 4 let
used, reserved, available and free blocks all differ and be zero; 15 user ticks
with an idle one are two ties that both go up (93.8 and 6.3), 1759 with 241 two
that both go down (87.9 and 12.0), and 15 with a guest's one make a guest's share
partial; `MCTiesUp` is what 64-bit floats do with these. The names have each default pattern
at the start, inside, and alone. In `startup` three arguments let
one path override another and an option be taken for a path; two candidates have
an order; the empty secret is the one the code treats apart.

`CHECK_DEADLOCK FALSE` is set for `algorithms` and `filters_default` (a refused
configuration ends the program, the days are bounded, and a payload is made
once) and `startup` (the program ends).

Fairness. `SpecFair` has weak fairness on time, on the steps of each request and
on the steps of a loop that only need the runtime to poll it (`Publish`, `Wake`,
`StopOrContinue`): tokio polls every woken task, its mutexes are fair, and no
task of the server runs without awaiting. There is none on clients, who owe
nothing, and none on `Collected`: a source read (a `statvfs` of a dead NFS mount)
may hang for ever, so liveness of a collector is stated as "or it hangs".

Each property has a mutant of the code, in `PROJECT.json`, that its run refutes;
mutants stand before the definition they mutate and are marked as such.

## 4. What is proved

`EngineProofs` proves, for any plugins, requests, loop slots and timing
constants that satisfy `EngineAssumption`:

* `EngineInvariant`: `IInv` is inductive. `SoleCollector` is not inductive
  alone. That a stopping loop removes its own entry, not a successor's, needs
  `LoopsMatch` and `EntryMatches` (an entry and its loop name each other; the
  channel says ready exactly when the store holds a cycle of this period). That
  an answer is honest needs `RequestsMatch`, which ties what a request has seen to
  its channel, and, while it has seen nothing, its channel to the registry.
* From it: `EngineTypes`, `OneCollectorPerPlugin`, `EntriesAreAlive`,
  `WaitersKeepTheirLoop`, `AnswersAreHonest` (invariants),
  `CollectorsStopOnlyWhenIdle`, `StoreKept` (action properties) and `EngineImplementsLazy` (refinement, step by step).

`AlertsProofs` proves, for any plugins, series (finitely many), levels, refresh
periods, windows and journal size that satisfy `AlertsAssumption`:

* `AlertsInvariant`: its `IInv` is inductive. Its core, `WindowsAreRuns`, says
  that the pending window of a series is its run of equal observations, unless
  that run is at the committed level; `reconcile`, the gap reset and the pruning
  each keep this link (`ObservedSeries`, `BeforeFacts`, `CycleSeries`).
* From it: `AlertsTypes` (with the journal's bound), `NothingLeaks`
  (`NoStaleKeys`) and `HysteresisIsExact` (`CommitsExactlyWhenSustained`).
* `RingIsFair` (`RingKeepsNewest`): `MovedCommits` says that the series that got
  an event are those whose level moved, `OneEventEach` that each got one, and
  `JournalShift` where every old event is after the cut.
* `StoryIsTold` (`JournalTellsTheStory`). The property looks at the series that
  have a state, and is not inductive: the events of a vanished item stay in the
  journal, and the item may come back. `StoryInv` therefore speaks of every
  series, with the level last told of it; a cycle either leaves a series' events
  alone or adds one that starts there (`CycleView`, `CycleStory`).

`AggregateProofs` proves all four properties of `/all` on top of the engine's
invariant: `OneGuardSuffices`, `EveryPluginAccounted`,
`TasksEndWithTheirRequest`, `AbsenceIsHonest`. `PlaceOK` gives each plugin one
place (its task is yet to run, runs, or was joined) and says that the time /all
has taken and what is left of a waiting task's guard are one guard together.

`ServerProofs` proves `ServerImplementsAlerts`: the server implements the
specification of `Alerts`, so what is proved of `Alerts` holds in the server. Its
invariant, `Cadence`, follows a plugin's last `observe` through the sleep, the
stop and the next wake-up; that a new loop task starts a refresh later rests on
the engine's `SoleCollector`.

`RatesProofs` proves `RatesTypes`, `NothingInvented`, `IntervalsAreExact` and
`IntervalsAreReal` for any items, periods and bounds that satisfy
`RatesAssumption`. Its `Inv` says that a counter is at most its sample plus its
growth since (an unread zero excepted), that a sample is as old as the recorded
instant says, and that a sleep was as long as the code asked for.

`AlgorithmsProofs` proves, about `Thresholds`, `LaddersAreOrdered`,
`NoLimitIsDead`, `WorstBreachWins`, `BailIsHarmless` and
`LimitsAnnounceTheLadder` for any integer limits, values and divisors. Its `Inv`
is that the configuration in force was accepted; `ResolveFacts` then names, for
each merged ladder, the ladder `Config::validate` checked. About `EventTime` it
proves `DatesAreRight` (`DateIsRight`) for every day from 1970 on, and
`DatesAscend`. The argument follows the conversion: its years begin in March, so
that the leap day is the last; `CivilIsDateOf` says that the day lies in the year
found, `OneYear` that no day lies in two; the next day is then the next of that
year (`NextInYear`) or the first of the next one (`NextYear`).

`PayloadsProofs` proves `PartialReadingsShowUsage` (`UsageAtLeastAsRead`) for
memories and filesystems of any size, in any order, and however ties are rounded.
A larger fraction never rounds to a smaller one (`TenthsKeepOrder`, over the
neighbours of each tenth), so comparing fractions is enough; and
`ReservedCountAsUsed` is why the fallback for a failed `statvfs`, whose whole has
root's reserve in it as used, shows no less of the same figures. It also proves
`SharesAreOfOneWhole` (`SharesAddUp`) for any number of ticks in each column.
Rounding moves a share by half a tenth at most (`TenthsNear`). Eight shares of
disjoint ticks can thus add up to four tenths more than 100 (`EightShares`), and
total and idle, a part and the rest, are off by one (`PartAndRest`). The ticks are
disjoint once a guest's are taken out of user, which needs that they were in it.
Three more theorems relate the payloads
to the field tables: `EmitsWhatInfoLists` (`PayloadAsDeclared`),
`AlertsFindWhatTheyRead` (`AlertsCanRead`) and `RateFlagsMeanRates`
(`RateFlagsHonest`). Each plugin has a lemma that gives the shape of its item on
each path (`Shape`), and a shape either fits its table or not (`Fits`), whatever
the amounts are; `Tables` carries this from the item to the payload.

`StartupProofs` proves `ClosedByDefault` (`HandledIsAuthorized`) for any command
lines, paths, candidates, secrets and hosts that satisfy `StartupAssumption`. Its
`IInv` ties the configuration in force to what was declared in each phase: the
password in force is the declared one once `Load` has passed, and the bind check
has been passed once the server serves. It needs no fact about the file system.
`NamedFileIsUsed` (`ConfigAsNamed`) follows the name: through the loop over the
command line (`ParsedLoop` and `ParsedTold`, for a line of any length), the
discovery, which keeps to what was named (`Discovered`), and the read, after
which the built-in configuration can only be in force if there was no file.

Where a claim is about every prefix of a command line or every day, the least
number for which it fails is refuted (`LeastElement`, from the well-foundedness
of < on the naturals); the library's induction rules cannot be used, because
they take an operator as a parameter.

Only model-checked: the liveness properties of `engine_live` (fairness and
ENABLED are beyond the prover). Every invariant and every action property of a passing run
is proved, and so are both refinements.
No module uses a RECURSIVE operator.

## 5. Findings

* `filters_default`: network.rs:17-18 says that, with nothing configured, docker
  bridges and the loopback interface are hidden. The patterns are searched for
  anywhere in a name, so `lo` also hides `wlo1`, the Wi-Fi interface of many
  laptops. In the same way `/boot.*` hides a mount of `/mnt/boot`.
* `alerts_initial`: docs/api.md:590-593 says `is_initial` is true only for the
  first level a series ever commits. An item that vanishes for one cycle loses
  that memory.
* `server_rewake`: docs/api.md:604-607 says that a pending level from before a
  stop cannot commit on the first sample after it. The gap rule only sees gaps
  above two refreshes, and a collector may be re-woken sooner.
* `rates_stale`: cpu and memswap advance their instant on a cycle that could not
  read its file, but keep the sample. The next rate is divided by too short a time.

One more remark, without a run: state.rs:79-80 and ARCHITECTURE.md:118-120 say
that the retained snapshot lets rates restart instantly. A re-woken loop starts
from `State::default()` and sleeps through the warm-up again.

## 6. What is not modelled

The text of bodies, headers and logs, units and descriptions; the splitting of
`/proc` lines and the octal escapes of mount points; the platforms other than
Linux; the decoding of request headers and the origins of CORS answers; the
checks of `Config::validate` other than the ladders' (their failure is one
choice of `Load`); regular expressions beyond those of `Payloads`; conversion of
`f64` seconds to `Duration` (a refresh accepted by `validate` may be too large for
one). An unreadable `/proc/meminfo` is published as 0 percent of 0 bytes, and
that ends an alert; `UsageAtLeastAsRead` exempts a size that is visibly 0,
because no document says what such a cycle should do. Nor is anything claimed of
what a missing figure would have shown: on a kernel without `MemAvailable` the percentage
is judged by `MemFree`, which may be the larger of the two, and a mount that
cannot be read may have filled up since it last was. `NoDeadEntry` is not claimed
of plugins that panic: nothing removes the entry of a dead collector, which goes
on answering with its last snapshot, or 503 if it has none. The `finite` check of
limits (config.rs:430-435) is left out, because limits are integers here. The
trusted host is a guard in `Startup`, in its place among the layers, but no
property is about it.

## 7. Plan

Done, in this order: `Engine` and its theorems, `LazyCollection`, `Alerts`,
`Server`, `Rates`, `Thresholds`, `EventTime`, `Aggregate`, `Startup`, `Fields` and
`Payloads`, each with its theorems.

Next:
1. `Aggregate`: liveness of `/all` (its latency is bounded already, so what is
   left is that time passes and ready tasks are polled).
