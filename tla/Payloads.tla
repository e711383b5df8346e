------------------------------ MODULE Payloads ------------------------------
(***************************************************************************)
(* collect() of the nine plugins on Linux, from what the system says to    *)
(* the payload: which fields an item gets on which path, the figures that  *)
(* are computed from partly missing readings, and the filters.  A field's  *)
(* value is a per-second rate, an amount, a share or text.  A share is     *)
(* published in percent with one decimal, so it is a number of tenths of a *)
(* percent.  The two-sample protocol of the rates is in Rates.             *)
(*                                                                         *)
(* Each item is one of the payload's; the others are made the same way.    *)
(***************************************************************************)
EXTENDS Fields, Sequences

CONSTANTS
    Sizes,          \* bound: sizes of memories and filesystems, in blocks
    TickCounts,     \* bound: [column -> numbers of ticks between two samples]
    TiesUp,         \* t: floating point rounds t + 1/2 tenths up, not down
    ItemNames,      \* names of items, as sequences of pieces
    UserPatterns    \* patterns an operator may list

VARIABLES
    source,         \* what the system and the configuration say
    payload         \* what collect() returned

NoSource == [plugin |-> "none"]

NoPayload == [items |-> {}, top |-> {}, key |-> "none"]

-----------------------------------------------------------------------------
(* Values and envelopes *)

PerSecond == [kind |-> "rate"]
Text == [kind |-> "text"]
Amount(n) == [kind |-> "amount", amount |-> n]
Counted == Amount(1)        \* an amount no property speaks of

\* round1 of a percentage: the nearest tenth.  A tie t + 1/2 depends on what
\* the fraction becomes in floating point, the same for equal fractions:
\* 12.05 is rounded down to 12.0, 93.75 up to 93.8.
TenthsUp(part, whole) == (2000 * part + whole) \div (2 * whole)
TenthsDown(part, whole) == (2000 * part + whole - 1) \div (2 * whole)
Tenths(part, whole) ==
    IF TenthsDown(part, whole) \in TiesUp THEN TenthsUp(part, whole)
    ELSE TenthsDown(part, whole)

\* A share of nothing is 0.
Share(part, whole) ==
    [kind |-> "share",
     tenths |-> IF whole = 0 THEN 0 ELSE Tenths(part, whole)]

\* Every field of a set, with one value.
Each(fields, value) == [f \in fields |-> value]

\* Two disjoint groups of fields.
Both(a, b) == [f \in DOMAIN a \cup DOMAIN b |->
                 IF f \in DOMAIN a THEN a[f] ELSE b[f]]

\* PluginId::key_field
KeyField(p) == CASE p = "network" -> "interface_name" [] p = "fs" -> "mnt_point"
                 [] p = "diskio" -> "disk_name" [] OTHER -> "none"

\* envelope: a scalar plugin's item is spread over the top level.
Envelope(item) == [items |-> {item}, top |-> {"time_since_update", "_levels"},
                   key |-> "none"]

\* envelope_keyed
EnvelopeKeyed(items, key) ==
    [items |-> items, top |-> {"data", "time_since_update", "_levels", "_key"},
     key |-> key]

SaturatingSub(a, b) == IF a > b THEN a - b ELSE 0

-----------------------------------------------------------------------------
(* Filters.  Names and patterns are sequences of pieces of text.  A pattern *)
(* is searched for anywhere in the name unless it is anchored at both ends; *)
(* a `.*' at an end of it changes nothing.                                  *)

Literal(text) == [text |-> text, anchored |-> FALSE]

\* Regex::is_match
IsMatch(pattern, name) ==
    IF pattern.anchored THEN name = pattern.text
    ELSE \E i, j \in DOMAIN name : SubSeq(name, i, j) = pattern.text

DefaultHide(p) ==
    CASE p = "network" -> {Literal(<<"docker">>), Literal(<<"lo">>)}
      [] p = "fs" -> {Literal(<<"/", "boot">>), Literal(<<"/", "snap">>)}
      [] p = "diskio" -> {Literal(<<"lo", "op">>),
                          Literal(<<"/", "dev", "/", "lo", "op">>)}

HideOrDefault(hide, p) == IF hide = {} THEN DefaultHide(p) ELSE hide

\* KeyFilter::shown
Shown(name, show, hide) ==
    /\ show = {} \/ \E pattern \in show : IsMatch(pattern, name)
    /\ \A pattern \in hide : ~IsMatch(pattern, name)

ShownItem == Shown(source.name, source.show,
                   HideOrDefault(source.hide, source.plugin))

\* The fields an item has only by configuration.
Alias == IF source.aliased THEN Each({"alias"}, Text) ELSE <<>>

Filters == [name: ItemNames, show: SUBSET UserPatterns,
            hide: SUBSET UserPatterns, aliased: BOOLEAN]

-----------------------------------------------------------------------------
(* mem and memswap: a line of /proc/meminfo that is missing reads as 0 *)

MemLines == {"MemTotal", "MemFree", "MemAvailable"}

\* No order of the values is taken for granted: MemAvailable leaves out the
\* kernel's reserves, so it may well be below MemFree.
MemSources ==
    [plugin: {"mem"}, readable: BOOLEAN, lines: SUBSET MemLines,
     total: Sizes, available: Sizes, free: Sizes]

SwapSources ==
    [plugin: {"memswap"}, readable: BOOLEAN,
     lines: SUBSET {"SwapTotal", "SwapFree"}, total: Sizes, free: Sizes]

Line(name, value) == IF name \in source.lines THEN value ELSE 0

\* Mutant of Available: without its line, all memory counts as available.
AvailableAll == IF "MemAvailable" \in source.lines THEN source.available
                ELSE Line("MemTotal", source.total)

\* Kernels without MemAvailable: what is free.
Available == IF "MemAvailable" \in source.lines THEN source.available
             ELSE Line("MemFree", source.free)

\* parse_meminfo, parse_swap: used and percent from a total and what is left.
Usage(total, left) ==
    [total |-> Amount(total),
     used |-> Amount(SaturatingSub(total, left)),
     percent |-> Share(SaturatingSub(total, left), total)]

MemItem ==
    IF ~source.readable
    THEN Both(Usage(0, 0), Each({"available", "free"}, Amount(0)))
    ELSE Both(Usage(Line("MemTotal", source.total), Available),
              Both([available |-> Amount(Available),
                    free |-> Amount(Line("MemFree", source.free))],
                   Each({"active", "inactive", "buffers", "cached", "shared",
                         "slab"}, Counted)))

CollectMem ==
    /\ source.plugin = "mem"
    /\ payload' = Envelope(MemItem)

\* Mutant of MemSwapItem: sin and sout are the counters since boot.
MemSwapItemCumulative ==
    LET total == IF source.readable THEN Line("SwapTotal", source.total) ELSE 0
        free == IF source.readable THEN Line("SwapFree", source.free) ELSE 0
    IN  Both(Usage(total, free),
             Both([free |-> Amount(free)], Each({"sin", "sout"}, Counted)))

\* Unreadable files: every figure is 0.
MemSwapItem ==
    LET total == IF source.readable THEN Line("SwapTotal", source.total) ELSE 0
        free == IF source.readable THEN Line("SwapFree", source.free) ELSE 0
    IN  Both(Usage(total, free),
             Both([free |-> Amount(free)], Each({"sin", "sout"}, PerSecond)))

CollectMemSwap ==
    /\ source.plugin = "memswap"
    /\ payload' = Envelope(MemSwapItem)

-----------------------------------------------------------------------------
(* fs: statvfs, or what sysinfo holds of the disk when that fails *)

\* What statvfs says in this cycle.
FsRead == [plugin: {"fs"}, statvfs: {TRUE}, listed: BOOLEAN,
           blocks: Sizes, bfree: Sizes, bavail: Sizes]

\* It fails, and most often sysinfo's own call for the same mount failed with
\* it just before: state.disks keeps `size' and `left' (total_space and
\* available_space) from the last cycle that could read the mount.  `bfree' is
\* what was free in that cycle with the blocks reserved for root; no one keeps it.
FsHeld == [plugin: {"fs"}, statvfs: {FALSE}, listed: BOOLEAN,
           size: Sizes, left: Sizes, bfree: Sizes]

FsSources == {Both(s, f) : s \in FsRead \cup FsHeld,
                           f \in {g \in Filters : g.show = {}}}

\* fs_percent: blocks reserved for root are used, and not part of the whole.
FsPercent(used, free) == Share(used, used + free)

\* Mutant of FsUsage: free is what root could still write.
FsUsageBfree == LET used == SaturatingSub(source.blocks, source.bfree) IN
    [size |-> Amount(source.blocks), used |-> Amount(used),
     free |-> Amount(source.bfree), percent |-> FsPercent(used, source.bfree)]

\* fs_usage
FsUsage == LET used == SaturatingSub(source.blocks, source.bfree) IN
    [size |-> Amount(source.blocks), used |-> Amount(used),
     free |-> Amount(source.bavail), percent |-> FsPercent(used, source.bavail)]

\* Mutant of FsFallback: the arguments of usage() are swapped.
FsFallbackSwapped == LET used == SaturatingSub(source.left, source.size) IN
    [size |-> Amount(source.size), used |-> Amount(used),
     free |-> Amount(source.left), percent |-> Share(used, source.left)]

\* usage(), of what sysinfo holds.
FsFallback == LET used == SaturatingSub(source.size, source.left) IN
    [size |-> Amount(source.size), used |-> Amount(used),
     free |-> Amount(source.left), percent |-> Share(used, source.size)]

FsItem ==
    Both(IF source.statvfs THEN FsUsage ELSE FsFallback,
         Both(Each({"device_name", "fs_type", "mnt_point"}, Text),
              Both(IF source.listed THEN Each({"options"}, Text) ELSE <<>>,
                   Alias)))

CollectFs ==
    /\ source.plugin = "fs"
    /\ payload' = EnvelopeKeyed(IF ShownItem THEN {FsItem} ELSE {}, "mnt_point")

-----------------------------------------------------------------------------
(* cpu: the shares of the ticks counted between two samples of /proc/stat *)

Columns == <<"user", "nice", "system", "idle", "iowait", "irq", "softirq",
             "steal", "guest", "guest_nice">>

\* Every column stood at 1 in the first sample.
Ticks(c) == {1 + n : n \in TickCounts[c]}

\* idle and iowait may go back (proc(5)).
CpuSources ==
    [plugin: {"cpu"}, readable: BOOLEAN, columns: {4, 8, 10},
     user: Ticks("user"), nice: Ticks("nice"), system: Ticks("system"),
     idle: {0} \cup Ticks("idle"), iowait: {0} \cup Ticks("iowait"),
     irq: Ticks("irq"), softirq: Ticks("softirq"), steal: Ticks("steal"),
     guest: Ticks("guest"), guest_nice: Ticks("guest_nice")]

\* parse_proc_stat: a column the kernel does not have reads as 0.
Delta(i) == IF i <= source.columns THEN SaturatingSub(source[Columns[i]], 1)
            ELSE 0

CpuShares == {"user", "nice", "system", "idle", "iowait", "irq", "steal",
              "guest"}

\* Mutant of OwnTicks: guest ticks are left in user and nice.
OwnTicksGross(i) == Delta(i)

\* Ticks of a column that no other column counts.
OwnTicks(i) == CASE i = 1 -> SaturatingSub(Delta(1), Delta(9))
                 [] i = 2 -> SaturatingSub(Delta(2), Delta(10))
                 [] OTHER -> Delta(i)

\* The denominator: softirq has no share, guests are in user and nice.
Whole == Delta(1) + Delta(2) + Delta(3) + Delta(4) + Delta(5) + Delta(6)
           + Delta(7) + Delta(8)

\* Mutant of Busy: waiting for I/O is idle.
BusyWithoutIowait == Whole - Delta(4) - Delta(5)

\* Everything but idle.
Busy == Whole - Delta(4)

\* cpu_percents: the shares and the total are rounded one by one; a zero
\* denominator leaves every share 0.
CpuPercents ==
    [f \in CpuShares \cup {"total"} |->
       IF f = "total" THEN Share(Busy, Whole)
       ELSE Share(OwnTicks(CHOOSE i \in DOMAIN Columns : Columns[i] = f), Whole)]

CpuItem ==
    IF ~source.readable THEN [cpucore |-> Counted]
    ELSE Both(CpuPercents,
              Both([cpucore |-> Counted],
                   Each({"ctx_switches", "interrupts", "soft_interrupts",
                         "syscalls"}, PerSecond)))

CollectCpu ==
    /\ source.plugin = "cpu"
    /\ payload' = Envelope(CpuItem)

-----------------------------------------------------------------------------
(* network and diskio: one item, read in two samples (Rates) *)

KeyedSources == {Both(s, f) : s \in [plugin: {"network", "diskio"},
                                     linkKnown: BOOLEAN],
                              f \in Filters}

\* Mutant of NetworkItem: no capacity when the link speed is unknown.
NetworkItemKnownLink ==
    Both(Both(Each({"bytes_recv", "bytes_sent", "bytes_all", "errors_in",
                    "errors_out", "dropped_in", "dropped_out"}, PerSecond),
              Each({"bytes_recv_cumul", "bytes_sent_cumul", "speed"}, Counted)),
         Both(Both(Each({"interface_name", "is_up", "hidden"}, Text), Alias),
              IF source.linkKnown
              THEN [bytes_speed_rate_per_sec |-> Counted] ELSE <<>>))

\* The capacity is 0 when the link speed is unknown (read_iface_meta).
NetworkItem ==
    Both(Both(Each({"bytes_recv", "bytes_sent", "bytes_all", "errors_in",
                    "errors_out", "dropped_in", "dropped_out"}, PerSecond),
              Each({"bytes_recv_cumul", "bytes_sent_cumul", "speed"}, Counted)),
         Both(Both(Each({"interface_name", "is_up", "hidden"}, Text), Alias),
              [bytes_speed_rate_per_sec |->
                  Amount(IF source.linkKnown THEN 1 ELSE 0)]))

CollectNetwork ==
    /\ source.plugin = "network"
    /\ payload' = EnvelopeKeyed(IF ShownItem THEN {NetworkItem} ELSE {},
                                "interface_name")

\* Mutant of DiskioItem: the flag published for parity is forgotten.
DiskioItemNoHidden ==
    Both(Each({"read_count", "write_count", "read_bytes", "write_bytes",
               "read_time", "write_time"}, PerSecond),
         Both(Each({"read_latency", "write_latency", "read_count_cumul",
                    "write_count_cumul", "read_bytes_cumul",
                    "write_bytes_cumul"}, Counted),
              Both(Each({"disk_name"}, Text), Alias)))

DiskioItem ==
    Both(Each({"read_count", "write_count", "read_bytes", "write_bytes",
               "read_time", "write_time"}, PerSecond),
         Both(Each({"read_latency", "write_latency", "read_count_cumul",
                    "write_count_cumul", "read_bytes_cumul",
                    "write_bytes_cumul"}, Counted),
              Both(Each({"disk_name", "hidden"}, Text), Alias)))

CollectDiskio ==
    /\ source.plugin = "diskio"
    /\ payload' = EnvelopeKeyed(IF ShownItem THEN {DiskioItem} ELSE {},
                                "disk_name")

-----------------------------------------------------------------------------
(* The plugins that read one source which cannot be partly missing *)

CollectLoad ==
    /\ source.plugin = "load"
    /\ payload' = Envelope(Each({"min1", "min5", "min15", "cpucore"}, Counted))

CollectUptime ==
    /\ source.plugin = "uptime"
    /\ payload' = Envelope([seconds |-> Counted])

\* An unreadable /etc/os-release or hostname reads as the empty string.
CollectSystem ==
    /\ source.plugin = "system"
    /\ payload' = Envelope(Each({"os_name", "hostname", "platform",
                                 "os_version", "linux_distro", "hr_name"}, Text))

-----------------------------------------------------------------------------

Idle == source = NoSource /\ payload = NoPayload

CollectInit ==
    /\ \/ source \in MemSources
       \/ source \in SwapSources
       \/ source \in FsSources
       \/ source \in CpuSources
       \/ source \in KeyedSources
       \/ source \in [plugin: {"load", "uptime", "system"}]
    /\ payload = NoPayload

CollectNext ==
    /\ payload = NoPayload
    /\ \/ CollectMem \/ CollectMemSwap \/ CollectFs \/ CollectCpu
       \/ CollectNetwork \/ CollectDiskio
       \/ CollectLoad \/ CollectUptime \/ CollectSystem
    /\ UNCHANGED source

CollectSpec == CollectInit /\ [][CollectNext]_<<source, payload>>

-----------------------------------------------------------------------------
(* Properties *)

\* A reading in which nothing is missing, but for the kernel's old columns.
Complete == "readable" \in DOMAIN source => source.readable

\* Fields that the configuration or the mount table leaves out.
LeftOut == (IF "aliased" \in DOMAIN source /\ ~source.aliased
            THEN {"alias"} ELSE {})
             \cup (IF "listed" \in DOMAIN source /\ ~source.listed
                   THEN {"options"} ELSE {})

(***************************************************************************)
(* /info lists "every field a plugin emits" (fields.rs:412): no path of    *)
(* collect() publishes a field it does not list, a full reading publishes  *)
(* all it lists (but for what the configuration leaves out), and the       *)
(* envelope overwrites none of them.                                       *)
(***************************************************************************)
PayloadAsDeclared ==
    \A item \in payload.items :
        LET names == DOMAIN Info(source.plugin) IN
        /\ DOMAIN item \subseteq names
        /\ Complete => DOMAIN item = names \ LeftOut
        /\ payload.key = "none" => DOMAIN item \cap payload.top = {}

(***************************************************************************)
(* The alert engine finds what it reads (alerts.rs:306-345, 388-412): on   *)
(* every path, degraded ones included, a watched field comes with its      *)
(* divisor, an item with the key that its levels are stored under, and a   *)
(* built-in ladder belongs to a watched field and ascends, which is what   *)
(* Thresholds assumes of the built-in ladders.                             *)
(***************************************************************************)
AlertsCanRead ==
    \A item \in payload.items :
        LET p == source.plugin
            table == FieldsOf(p)
            ladders == BuiltinThresholds(p)
        IN  /\ \A f \in AlertFields(p) \cap DOMAIN item :
                  f \in DOMAIN table.divisors =>
                      table.divisors[f] \in DOMAIN item
            /\ payload.key = KeyField(p)
            /\ table.keys = IF payload.key = "none" THEN {} ELSE {payload.key}
            /\ table.keys \subseteq DOMAIN item
            /\ \A f \in DOMAIN ladders :
                  /\ f \in AlertFields(p)
                  /\ ladders[f][1] <= ladders[f][2]
                  /\ ladders[f][2] <= ladders[f][3]

(***************************************************************************)
(* A client that graphs what /info flags as a rate gets per-second figures *)
(* and nothing else: no flagged field is a counter, no other is a rate.    *)
(***************************************************************************)
RateFlagsHonest ==
    \A item \in payload.items : \A f \in DOMAIN item :
        (item[f].kind = "rate") = Info(source.plugin)[f].rate

\* The usage there is at least, by what could be read: of the two figures of
\* what is left, the larger; for a mount that cannot be read, what statvfs said
\* in the last cycle in which it could.
LeastUsage ==
    CASE source.plugin = "mem" ->
            Share(SaturatingSub(source.total,
                                IF source.available > source.free
                                THEN source.available ELSE source.free),
                  source.total)
      [] source.plugin = "memswap" ->
            Share(SaturatingSub(source.total, source.free), source.total)
      [] source.plugin = "fs" /\ source.statvfs ->
            LET used == SaturatingSub(source.blocks, source.bfree)
            IN  Share(used, used + source.bavail)
      [] source.plugin = "fs" /\ ~source.statvfs ->
            LET used == SaturatingSub(source.size, source.bfree)
            IN  Share(used, used + source.left)

\* What is left of a filesystem is a part of what is free in it (statvfs(3)).
LeftIsFree ==
    source.plugin = "fs" /\ ~source.statvfs =>
        source.left <= source.bfree /\ source.bfree <= source.size

(***************************************************************************)
(* A reading that partly fails makes nothing look emptier than the figures *)
(* it could get: a missing line of /proc/meminfo never counts as memory    *)
(* that is left, and a mount that can no longer be read shows no less than *)
(* it did when it last could, although the fallback has another formula    *)
(* (linux.rs:162-173, fs.rs:66-74, 108-112).  The percentage, which alerts *)
(* are judged by, is never above 100, and below those figures only if the  *)
(* size published beside it is 0.                                          *)
(***************************************************************************)
UsageAtLeastAsRead ==
    source.plugin \in {"mem", "memswap", "fs"} =>
        \A item \in payload.items :
            LET size == IF source.plugin = "fs" THEN item.size ELSE item.total
            IN  /\ item.percent.tenths <= 1000
                /\ size.amount # 0 /\ LeftIsFree =>
                      item.percent.tenths >= LeastUsage.tenths

\* The published shares, added up.
SumOfShares(item) ==
    item.user.tenths + item.nice.tenths + item.system.tenths
      + item.idle.tenths + item.iowait.tenths + item.irq.tenths
      + item.steal.tenths + item.guest.tenths

(***************************************************************************)
(* The shares of a cpu payload, as they are published, are those of one    *)
(* whole: eight of them rounded one by one add up to 100.4 at most, and no *)
(* busy one is above the total, as long as a guest's ticks are counted in  *)
(* user too; total and idle are within a tenth of 100, unless no tick      *)
(* passed at all.  Rounding does take them off it: 15 busy ticks and an    *)
(* idle one are published as 93.8 and 6.3.  With guests running, columns   *)
(* the kernel lacks and counters that go back (linux.rs:70-75, 107-118).   *)
(***************************************************************************)
SharesAddUp ==
    source.plugin = "cpu" =>
        \A item \in payload.items :
            "total" \in DOMAIN item =>
                /\ Delta(9) <= Delta(1) =>
                      /\ SumOfShares(item) <= 1004
                      /\ \A f \in CpuShares \ {"idle"} :
                            item[f].tenths <= item.total.tenths
                /\ \/ /\ item.total.tenths + item.idle.tenths >= 999
                      /\ item.total.tenths + item.idle.tenths <= 1001
                   \/ \A f \in CpuShares \cup {"total"} : item[f].tenths = 0

(***************************************************************************)
(* "Default hide when the operator configures none: docker bridges and the *)
(* loopback interface" (network.rs:17-18).                                 *)
(***************************************************************************)
DefaultHidesOnlyItsOwn ==
    /\ source.plugin = "network"
    /\ payload # NoPayload
    /\ source.show = {} /\ source.hide = {}
    /\ payload.items = {}
    => source.name[1] \in {"lo", "docker"}
=============================================================================
