CONSTANTS
    mem = mem
    percent = percent
    None = None
    Plugins = {mem}
    Enabled = {mem}
    Requests = {r1}
    Loops = {l1, l2}
    Panicking = {}
    Keyed = {}
    Levels = {"ok", "critical"}
    Series <- MCSeries
    Refresh <- MCRefresh
    Warmup <- MCWarmup
    MinDuration <- MCMinDuration
    IdleCycles = 2
    Guard = 1
    HistorySize = 1
SPECIFICATION ServerSpec
PROPERTIES
    RewakeNeverInstaCommits
