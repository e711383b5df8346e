CONSTANTS
    mem = mem
    fs = fs
    percent = percent
    root = root
    None = None
    Plugins = {mem, fs}
    Keyed = {fs}
    Levels = {"ok", "warning", "critical"}
    Series <- MCSeries
    Refresh <- MCRefresh
    MinDuration <- MCMinDuration
    HistorySize = 2
SPECIFICATION Spec
INVARIANTS
    TypeOK
    NoStaleKeys
    JournalTellsTheStory
PROPERTIES
    CommitsExactlyWhenSustained
    RingKeepsNewest
