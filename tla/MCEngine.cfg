CONSTANTS
    cpu = cpu
    mem = mem
    fs = fs
    None = None
    Plugins = {cpu, mem, fs}
    Enabled = {cpu, mem}
    Requests = {r1, r2}
    Loops = {l1, l2, l3}
    Panicking = {cpu}
    Refresh <- MCRefresh
    Warmup <- MCWarmup
    IdleCycles = 2
    Guard = 1
SPECIFICATION Spec
SYMMETRY Symmetry
INVARIANTS
    TypeOK
    SoleCollector
    NoDeadEntry
    NoOrphanedWaiter
    HonestAnswers
PROPERTIES
    LazySpec
    StopsOnlyWhenIdle
    StoreKeptByItsCollector
