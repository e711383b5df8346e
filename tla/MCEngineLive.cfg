CONSTANTS
    cpu = cpu
    mem = mem
    fs = fs
    None = None
    Plugins = {cpu}
    Enabled = {cpu}
    Requests = {r1, r2}
    Loops = {l1, l2}
    Panicking = {}
    Refresh <- MCRefresh
    Warmup <- MCWarmup
    IdleCycles = 2
    Guard = 1
SPECIFICATION SpecFair
PROPERTIES
    EveryCallAnswered
    IdleCollectorStops
    WakeUpPublishes
