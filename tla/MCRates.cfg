CONSTANTS
    Kinds = {"keyed", "drops", "cpu", "memswap"}
    Keys = {eth0, eth1}
    Proc = proc
    None = None
    Refresh = 2
    Warmup = 1
    MaxCount = 2
    MaxAge = 3
SPECIFICATION Spec
SYMMETRY Symmetry
INVARIANTS
    TypeOK
    NoPhantomTraffic
    KeyedIntervalExact
    RealInterval
