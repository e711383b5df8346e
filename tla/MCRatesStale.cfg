CONSTANTS
    Kinds = {"keyed", "cpu", "memswap"}
    Keys = {eth0}
    Proc = proc
    None = None
    Refresh = 2
    Warmup = 1
    MaxCount = 2
    MaxAge = 3
SPECIFICATION Spec
INVARIANTS
    IntervalOfItsSamples
