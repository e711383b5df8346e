CONSTANTS
    cpu = cpu
    mem = mem
    a1 = a1
    a2 = a2
    None = None
    Plugins = {cpu, mem}
    Enabled = {cpu, mem}
    Requests = {a1, a2, r1}
    Loops = {l1, l2, l3, l4}
    Panicking = {cpu}
    Task <- MCTask
    Refresh <- MCRefresh
    Warmup <- MCWarmup
    IdleCycles = 2
    Guard = 2
SPECIFICATION AllSpec
SYMMETRY Symmetry
INVARIANTS
    AllWithinOneGuard
    AnswerAccountsForAll
    NoStrayTask
PROPERTIES
    AbsentOnlyIfUnserved
