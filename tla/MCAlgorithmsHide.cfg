CONSTANTS
    None = None
    Limits = {1}
    Builtins = {None}
    Values = {1}
    Divisors = {1}
    MaxDay = 1
    Sizes = {0, 1}
    TickCounts <- MCTickCounts
    TiesUp <- MCTiesUp
    ItemNames <- MCItemNames
    UserPatterns <- MCUserPatterns
SPECIFICATION MCSpec
INVARIANT DefaultHidesOnlyItsOwn
CHECK_DEADLOCK FALSE
