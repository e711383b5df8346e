CONSTANTS
    None = None
    Limits = {1, 2, 3}
    Builtins <- MCBuiltins
    Values = {0, 1, 2, 3, 4, 6}
    Divisors = {None, 0, 1, 2}
    MaxDay = 146500
    Sizes = {0, 1, 2, 3, 4}
    TickCounts <- MCTickCounts
    TiesUp <- MCTiesUp
    ItemNames <- MCItemNames
    UserPatterns <- MCUserPatterns
SPECIFICATION MCSpec
INVARIANTS
    LadderInForceOrdered
    NoShadowedLimit
    LevelIsWorstBreach
    BailChangesNothing
    AnnouncedLimitsAreEnforced
    DateIsRight
    PayloadAsDeclared
    AlertsCanRead
    RateFlagsHonest
    UsageAtLeastAsRead
    SharesAddUp
CHECK_DEADLOCK FALSE
