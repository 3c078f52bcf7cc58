CONSTANTS
    Null = Null
    NoArgument = NoArgument
    Strings <- MCStrings
    Patterns <- MCPatterns
    Escapes <- MCEscapes
    Kinds <- MCKinds
    Values = {1, 3}
    Keys = {1, 2}
    Orders <- MCOrders
    Quantiles <- MCQuantiles
    MaxRows = 4
    Timestamps <- MCTimestamps
    MSEC = 2
    SEC = 4
    MINUTE = 12
    HOUR = 24
    DAY = 72

SPECIFICATION MCSpec

\* A call ends.
CHECK_DEADLOCK FALSE

INVARIANTS
    TypeOK
    LikeCorrect
    ResultCorrect
    FreedExactlyOnce
    PeriodBoundsExact
    DiffCountsBoundaries
    PartsCountFromTrunc

PROPERTIES
    Progress
