SPECIFICATION Spec
CONSTANTS
    SlotsPerDay = 3
    UTCOffset = 0
    FirstDay = 21
    LastDay = 37
    MaxTrades = 4
INVARIANTS
    TypeOK
    ExactOnBusinessDays
    NoMissedRestriction
    PrefetchSuffices
PROPERTY
    LiftsOnlyAtDayTurn
CHECK_DEADLOCK FALSE
