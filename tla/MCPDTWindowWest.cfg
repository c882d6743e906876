SPECIFICATION Spec
CONSTANTS
    SlotsPerDay = 6
    UTCOffset <- West
    FirstDay = 21
    LastDay = 30
    MaxTrades = 3
INVARIANT
    NoMissedRestriction
CHECK_DEADLOCK FALSE
