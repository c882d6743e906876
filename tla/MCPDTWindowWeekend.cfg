SPECIFICATION Spec
CONSTANTS
    SlotsPerDay = 3
    UTCOffset = 0
    FirstDay = 21
    LastDay = 30
    MaxTrades = 1
INVARIANT
    CountsFiveBusinessDays
CHECK_DEADLOCK FALSE
