SPECIFICATION FairSpec
CONSTANTS
    MaxEvents = 3
    MaxOpens = 2
    MaxPowerLosses = 1
    MaxTears = 1
INVARIANTS
    EventsAreKept
PROPERTIES
    ImplementsEventLog
CHECK_DEADLOCK FALSE
