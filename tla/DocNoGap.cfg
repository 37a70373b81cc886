SPECIFICATION Spec
CONSTANTS
    MaxEvents = 3
    MaxOpens = 1
    MaxPowerLosses = 0
    MaxTears = 1
INVARIANTS
    NoGap
CHECK_DEADLOCK FALSE
