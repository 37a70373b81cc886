SPECIFICATION Spec
CONSTANTS
    None = None
    CrashAfter = 1
    NodeTimeout = 2
    LoopK = 1
    Browser = {b}
    Capacity = 1
    MaxEvents = 3
    MaxAttempts = 2
    MaxFaults = 1
    MaxConnects = 2
INVARIANTS
    DeliveredOnce
PROPERTIES
    AllArrives
CHECK_DEADLOCK FALSE
