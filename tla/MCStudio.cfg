SPECIFICATION Spec
CONSTANTS
    Requests = {r1, r2}
    Sound = "sound"
    Cyclic = "cyclic"
    MaxRequests = 3
    MaxEpics = 2
    MaxFaults = 1
INVARIANTS
    FilesAreGuarded
    EpicsAreWhole
PROPERTIES
    RequestsEnd
