SPECIFICATION Spec
CONSTANTS
    Run = {r1, r2}
    Task <- MCTask
    Blocks <- MCBlocks
    Place <- MCPlace
    Excluded = {}
    NoTask = "none"
    MaxCommits = 3
    MaxCrashes = 1
    MaxFaults = 1
SYMMETRY MCSymmetry
INVARIANTS
    WorkIsClaimed
    RecordedIsOwn
PROPERTIES
    ClosedIsPublished
CHECK_DEADLOCK FALSE
