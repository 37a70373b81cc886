SPECIFICATION Spec
CONSTANTS
    Pid <- MCPid
    Pipeline = {"a", "b"}
    Run = {"r1", "r2", "r3"}
    Jobs <- Directory
    Sharing = {2}
    Fresh = {}
    Requested <- ThirdAsks
    MaxBeats = 1
    DiskMayFail = TRUE
    Controlled = FALSE
    NoPid = 0
    NoRun = "none"
INVARIANTS
    LocksAreHeld
    AttemptsAreBlocks
    CheckpointIsKnown
CHECK_DEADLOCK FALSE
