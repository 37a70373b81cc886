SPECIFICATION Spec
CONSTANTS
    Pid <- MCPid
    Pipeline = {"a"}
    Run = {"r1", "r2"}
    Jobs <- OneJob
    Sharing = {2}
    Fresh = {3}
    Requested <- NobodyAsks
    MaxBeats = 0
    DiskMayFail = FALSE
    Controlled = TRUE
    NoPid = 0
    NoRun = "none"
INVARIANTS
    WorkingIsRunning
PROPERTIES
    EndsAreHonoured
CHECK_DEADLOCK FALSE
