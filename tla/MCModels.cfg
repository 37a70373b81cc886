SPECIFICATION ModelsSpec
CONSTANTS
    None = None
    Jobs <- MCJobs
    Output <- MCOutput
    MaxLines = 3
    MayEscape = TRUE
    ToolMax = 5
    AgentMax = 6
    Marker = 2
    Sessions <- MCSessions
    Root <- MCRoot
    Files <- MCFiles
    Statuses = {0, 200, 401, 429}
    Runs <- MCRuns
    Rounds = 3
INVARIANTS
    GroupDies
    InvocationIsAccounted
    ConversationIsKept
PROPERTIES
    ToolsStayAtTheirTask
    NodesEnd
CHECK_DEADLOCK FALSE
