SPECIFICATION FairSpec
CONSTANTS
    Node <- MCNode
    Rank <- MCRank
    Normal <- MCNormal
    Start = "start"
    Exits = {"exit"}
    Edges <- MCEdges
    MaxAttempts <- MCMaxAttempts
    Waiting = {"review"}
    Quality = {"check", "lint"}
    MaxFix = 2
    Gates <- MCGates
    RetryChain <- MCRetryChain
    MaxSteps = 9
    MaxBudget = 1
    Results <- MCResults
    Contexts <- MCContexts
    NoContext = "unset"
    DiskMayFail = TRUE
    NoNode = "nobody"
INVARIANTS
    BudgetsHold
    NothingIsLost
    CompletedIsWalk
    GatesHoldAtExit
PROPERTIES
    RunStaysResumable
    ImplementsDurableRun
    ProcessEnds
CHECK_DEADLOCK FALSE
