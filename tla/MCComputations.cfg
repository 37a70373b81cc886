SPECIFICATION ComputationsSpec
CONSTANTS
    Ids <- MCIds
    Dotted = {"a.b"}
    Sheets <- MCSheets
    Durations <- MCDurations
    BadConditions = {"bad"}
    Parent <- MCParent
    MaxAscents = 2
    NoManifest <- MCNoManifest
    DefaultSteps = 3
    DefaultBudget = 5
    DefaultFixes = 3
    Modes = {"subscription_bare", "strict_bare", "inherit"}
    Sources = {"user"}
    MaxEdits = 3
    MaxText = 4
    MaxDeps = 4
    MaxName = 5
    MaxArgs = 4
    MaxMoves = 5
    MaxEdges = 3
    MaxEvents = 6
    CrashAfter = 1
    NodeTimeout = 2
    LoopK = 1
    Nobody = Nobody
INVARIANTS
    FilesAreRunAsWritten
    TextIsKept
    ControlsAreKept
    ViewIsTrue
    ProposalsKeepTheirMeaning
    OnlyAgreedRuns
PROPERTIES
    EdgesAreOrdered
CHECK_DEADLOCK FALSE
