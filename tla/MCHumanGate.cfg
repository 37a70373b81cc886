SPECIFICATION FairSpec
CONSTANTS
    Gate <- MCGate
    Slug <- MCSlug
    VisitGate <- MCVisits
    Labels = {"yes", "no"}
    HasTerminal = TRUE
    MaxAsks = 3
    MaxFaults = 1
INVARIANTS
    RightAnswerDecides
PROPERTIES
    SameQuestionAgain
    AnswerIsNoticed
CHECK_DEADLOCK FALSE
