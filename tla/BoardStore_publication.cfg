CONSTANTS
    w1 = w1
    w2 = w2
    Clients = {w1, w2}
    Requests <- MCRequests
    MaxCalls <- MCCalls
    StartBoard <- TwoIssues
    IssuePageSize = 1
    CommentPageSize = 2
    FeedPageSize = 2
    DirectoryPageSize = 1
    MaxAttempts = 2
    Window = 1
    MaxTime = 2
    Faults = 1
    LegacyCalls = 2
    LegacyStart = TRUE
SPECIFICATION Spec
INVARIANTS
    
    
    ProjectionsAgree
    AnswersTruthful
    

    
CHECK_DEADLOCK FALSE
