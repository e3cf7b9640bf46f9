CONSTANTS
    w1 = w1
    w2 = w2
    Clients = {w1, w2}
    Requests <- MCRequests
    MaxCalls <- MCCalls
    StartBoard <- TwoIssues
    IssuePageSize = 1
    CommentPageSize = 2
    FeedPageSize = 2
    DirectoryPageSize = 1
    MaxAttempts = 2
    Window = 1
    MaxTime = 2
    Faults = 0
    LegacyCalls = 1
    LegacyStart = FALSE
SPECIFICATION Spec
INVARIANTS
    ResolvedMetaReadable
CHECK_DEADLOCK FALSE
