SPECIFICATION SchedulerSpec
CONSTANTS
    Tasks = {t1, t2}
    Ids = {t1, t2}
    MaxSize = 2
    Workers = {w1, w2}
    MaxRetries = 1
    IdOf <- UniqueIds
    Priorities <- MCPriorities
    NoTask = NoTask
    NoId = NoId
    MaxChatMessages = 3
    ChatSessions = {"s1", "s2"}
    MaxActive = 2
    MaxChats = 1
    MaxMissed = 2
    MaxBeats = 4
    MaxIssued = 3
    MaxAttempts = 2
    PrCallers = {w1, w2}
    Providers = {"a", "b"}
    NoProvider = "none"
    PriorityOf <- MCPriorityOf
    Threshold = 2
    MaxPrCalls = 3
    GwRequests = {w1, w2}
    GwProviders <- MCGwProviders
    GwDefault = "anthropic"
    GwConcurrent = 1
    MaxPieces = 4
    RcCallers = {1, 2}
    MaxReconnects = 2
    MaxDials = 2
    MaxConns = 3
    MaxFlaps = 2
INVARIANTS
    ResultAvailable
CHECK_DEADLOCK FALSE
