SPECIFICATION ProgressSpec
CONSTANTS
    MaxMissed = 2
    MaxBeats = 4
    MaxIssued = 3
    MaxAttempts = 2
    PrCallers = {w1, w2}
    Providers = {"a", "b"}
    NoProvider = "none"
    PriorityOf <- MCPriorityOf
    Threshold = 2
    MaxPrCalls = 3
    GwRequests = {w1, w2}
    GwProviders <- MCGwProviders
    GwDefault = "anthropic"
    GwConcurrent = 1
    MaxPieces = 4
    RcCallers = {1, 2}
    MaxReconnects = 2
    MaxDials = 2
    MaxConns = 3
    MaxFlaps = 2
    Tasks = {t1, t2}
    Ids = {t1, t2}
    MaxSize = 1
    Workers = {w1, w2}
    MaxRetries = 1
    IdOf <- UniqueIds
    Priorities <- MCPriorities
    NoTask = NoTask
    NoId = NoId
    MaxChatMessages = 2
    ChatSessions = {"s1"}
    MaxActive = 2
    MaxChats = 1
PROPERTIES
    TasksSettle
    AssistantSettles
CHECK_DEADLOCK FALSE
