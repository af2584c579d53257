SPECIFICATION RoutingSpec
CONSTANTS
    Agents = {1}
    AgentOf <- OneAgent
    None = None
    Requests = {r1}
    Sessions = {s1}
    Streams = {x1, x2}
    TaskIDs = {1, 2}
    WorkerIDs = {1}
    Heartbeats = {1, 2}
    TaskStreams = {1}
    Calls = {1, 2}
    ToolOf <- OneTool
    Conns = {1, 2, 3, 4}
    AgentIDs = {1}
    MaxAttempts = 1
    MaxBreaks = 3
    Execs = {r1, r2}
    Disablers = {1}
    ToolStreams = {1}
    MaxObjects = 2
    ChatStreams = {1, 2}
    ChatSenders = {1, 2}
    MaxSets = 2
    ChatCalls = {r1, r2}
    ResponseCalls = {r3}
    CloseCalls = {r1, r2}
    LlmStreams = {r1, r2}
    LlmCalls = {r3}
    RequestIds = {1, 2}
    MaxConcurrent = 1
    MaxUpstream = 2
INVARIANTS
    ConnectedIsReachable
CHECK_DEADLOCK FALSE
