SPECIFICATION SessionSpec
CONSTANTS
    Containers = {}
    MaxSessions = 1
    MaxContainers = 0
    Persistence = FALSE
    MaxCrashes = 0
    Garbage = Garbage
    Absent = Absent
    Owners <- OneOwner
    Extents <- CleanExtents
    Sessions = {s1}
    Messages = {m1}
    MaxConsecutiveFailures = 2
    MaxStarts = 2
    Callers = {1, 2}
    LLMEnabled = TRUE
    MaxBoots = 2
    RuntimeTypes <- Runtimes2
    MaxInstances = 3
    Boxes = {1}
    StreamClients = {1, 2}
    MaxBusEvents = 2
    ChannelCap = 1
    MaxRpcs = 2
    MaxProcesses = 2
    Events = {1, 2}
    Subscribers = {1}
    EventTypeOf <- OneType
    FilterOf <- OneFilter
    AnyType = "any"
    BusBuffer = 1
    TaskIDs = {1}
    WorkerIDs = {1}
    Heartbeats = {1, 2}
    TaskStreams = {}
    Calls = {1}
    ToolOf <- OneTool
    Conns = {1, 2, 3}
    AgentIDs = {1}
    MaxAttempts = 0
    MaxBreaks = 2
PROPERTIES
    CloseReturns
CHECK_DEADLOCK FALSE
