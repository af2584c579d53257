SPECIFICATION LifecycleSpec
CONSTANTS
    Containers = {c1, c2}
    MaxSessions = 1
    MaxContainers = 1
    Persistence = TRUE
    MaxCrashes = 1
    Garbage = Garbage
    Absent = Absent
    Owners <- TwoOwners
    Extents <- CleanExtents
    Sessions = {s1, s2}
    Messages = {m1}
    MaxConsecutiveFailures = 2
    MaxStarts = 2
    Callers = {1, 2}
    LLMEnabled = TRUE
    MaxBoots = 2
    RuntimeTypes <- Runtimes2
    MaxInstances = 3
    Boxes = {1}
    StreamClients = {1, 2}
    MaxBusEvents = 2
    ChannelCap = 1
    MaxRpcs = 2
    MaxProcesses = 2
    Events = {1, 2}
    Subscribers = {1}
    EventTypeOf <- OneType
    FilterOf <- OneFilter
    AnyType = "any"
    BusBuffer = 1
    TaskIDs = {1}
    WorkerIDs = {1}
    Heartbeats = {1, 2}
    TaskStreams = {}
    Calls = {1}
    ToolOf <- OneTool
    Conns = {1, 2, 3}
    AgentIDs = {1}
    MaxAttempts = 0
    MaxBreaks = 2
INVARIANTS
    OrchestratorLeavesNothing
    ServerLeavesNothing
PROPERTIES
    SessionStatesLegal
    ContainersTracked
    ServicesEnd
    WorkEnds
CHECK_DEADLOCK FALSE
