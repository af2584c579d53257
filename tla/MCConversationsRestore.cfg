SPECIFICATION SessionSpec
CONSTANTS
    Containers = {}
    MaxSessions = 1
    MaxContainers = 0
    Persistence = TRUE
    MaxCrashes = 1
    Garbage = Garbage
    Absent = Absent
    Owners <- TwoOwners
    Extents <- CleanExtents
    Sessions = {s1}
    Messages = {m1, m2}
    MaxTexts = 1
    MaxAnswers = 1
    MaxLosses = 1
    MaxControls = 2
    LcCalls = {1, 2}
    KindOf <- MCKindOf
    MaxChunks = 2
    MaxToolCalls = 3
    Hooks = {1, 2}
    Stoppers = {1, 2}
    Waiters = {3}
    MaxReopens = 2
    MaxAgentStreams = 4
    InputTokens = 6
    FirstCount = 1
    LastCount = 2
    MaxConversation = 4
    PcCalls = {c1, c2}
    ChunkBuffer = 1
    MaxRead = 2
    ToolCallIds = {1, 2, 3}
    MaxToolCallIds = 2
    MaxContent = 2
    MaxBuffer = 4
    MaxText = 12
PROPERTIES
    RestoresAll
CHECK_DEADLOCK FALSE
