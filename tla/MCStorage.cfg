SPECIFICATION StorageSpec
CONSTANTS
    Containers = {}
    MaxSessions = 0
    MaxContainers = 0
    Persistence = TRUE
    MaxCrashes = 2
    Garbage = Garbage
    Absent = Absent
    Owners <- TwoOwners
    Extents <- AllExtents
    Sessions = {s1}
    Messages = {m1, m2, m3}
    CredIds = {1, 2}
    Secrets = {"v1", "v2"}
    MaxKeys = 3
    MaxRestarts = 2
    MemIds = {1}
    Titles = {"t1", "t2"}
    MemTopics = {"general", "work"}
    MemContents = {1}
    MaxStores = 3
    MaxReboots = 1
    SkillIds = {"k1", "k2"}
    Callers = {1, 2}
    MaxSkillsPerOwner = 1
    MaxLoads = 2
    MaxSkillOps = 3
    ToolNames = {"x", "y"}
    MaxInstances = 3
    MaxToolContainers = 2
    Consumers = 2
    Reloads = {1, 2}
    MaxEdits = 2
    PeCallers = {1, 2}
    GlobalPolicies <- MCGlobalPolicies
    SessionPolicies <- MCSessionPolicies
    Configs <- MCConfigs
    DefaultGlobal <- MCDefaultGlobal
    NoPolicy = NoPolicy
    WtTasks = {"j1", "j2"}
    NoTask = NoTask
SYMMETRY Symmetry
INVARIANTS
    FilesRecover
    
PROPERTIES
    ToolsConfined
    PolicyApplied
CHECK_DEADLOCK FALSE
