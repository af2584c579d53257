SPECIFICATION Spec
CONSTANTS
    Tasks = {t1, t2, t3, t4}
    Ids = {t1, t2, t3, t4}
    IdOf <- UniqueIds
    Priorities <- MCPriorities
    MaxSize = 2
    NoTask = NoTask
    Events = {1, 2, 3}
    Subscribers = {1, 2}
    EventTypeOf <- MCEventTypeOf
    FilterOf <- MCFilterOf
    AnyType = "any"
    BusBuffer = 2
    Routes = {"r1", "r2", "r3"}
    Topics <- MCTopics
    Handled = {1, 2, 3}
    MaxAttempts = 2
    BatchSize = 2
    Flushers = {"f1", "f2"}
    EventIds = {"i1", "i2"}
    SourceOf <- MCSourceOf
    MaxEvents = 2
    Window = 2
    Ttl = 2
    MaxTime = 4
    MaxPasses = 4
    IpcMessages = {1, 2}
    Connections = {1, 2, 3, 4}
    ContainerIds = {"c1"}
    MaxConns = 1
    AcceptBuffer = 1
    QueueBuffer = 1
    MaxHistory = 1
    EnableAuth = TRUE
    StreamClients = {1, 2}
    MaxBusEvents = 2
    ChannelCap = 1
    NoConfigFile = NoConfigFile
    Unreadable = Unreadable
    NotSet = NotSet
    Unparsable = Unparsable
    MaxPort = 65535
    Numbers <- MCNumbers
    Sizes = {0, 5}
    Texts <- MCTexts
    Storages <- MCStorages
    Homes <- MCHomes
    EnvStorages <- MCEnvStorages
    DefaultNames = {"", "openai"}
    ProvidersWritten <- MCProvidersWritten
SYMMETRY Symmetry
INVARIANTS
    QueueConsistent
    BusSafe
    PipelineSafe
    IpcSafe
    EventStreamsSafe
    ConfigSafe
CHECK_DEADLOCK FALSE
