SPECIFICATION Spec
CONSTANTS
    Ids = {1, 2}
    Domains = {"a", "b"}
    Ips = {1, 2}
    StoredMappings <- StoredMappingsDef
    Answers <- AnswersDef
    Parallel = 1
    Callers = {"c1"}
    Loop = "loop"
    MaxWrites = 2

    Nodes = {1, 2, 3}
    Groups = {1, 2}
    Confs = {"c1", "c2", "c3"}
    Hosts <- HostsDef
    RuleLists <- RuleListsDef
    Affinity <- AffinityDef
    StoredNodes <- StoredNodesDef
    StoredGroups <- StoredGroupsDef
    Bundle <- BundleDef
    Commands = {"c1"}
    StatusWriter = "status"
    Requests = {"r1"}
    Hold = 1
    MaxBindings = 1
    MaxEdits = 2
    MaxStatuses = 1
    MaxDialFailures = 1
    MaxClock = 1

    Keys = {"k1", "k2", "k3"}
    MaxSamples = 2
    Ttl = 3
    Interval = 2
    Recorders = {"r1"}
    MaxRecords = 4
    MaxMoment = 3

    Routes <- RoutesDef
    Dials = {"d1", "d2"}
    MaxCircuits = 2
    Window = 1
    Timeouts = {1, 2}
    Threshold = 1
    Administrator = TRUE
    MaxTime = 2

    Upstreams = {1, 2, 3}
    PoolIds = {0, 1}
    Period = 2
    MaxLoad = 1

    Attempts = {"a1"}
    MaxWindow = 2
    Span = 0
    Lessons = 1
    Latencies = {1, 2}
    MaxInstant = 2
    MaxRow = 2
    MaxReserved = 3

    Ends <- EndsDef
    Refusing = {2}
    MethodLength = 2
    HeaderLength = 3
    Payload = 3
    TargetLength = 3
    Chunk = 2
    Tries = 2

    Clients = {"c1", "c2"}
    Values = {"d", "v"}
    Default = "d"
    MaxCommands = 2

    LogRows = {1, 2, 3}
    Naming = {1, 3}
    PageSize = 1
    Channel = 1
    MaxAsks = 4
    MaxCalls = 2
    MaxOthers = 1
    MaxMoves = 2
INVARIANTS
    MappingsInv
    RoutingInv
    QualityInv
    TurnsAreFair
    MetricsAddUp
    RowFollowsMemory
    TunnelInv
    SettingsAreKept
    
    LogsCatchUp
PROPERTIES
    
    LessonsAreKept
    CircuitsAreKept
CHECK_DEADLOCK FALSE
