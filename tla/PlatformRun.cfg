SPECIFICATION PlSpec
CONSTANTS
    MaxTasks = 3
    Owners = {a, b}
    NoOwner = NoOwner
    Strict = TRUE
    CxConfigs <- MCConfigs
    MaxRecorded = 8
    MaxDecisions = 2
    HkSessions = {1}
    HkDispatchers = {d1, d2}
    HkRequests <- MCHkRequests
    HkPayloads <- MCHkPayloads
    MaxRegistrations = 2
    MaxHookTurns = 1
    PoolTools = {"read", "edit"}
    EpAgents <- MCEpAgents
    EpRoots <- MCEpRoots
    EpSkills <- MCEpSkills
    EpContexts <- MCEpContexts
    EpRuntimes <- MCEpRuntimes
    MaxExecs = 3
    MdKinds <- MCMdKinds
    Statements = {"tabs", "spaces", "two"}
    Findings = {"topic"}
    MaxTurns = 3
    Official <- MCOfficial
    PgConfigs <- MCPgConfigs
    Capabilities = {"memory"}
    SbClients = {c1}
    Shells = {e1}
    MaxBrokers = 2
    MaxBrokerCrashes = 1
    WrClients = {c1, c2}
    NoClient = NoClient
    MaxOthers = 1
    NoTool = NoTool
    RgTools <- MCRgTools
    RgProviders <- MCRgProviders
    MaxRegistered = 5
INVARIANTS TaskListSafe ContextSafe HookSafe  DocumentsSafe PackagesSafe  KernelSafe
PROPERTIES OwnerKeepsTask PolicyOnlyShrinks FilesAreKept
CHECK_DEADLOCK FALSE
