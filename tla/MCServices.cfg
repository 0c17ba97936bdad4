SPECIFICATION ServicesSpec
CONSTANTS
    SwarmTasks = {"t1", "t2"}
    MaxCrashes = 1
    Capacity = 2
    Chats = {"c1", "c2"}
    Requests <- MCRequests
    AutoOrder <- MCAutoOrder
    MaxCached = 1
    CacheTtl = 0
    AutoTtl = 1
    MaxClock = 1
    Apps = {"a", "d"}
    DockerApps = {"d"}
    LastStep = 2
    MaxInstalls = 2
    Clients = {"k1", "k2", "k3"}
    MaxFailures = 3
    Window = 2
    MaxTracked = 2
    MaxTime = 3
    
    Executors = {"o", "c1", "c2"}
    Originator = "o"
    Hashes = {"h1", "h2"}
    QuorumThreshold = 2
    Jobs = {"j1", "j2"}
    MaxRuns = 2
    LastCommit = 2
    Unbuildable = {1}
    Crashing = {2}
    Damaged = Damaged
    MaxKills = 2
    PeerNodes = {"a", "b", "c"}
    RunningNodes = {"a", "b"}
    SeedsOf <- MCSeedsOf
    MeshSees <- MCMeshSees
    Remembers <- MCRemembers
    PeerTtl = 2
    MaxFaults = 1
    Users = {"u"}
    MaxSessions = 4
    MaxPorts = 3
    Grace = 2
    MeshNodes = {"h", "a", "b"}
    BootstrapOf <- MCBootstrapOf
    MaxMeshFaults = 2
    ShardIds = {"s1", "s2"}
    SizeOf <- MCSizeOf
    MaxStorage = 4
    MinFree = 1
    Polls = {1, 2}
    MaxVaultFaults = 2
    MarketJobs = {"j1", "j2", "j3"}
    MaxActiveJobs = 2
    MarketHistory = 2
    MaxExecutions = 3
    Chains = {"ton", "sol"}
    HereChains = {"ton"}
    MaxToggles = 4
    GateProcesses = {"old", "new"}
    Pins = {"x", "y"}
    SessionTtl = 0
    CodeTtl = 0
    MaxMinutes = 1
    MaxPinChanges = 1
    Addresses = {"a", "b"}
    WalletCalls = {"w1", "w2"}
    MaxWalletFaults = 2
    MaxClaims = 1
    Sockets = {"d1", "d2"}
    MaxSockets = 1
    ChatHistory = 1
    ChatSlots = 2
    Wallets = {"w"}
    MaxQuestions = 2
    PullModels = {"m"}
    MaxBackoff = 2
    MaxPlatformFaults = 2
    RoleCatalog <- MCRoleCatalog
    Profiles <- MCProfiles
    Fees = {"e1", "e2"}
    WorthOf <- MCWorthOf
    RpcCalls = {"r"}
    MaxNaasFaults = 2
    Questions = {"q1", "q2"}
    Answers = {"a"}
    Recalls = {"r1"}
    L1Max = 1
    L1Ttl = 0
    L2Ttl = 1
    MaxHours = 1
    MaxStores = 2
    Cids = {"c1", "c2"}
    PinCalls = {"p1", "p2"}
    SaveEvery = 2
    MaxPinFaults = 2
    Domains = {"d1", "d2"}
    Emails = {"e1", "e2"}
    MaxHttpsFaults = 2
    MaxCooldowns = 1
    Viewers = {"v1"}
    Topics = {"app", "models"}
    MaxLogSize = 2
    SilenceBeats = 2
    MaxEvents = 3
    MaxViews = 2
    Chain <- MCChain
    FailoverCalls = {"f1", "f2"}
    FailThreshold = 1
    Cooldown = 1
    SuccessWindow = 1
    MaxUsage = 1
    MaxSeconds = 2
    Sources <- MCCallers
    Trusted <- MCTrusted
    RateLimit = 1
    LimitWindow = 1
    MaxLogins = 1
    Lockout = 1
    MaxTick = 3
    MaxSeen = 3
    SwarmNodes = {"n1", "n2"}
    Volunteers = {"n1"}
    SwarmModels = {"sm"}
    StaleAfter = 1
    MaxAsked = 1
    MaxPeriods = 3
    Streams = {"inference"}
    DefaultRate = 1
    Rates = {0, 2}
    MaxWork = 1
    BatchSize = 2
    MaxEarned = 3
    MaxBatches = 2
    ShareRequests = {"r1", "r2", "r3"}
    RequestId <- MCRequestId
    RequestType <- MCRequestType
    Prices = {1, 2}
    Calls = {"s1", "u1", "u2"}
    CallKind <- MCCallKind
    Owned = 1
    Staked = 1
    MaxHistory = 1
    MaxHistoryEver = 1
    DApps = {"c1", "c2", "t1"}
    TrustedDApps = {"c2"}
    Transactions = {"t1"}
    Approvals = {"a1", "a2"}
    MaxInstant = 2
    Tokens = {"k1", "k2"}
    Ageing = {"k2"}
    MaxDrops = 1
    Trainers = {"g1", "g2"}
    TrainJobs = {"tj"}
    Norms = {1, 4}
    MinSubmissions = 2
    Outlier = 3
    MaxGradients = 4
    OfflineTasks = {"o1", "o2"}
    MaxTries = 2
    Holders = {"node", "x", "y"}
    NodeAddress = "node"
    Bounties = {"b1"}
    MinStake = 1
    PerNode = 19
    MaxStaked = 2
    MaxPosts = 1
    MaxSubmissions = 1
    MaxApprovals = 2
    Imports = {"i1", "i2", "i3", "i4"}
    SkillNames = {"writer"}
    SkillName <- MCSkillName
    Source <- MCSource
    BridgeTasks = {"b1"}
    SovereignNodes = {"a", "b", "g"}
    Gone = {"g"}
    BootstrapPeers <- MCBootstrapPeers
    MaxPeers = 1
    PullLimit = 2
    FailureDrop = 2
    FailureMention = 1
    MaxLosses = 1
    MaxRestarts = 1
    MaxPushes = 1
INVARIANTS
    ServicesTypeOK
    
    
    
    
    GoneIsForgotten
    ActiveIsWatched
    
    
    
    
    
PROPERTIES
    ImplementsAgreement
    JobsAccounted
    
    LimitsKept
CHECK_DEADLOCK FALSE
