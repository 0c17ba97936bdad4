SPECIFICATION ServicesSpec
CONSTANTS
    Executors = {"o", "c1"}
    Originator = "o"
    Hashes = {"h1", "h2"}
    QuorumThreshold = 2
    Jobs = {"j1"}
    MaxRuns = 2
    LastCommit = 2
    Unbuildable = {1}
    Crashing = {2}
    Damaged = Damaged
    MaxKills = 2
    PeerNodes = {"a", "b"}
    RunningNodes = {"a", "b"}
    SeedsOf <- MCSeedsOf
    MeshSees <- MCMeshSees
    Remembers <- MCRemembers
    PeerTtl = 2
    MaxFaults = 1
    Users = {"u"}
    MaxSessions = 4
    MaxPorts = 3
    Grace = 2
    MeshNodes = {"h", "a", "b"}
    BootstrapOf <- MCBootstrapOf
    MaxMeshFaults = 1
    PullModels = {"m"}
    MaxBackoff = 2
    MaxPlatformFaults = 2
    Domains = {"d1"}
    Emails = {"e1"}
    MaxHttpsFaults = 2
    MaxCooldowns = 1
    Viewers = {"v1"}
    Topics = {"app", "models"}
    MaxLogSize = 2
    SilenceBeats = 2
    MaxEvents = 3
    MaxViews = 2
    Tokens = {"k1"}
    Ageing = {}
    MaxDrops = 2
    SovereignNodes = {"a", "b", "g"}
    Gone = {"g"}
    BootstrapPeers <- MCBootstrapPeers
    MaxPeers = 1
    PullLimit = 2
    FailureDrop = 2
    FailureMention = 1
    MaxLosses = 0
    MaxRestarts = 1
    MaxPushes = 0
PROPERTIES
    WaitsEnd
    
    PhonesLeave
    Recovers
CHECK_DEADLOCK FALSE
