SPECIFICATION Spec
CONSTANTS
    p = p
    b = b
    w1 = w1
    w2 = w2
    v1 = v1
    v2 = v2
    x = x
    None = None
    Before <- Earlier
    FailoverFloor = 2
    MaxTasks = 1
    PublishBy = 0
    Publishers = {p}
    Nodes = {p, w1, w2, v1}
    DataNodes = {w1, w2}
    VerifyNodes = {v1}
    Terms <- Plain
    Tamperers = {w1}
    Lagging = {}
    MaxTime = 4
    MaxVersions = 1
    MaxRestarts = 0
    Slow = {p}
    MaxStale = 1
INVARIANTS
    TypeOK
    GenuineAccepted
    ExecutorsInTurn
