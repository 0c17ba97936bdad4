SPECIFICATION Spec
CONSTANTS
    p = p
    b = b
    w1 = w1
    w2 = w2
    v1 = v1
    v2 = v2
    x = x
    None = None
    Before <- Earlier
    FailoverFloor = 2
    MaxTasks = 1
    PublishBy = 0
    Publishers = {p}
    Nodes = {p, b, w1, v1}
    DataNodes = {w1}
    VerifyNodes = {b, v1}
    Terms <- Backed
    Tamperers = {}
    Lagging = {p}
    MaxTime = 4
    MaxVersions = 1
    MaxRestarts = 0
    Slow = {}
    MaxStale = 0
INVARIANTS
    IndependentRoles
    CoordinationIsValid
