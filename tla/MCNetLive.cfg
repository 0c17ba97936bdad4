SPECIFICATION FairSpec
CONSTANTS
    p = p
    b = b
    w1 = w1
    w2 = w2
    v1 = v1
    v2 = v2
    x = x
    None = None
    Before <- Later
    FailoverFloor = 2
    MaxTasks = 1
    PublishBy = 0
    Publishers = {p}
    Nodes = {p, w1, v1}
    DataNodes = {w1}
    VerifyNodes = {v1}
    Terms <- Plain
    Tamperers = {}
    Lagging = {p, v1}
    MaxTime = 2
    MaxVersions = 2
    MaxRestarts = 1
    Slow = {p}
    MaxStale = 1

    
PROPERTIES
    Converges
    DutiesAreDone
