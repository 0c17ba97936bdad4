SPECIFICATION Spec
CONSTANTS
    p = p
    b = b
    w1 = w1
    w2 = w2
    v1 = v1
    v2 = v2
    x = x
    None = None
    Replicas = {"n1"}
    Universe <- LateVerifier
    Before <- Earlier
    NodeBefore <- NodeEarlier
    FailoverFloor = 5
    OperatorShare = 8500
    ExecutionShare = 7000
    VerificationShare = 3000
    PerNodeCap = 7000
    SubsidyBudget = 1000
    MaxCrashes = 2
INVARIANTS
    RestoreComplete
