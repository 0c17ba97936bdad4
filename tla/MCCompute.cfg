SPECIFICATION Spec
CONSTANTS
    Capacity = 2
    Wakers = {c1, c2}
    IdlePoll = 2
    FastPoll = 1
    Backoff <- MCBackoff
    RetryAfter = {0, 4}
    RetryDelay <- MCRetryDelay
    FailLimit = 3
    MaxRetries = 2
    MaxSyncs = 1
    None = None
INVARIANTS
    NodeTypeOK
    StaysScheduled
    QuotaRespected
    SlotsRespected
PROPERTIES
    SuspendedIsSilent
SYMMETRY ChatSymmetry
