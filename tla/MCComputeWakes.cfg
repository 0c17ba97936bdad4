SPECIFICATION Spec
CONSTANTS
    Capacity = 1
    Wakers = {c1}
    IdlePoll = 2
    FastPoll = 1
    Backoff <- MCBackoff
    RetryAfter = {0, 4}
    RetryDelay <- MCRetryDelay
    FailLimit = 1
    MaxRetries = 1
    MaxSyncs = 0
    None = None
PROPERTIES
    ChatWakesWorker
