\* Two replicas and no faults: is the limit of a shared row kept?
CONSTANTS
    k1 = k1
    k2 = k2
    k3 = k3
    small = small
    large = large
    huge = huge
    Replicas = {r1, r2}
    Resources <- OneResource
    Disabled <- AllEnabled
    Tasks <- OneTask
    Tokens <- TaskTokens
    Chars <- TaskChars
    Estimate <- TaskEstimate
    Requested <- TaskRequested
    DefaultMaxTokens = 1
    MaxInt = 7
    MaxConcurrentBatches = 1
    MaxTokensPerBatch = 2
    MaxCalls = 2
    Faults <- NoFaults
    NoRow = NoRow
    NoKey = NoKey
    NoTask = NoTask
SPECIFICATION Spec
INVARIANTS LimitRespected
CHECK_DEADLOCK FALSE
