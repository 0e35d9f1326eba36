\* Several replicas, stale reads, resets and crashes.
CONSTANTS
    k1 = k1
    k2 = k2
    k3 = k3
    small = small
    large = large
    huge = huge
    Replicas = {r1, r2}
    Resources <- TwoResources
    Disabled <- AllEnabled
    Tasks <- TwoTasks
    Tokens <- TaskTokens
    Chars <- TaskChars
    Estimate <- TaskEstimate
    Requested <- TaskRequested
    DefaultMaxTokens = 1
    MaxInt = 7
    MaxConcurrentBatches = 1
    MaxTokensPerBatch = 2
    MaxCalls = 2
    Faults <- AllFaults
    NoRow = NoRow
    NoKey = NoKey
    NoTask = NoTask
SPECIFICATION Spec
SYMMETRY Symmetry
INVARIANTS TypeOK CountersNonNegative OneBatchPerCall LoadWithinSlots
