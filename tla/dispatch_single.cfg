\* One replica with failing calls and crashes.
CONSTANTS
    k1 = k1
    k2 = k2
    k3 = k3
    small = small
    large = large
    huge = huge
    again = again
    Replicas = {r1}
    Resources <- TwoResources
    Disabled <- AllEnabled
    Tasks <- FourTasks
    Tokens <- TaskTokens
    Chars <- TaskChars
    Estimate <- TaskEstimate
    Requested <- TaskRequested
    DefaultMaxTokens = 1
    MaxInt = 7
    MaxConcurrentBatches = 2
    MaxTokensPerBatch = 2
    MaxCalls = 1
    Faults <- SingleFaults
    NoRow = NoRow
    NoKey = NoKey
    NoTask = NoTask
SPECIFICATION AccountSpec
SYMMETRY LikeTasksAndResources
INVARIANTS SlotsAccounted LimitRespected OnlyFittingSubmitted
PROPERTIES ImplementsLedger
