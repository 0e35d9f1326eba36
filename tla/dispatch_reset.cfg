\* A restart whose reads fail: is a row that is there left alone?
CONSTANTS
    k1 = k1
    k2 = k2
    k3 = k3
    small = small
    large = large
    huge = huge
    Replicas = {r1}
    Resources <- OneResource
    Disabled <- AllEnabled
    Tasks <- OneTask
    Tokens <- TaskTokens
    Chars <- TaskChars
    Estimate <- TaskEstimate
    Requested <- TaskRequested
    DefaultMaxTokens = 1
    MaxInt = 7
    MaxConcurrentBatches = 1
    MaxTokensPerBatch = 2
    MaxCalls = 2
    Faults <- StartFaults
    NoRow = NoRow
    NoKey = NoKey
    NoTask = NoTask
SPECIFICATION Spec
PROPERTIES InitialisesOnlyMissing
