\* Two replicas that take turns, no faults but refusals: the row is an exact
\* account.  A behaviour ends when MaxCalls calls were made.
CONSTANTS
    k1 = k1
    k2 = k2
    k3 = k3
    small = small
    large = large
    huge = huge
    Replicas = {r1, r2}
    Resources <- ThreeResources
    Disabled <- ThirdDisabled
    Tasks <- ThreeTasks
    Tokens <- TaskTokens
    Chars <- TaskChars
    Estimate <- TaskEstimate
    Requested <- TaskRequested
    DefaultMaxTokens = 1
    MaxInt = 7
    MaxConcurrentBatches = 2
    MaxTokensPerBatch = 2
    MaxCalls = 2
    Faults <- NoFaults
    NoRow = NoRow
    NoKey = NoKey
    NoTask = NoTask
SPECIFICATION TurnsSpec
SYMMETRY Symmetry
INVARIANTS ExactAccounting
PROPERTIES ImplementsLedger
CHECK_DEADLOCK FALSE
