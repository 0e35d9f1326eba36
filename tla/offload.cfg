\* The pipeline and the resource service together.
CONSTANTS
    k1 = k1
    Replicas = {r1, r2}
    Clients = {c1}
    Tasks = {t1}
    Msgs = {m1, m2}
    MaxNumberOfMessages = 1
    Faults <- PipelineFaults
    NoMsg = NoMsg
    NoReplica = NoReplica
    NoBody = NoBody
    Malformed = Malformed
    NullBody = NullBody
    Resources <- OneResource
    Disabled <- AllEnabled
    MaxConcurrentBatches = 1
    MaxTokensPerBatch = 2
    MaxCalls = 2
    CallFaults <- ServiceFaults
    NoRow = NoRow
    NoKey = NoKey
    NoTask = NoTask
    Wirings <- AnyWiring
    Tokens <- TaskTokens
SPECIFICATION OffloadSpec
SYMMETRY Symmetry
INVARIANTS OffloadTypeOK DisposedIsSubmitted SubmittedHasStatus
PROPERTIES DeliversAtLeastOnce
