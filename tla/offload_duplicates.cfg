\* One replica, and a delete that fails: is a task submitted once?
CONSTANTS
    k1 = k1
    Replicas = {r1}
    Clients = {c1}
    Tasks = {t1}
    Msgs = {m1}
    MaxNumberOfMessages = 1
    Faults <- DeleteFails
    NoMsg = NoMsg
    NoReplica = NoReplica
    NoBody = NoBody
    Malformed = Malformed
    NullBody = NullBody
    Resources <- OneResource
    Disabled <- AllEnabled
    MaxConcurrentBatches = 2
    MaxTokensPerBatch = 2
    MaxCalls = 2
    Tokens <- TaskTokens
    CallFaults <- NoFaults
    NoRow = NoRow
    NoKey = NoKey
    NoTask = NoTask
    Wirings <- Wired
SPECIFICATION OffloadSpec
INVARIANTS AtMostOneBatch
CHECK_DEADLOCK FALSE
