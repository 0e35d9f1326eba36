\* Redelivery: every accepted task is handled in spite of the faults a running
\* event loop recovers from.
CONSTANTS
    Replicas = {r1, r2}
    Clients = {c1}
    Tasks = {t1}
    Msgs = {m1, m2}
    MaxNumberOfMessages = 2
    Faults <- TransientFaults
    NoMsg = NoMsg
    NoReplica = NoReplica
    NoBody = NoBody
    Malformed = Malformed
    NullBody = NullBody
SPECIFICATION FairSpec
PROPERTIES AcceptedTaskIsHandled
