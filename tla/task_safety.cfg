\* Safety of the task pipeline under every kind of fault.
CONSTANTS
    Replicas = {r1, r2}
    Clients = {c1}
    Tasks = {t1, t2}
    Msgs = {m1, m2, m3}
    MaxNumberOfMessages = 2
    Faults <- AllFaults
    NoMsg = NoMsg
    NoReplica = NoReplica
    NoBody = NoBody
    Malformed = Malformed
    NullBody = NullBody
SPECIFICATION Spec
SYMMETRY Symmetry
INVARIANTS TypeOK NoAcceptedTaskLost StatusRowPrecedesMessage
PROPERTIES OnlyItsProcessorDeletes
