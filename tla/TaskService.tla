---------------------------- MODULE TaskService ----------------------------
(***************************************************************************)
(* The task pipeline of pkg/api/business/tasks together with the two       *)
(* adapters it drives: the status table (repository_task_statuses.go over  *)
(* DynamoDB) and the task queue (repository_tasks.go over SQS).            *)
(*                                                                         *)
(* A replica is one cmd/serve process.  It serves PUT requests, each in a  *)
(* handler goroutine of its own, and runs one event loop that picks        *)
(* messages off the queue and gives each to a process function.  This      *)
(* module lets that function return anything TaskResult allows; the        *)
(* resource service that stands behind it is in ResourceDispatch.          *)
(***************************************************************************)
EXTENDS Naturals, FiniteSets

CONSTANTS
    Replicas,             \* server processes
    Clients,              \* HTTP clients, one outstanding request each
    Tasks,                \* the task ids the clients use
    Msgs,                 \* BOUND: messages ever sent in one behaviour
    MaxNumberOfMessages,  \* messages one ReceiveMessage call returns at most
    Faults,               \* the kinds of fault the environment may inject
    NoMsg, NoReplica, NoBody,
    Malformed,            \* a body json.Unmarshal refuses
    NullBody              \* the JSON body null, which unmarshals to a nil *Task

(* Fault kinds: "status", "send", "receive" and "delete" make the call fail
   with its effect applied or not; "crash" ends a process; "foreign" lets
   another producer write to the queue. *)
FaultKinds == {"status", "send", "receive", "delete", "crash", "foreign"}

ASSUME FaultsAssumption == Faults \subseteq FaultKinds

ASSUME ReceiveAssumption == MaxNumberOfMessages \in Nat \ {0}

ASSUME NullsAssumption ==
    /\ NoMsg \notin Msgs
    /\ NoReplica \notin Replicas
    /\ {NoBody, Malformed, NullBody} \cap Tasks = {}
    /\ NoBody \notin {Malformed, NullBody}
    /\ Malformed # NullBody

VARIABLES
    status,    \* status[t]: Status of t's row in task_statuses, "none" if absent
    place,     \* place[m]: where message m is
    body,      \* body[m]: the task m carries
    holder,    \* holder[m]: the replica with the latest receipt handle of m
    loop,      \* loop[r]: where r's event loop is
    batch,     \* batch[r]: records of the current tick not yet ranged over
    current,   \* current[r]: the record being processed
    handlers,  \* the running HTTP handlers
    acked,     \* history: tasks whose PUT was answered 200
    disposed   \* history: messages processFn gave a deleting result for

queueVars == <<place, body, holder>>
loopVars == <<loop, batch, current>>
vars == <<status, queueVars, loopVars, handlers, acked, disposed>>

TaskResult == {"Success", "MessageTemporarilyFailed", "MessagePermanentlyFailed",
               "SystemTemporarilyFailed", "SystemPermanentlyFailed"}

TaskStatuses == {"pending_queue", "in_progress_worker", "failed_worker_processing",
                 "retrying_worker_system_failure", "retrying_worker_message_failure",
                 "failed_worker_message_permanent", "failed_worker_unknown_result"}

Handler == [client : Clients, at : Replicas, task : Tasks,
            step : {"PutTaskStatus", "EnqueueTask"}]

Unsent == {m \in Msgs : place[m] = "unsent"}
Visible == {m \in Msgs : place[m] = "visible"}

TypeOK ==
    /\ status \in [Tasks -> TaskStatuses \cup {"none"}]
    /\ place \in [Msgs -> {"unsent", "visible", "inflight", "deleted"}]
    /\ body \in [Msgs -> Tasks \cup {NoBody, Malformed, NullBody}]
    /\ holder \in [Msgs -> Replicas \cup {NoReplica}]
    /\ loop \in [Replicas -> {"down", "polling", "ranging", "processing",
                              "deleting", "stopped"}]
    /\ batch \in [Replicas -> SUBSET Msgs]
    /\ current \in [Replicas -> Msgs \cup {NoMsg}]
    /\ handlers \subseteq Handler
    /\ acked \subseteq Tasks
    /\ disposed \subseteq Msgs

Init ==
    /\ status = [t \in Tasks |-> "none"]
    /\ place = [m \in Msgs |-> "unsent"]
    /\ body = [m \in Msgs |-> NoBody]
    /\ holder = [m \in Msgs |-> NoReplica]
    /\ loop = [r \in Replicas |-> "down"]
    /\ batch = [r \in Replicas |-> {}]
    /\ current = [r \in Replicas |-> NoMsg]
    /\ handlers = {}
    /\ acked = {}
    /\ disposed = {}

-----------------------------------------------------------------------------
(* Repository operations *)

(* The row DispatchTask writes: a whole-item upsert. *)
UpsertStatus(t) == status' = [status EXCEPT ![t] = "pending_queue"]

(* The body of UpdateTaskStatus is commented out: it returns nil and writes
   nothing, whatever the caller asks for. *)
UpdateTaskStatus(t, newStatus) == status' = status

(* SendMessage stores one more message. *)
Store(b) ==
    \E m \in Unsent :
        /\ place' = [place EXCEPT ![m] = "visible"]
        /\ body' = [body EXCEPT ![m] = b]
        /\ UNCHANGED holder

-----------------------------------------------------------------------------
(* PUT /api/{bucket}/tasks/{id...} *)

(* A request reaches a running replica; its tasks service was initialised
   before the HTTP server started.  The last guard keeps a message in store
   for every running handler. *)
ReceiveRequest(c, r, t) ==
    /\ loop[r] # "down"
    /\ \A h \in handlers : h.client # c
    /\ Cardinality(handlers) < Cardinality(Unsent)
    /\ handlers' = handlers \cup
           {[client |-> c, at |-> r, task |-> t, step |-> "PutTaskStatus"]}
    /\ UNCHANGED <<status, queueVars, loopVars, acked, disposed>>

(* Mutant of PutTaskStatus: an error is logged and the request goes on. *)
PutTaskStatusUnchecked(h) ==
    /\ h.step = "PutTaskStatus"
    /\ UpsertStatus(h.task) \/ ("status" \in Faults /\ UNCHANGED status)
    /\ handlers' = (handlers \ {h}) \cup {[h EXCEPT !.step = "EnqueueTask"]}
    /\ UNCHANGED <<queueVars, loopVars, acked, disposed>>

(* DispatchTask, first call: create the status row, or answer 500. *)
PutTaskStatus(h) ==
    /\ h.step = "PutTaskStatus"
    /\ \/ /\ UpsertStatus(h.task)
          /\ handlers' = (handlers \ {h}) \cup {[h EXCEPT !.step = "EnqueueTask"]}
       \/ /\ "status" \in Faults
          /\ UpsertStatus(h.task) \/ UNCHANGED status
          /\ handlers' = handlers \ {h}
    /\ UNCHANGED <<queueVars, loopVars, acked, disposed>>

(* Mutant of EnqueueTask: the error of the send is dropped. *)
EnqueueTaskUnchecked(h) ==
    /\ h.step = "EnqueueTask"
    /\ handlers' = handlers \ {h}
    /\ acked' = acked \cup {h.task}
    /\ Store(h.task) \/ ("send" \in Faults /\ UNCHANGED queueVars)
    /\ UNCHANGED <<status, loopVars, disposed>>

(* DispatchTask, second call: send the message and answer 200, or answer 500.
   The row is not taken back when the send fails. *)
EnqueueTask(h) ==
    /\ h.step = "EnqueueTask"
    /\ handlers' = handlers \ {h}
    /\ \/ /\ Store(h.task)
          /\ acked' = acked \cup {h.task}
       \/ /\ "send" \in Faults
          /\ Store(h.task) \/ UNCHANGED queueVars
          /\ UNCHANGED acked
    /\ UNCHANGED <<status, loopVars, disposed>>

-----------------------------------------------------------------------------
(* The event loop *)

(* Mutant of RangeOver: the loop ends when a tick has no records left. *)
RangeOverOnce(S) == IF S = {} THEN "stopped" ELSE "ranging"

(* Where the loop goes with the records S left to range over. *)
RangeOver(S) == IF S = {} THEN "polling" ELSE "ranging"

(* The process is gone: its loop and its handlers stop where they are. *)
Die(r) ==
    /\ loop' = [loop EXCEPT ![r] = "down"]
    /\ batch' = [batch EXCEPT ![r] = {}]
    /\ current' = [current EXCEPT ![r] = NoMsg]
    /\ handlers' = {h \in handlers : h.at # r}

(* Mutant of PickTaskFromQueue: a batch with a body that does not unmarshal is
   thrown away. *)
PickTaskFromQueueDropping(r) ==
    /\ loop[r] = "polling"
    /\ \E S \in SUBSET Visible :
          /\ Cardinality(S) <= MaxNumberOfMessages
          /\ LET poisoned == \E m \in S : body[m] = Malformed
             IN  /\ place' = [m \in Msgs |-> CASE m \notin S -> place[m]
                                                [] m \in S /\ poisoned -> "deleted"
                                                [] OTHER -> "inflight"]
                 /\ holder' = [m \in Msgs |-> IF m \in S THEN r ELSE holder[m]]
                 /\ batch' = [batch EXCEPT ![r] = IF poisoned THEN {} ELSE S]
                 /\ loop' = [loop EXCEPT ![r] = RangeOver(batch'[r])]
    /\ UNCHANGED <<status, body, current, handlers, acked, disposed>>

(* One ReceiveMessage call and the unmarshalling of what it returned.  An
   error, from the call or from any one body, is returned through Tick and
   ends the event loop; what was received stays in flight. *)
PickTaskFromQueue(r) ==
    /\ loop[r] = "polling"
    /\ \E S \in SUBSET Visible :
          /\ Cardinality(S) <= MaxNumberOfMessages
          /\ place' = [m \in Msgs |-> IF m \in S THEN "inflight" ELSE place[m]]
          /\ holder' = [m \in Msgs |-> IF m \in S THEN r ELSE holder[m]]
          /\ \/ /\ \A m \in S : body[m] # Malformed
                /\ batch' = [batch EXCEPT ![r] = S]
                /\ loop' = [loop EXCEPT ![r] = RangeOver(S)]
             \/ /\ "receive" \in Faults \/ \E m \in S : body[m] = Malformed
                /\ loop' = [loop EXCEPT ![r] = "stopped"]
                /\ UNCHANGED batch
    /\ UNCHANGED <<status, body, current, handlers, acked, disposed>>

(* Take the next record up, in whatever order the queue returned them.  A nil
   task is dereferenced, which panics; else the status is updated and
   processFn is called. *)
StartRecord(r) ==
    /\ loop[r] = "ranging"
    /\ \E m \in batch[r] :
          \/ /\ body[m] = NullBody
             /\ Die(r)
             /\ UNCHANGED status
          \/ /\ body[m] # NullBody
             /\ UpdateTaskStatus(body[m], "in_progress_worker")
             /\ current' = [current EXCEPT ![r] = m]
             /\ batch' = [batch EXCEPT ![r] = @ \ {m}]
             /\ loop' = [loop EXCEPT ![r] = "processing"]
             /\ UNCHANGED handlers
    /\ UNCHANGED <<queueVars, acked, disposed>>

(* Mutant of EndRecord: the wrong null value. *)
EndRecordSwapped(r) ==
    /\ current' = [current EXCEPT ![r] = NoReplica]
    /\ loop' = [loop EXCEPT ![r] = RangeOver(batch[r])]
    /\ UNCHANGED batch

(* The loop is done with its current record. *)
EndRecord(r) ==
    /\ current' = [current EXCEPT ![r] = NoMsg]
    /\ loop' = [loop EXCEPT ![r] = RangeOver(batch[r])]
    /\ UNCHANGED batch

(* Results after which the message stays in the queue, to be retried. *)
Retried == {"MessageTemporarilyFailed", "SystemTemporarilyFailed"}

(* The status the loop asks for at the end of a record; after a success it
   asks for none. *)
FinalStatus(result, failed) ==
    CASE failed                                -> "failed_worker_processing"
      [] result = "SystemTemporarilyFailed"    -> "retrying_worker_system_failure"
      [] result = "MessageTemporarilyFailed"   -> "retrying_worker_message_failure"
      [] result = "MessagePermanentlyFailed"   -> "failed_worker_message_permanent"
      [] OTHER                                 -> "failed_worker_unknown_result"

(* processFn returns (result, failed: err != nil).  The switch has no case for
   SystemPermanentlyFailed: its default deletes the message. *)
ProcessFnReturns(r, result, failed) ==
    /\ loop[r] = "processing"
    /\ \/ /\ failed \/ result \in Retried
          /\ UpdateTaskStatus(body[current[r]], FinalStatus(result, failed))
          /\ EndRecord(r)
          /\ UNCHANGED disposed
       \/ /\ ~failed /\ result \notin Retried
          /\ disposed' = disposed \cup {current[r]}
          /\ loop' = [loop EXCEPT ![r] = "deleting"]
          /\ UNCHANGED <<status, batch, current>>
    /\ UNCHANGED <<queueVars, handlers, acked>>

(* The delete by the receipt handle of the current record.  A handle that is no
   longer the latest may be accepted without effect. *)
DeleteMessage(r) ==
    \/ /\ place' = [place EXCEPT ![current[r]] = "deleted"]
       /\ holder' = [holder EXCEPT ![current[r]] = NoReplica]
    \/ /\ holder[current[r]] # r \/ "delete" \in Faults
       /\ UNCHANGED <<place, holder>>

(* DeleteMessage, whose error is logged, then the last status update of a
   result that is not a success. *)
DeleteTaskFromQueue(r) ==
    /\ loop[r] = "deleting"
    /\ DeleteMessage(r)
    /\ \E s \in {"failed_worker_message_permanent", "failed_worker_unknown_result"} :
          UpdateTaskStatus(body[current[r]], s)
    /\ EndRecord(r)
    /\ UNCHANGED <<body, handlers, acked, disposed>>

-----------------------------------------------------------------------------
(* The environment *)

(* The visibility timeout of a received message ends, whether or not the loop
   that received it is still at work: nothing extends it. *)
VisibilityTimeout(m) ==
    /\ place[m] = "inflight"
    /\ place' = [place EXCEPT ![m] = "visible"]
    /\ UNCHANGED <<status, body, holder, loopVars, handlers, acked, disposed>>

(* AppContext.Init succeeded: the loop starts to tick. *)
Start(r) ==
    /\ loop[r] = "down"
    /\ loop' = [loop EXCEPT ![r] = "polling"]
    /\ UNCHANGED <<status, queueVars, batch, current, handlers, acked, disposed>>

Crash(r) ==
    /\ "crash" \in Faults
    /\ loop[r] # "down"
    /\ Die(r)
    /\ UNCHANGED <<status, queueVars, acked, disposed>>

ForeignMessage ==
    /\ "foreign" \in Faults
    /\ Cardinality(handlers) < Cardinality(Unsent)
    /\ \E b \in {Malformed, NullBody} : Store(b)
    /\ UNCHANGED <<status, loopVars, handlers, acked, disposed>>

HandlerNext ==
    \/ \E c \in Clients, r \in Replicas, t \in Tasks : ReceiveRequest(c, r, t)
    \/ \E h \in handlers : PutTaskStatus(h) \/ EnqueueTask(h)

LoopNext(r) ==
    \/ PickTaskFromQueue(r)
    \/ StartRecord(r)
    \/ \E result \in TaskResult, failed \in BOOLEAN : ProcessFnReturns(r, result, failed)
    \/ DeleteTaskFromQueue(r)

EnvironmentNext ==
    \/ \E m \in Msgs : VisibilityTimeout(m)
    \/ \E r \in Replicas : Start(r) \/ Crash(r)
    \/ ForeignMessage

Next == HandlerNext \/ EnvironmentNext \/ \E r \in Replicas : LoopNext(r)

Spec == Init /\ [][Next]_vars

-----------------------------------------------------------------------------
(* Fairness.  The loop is a bare for {} around Tick and a stopped container is
   restarted, so a step of the loop that stays possible is taken.  The rest is
   what the liveness property asks of the parties outside this module: the
   queue hands out each visible message some time, a crash does not come
   before the loop's next step every single time, and processFn does not fail
   on the same task for ever. *)
Receives(m) ==
    /\ \E r \in Replicas : PickTaskFromQueue(r)
    /\ place[m] = "visible" /\ place'[m] = "inflight"

Takes(m) ==
    /\ \E r \in Replicas : StartRecord(r) /\ current'[r] = m

Disposes(m) ==
    \E r \in Replicas : ProcessFnReturns(r, "Success", FALSE) /\ current[r] = m

Fairness ==
    /\ \A r \in Replicas : WF_vars(Start(r)) /\ WF_vars(LoopNext(r))
    /\ \A m \in Msgs : /\ WF_vars(VisibilityTimeout(m))
                       /\ SF_vars(Receives(m))
                       /\ SF_vars(Takes(m))
                       /\ SF_vars(Disposes(m))

FairSpec == Spec /\ Fairness

-----------------------------------------------------------------------------
(* A task whose PUT was answered 200 is never lost: a message that carries it
   is in the queue, or processFn has returned for that message a result after
   which PickUpNextAvailableTask means to delete it. *)
NoAcceptedTaskLost ==
    \A t \in acked :
        \E m \in Msgs : /\ body[m] = t
                        /\ place[m] \in {"visible", "inflight"} \/ m \in disposed

(* DispatchTask writes the status row before it sends the message, so a worker
   never picks up a task that has no row, even when the send's answer is lost,
   the request is retried or the replica crashes in between. *)
StatusRowPrecedesMessage ==
    \A m \in Msgs : body[m] \in Tasks => status[body[m]] # "none"

(* A message leaves the queue in one way only: a replica that is itself at the
   delete call for that message, with a deleting result of processFn behind it.
   A crash, a timeout, an error or another replica's failure never removes it. *)
OnlyItsProcessorDeletes ==
    [][\A m \in Msgs :
          place[m] # "deleted" /\ place'[m] = "deleted" =>
              \E r \in Replicas : /\ loop[r] = "deleting" /\ current[r] = m
                                  /\ m \in disposed]_vars

(* Every accepted task is eventually handled: the redelivery of messages whose
   replica crashed, whose processing failed or whose delete was lost makes up
   for all of these. *)
AcceptedTaskIsHandled ==
    \A t \in Tasks :
        t \in acked ~> \E m \in Msgs : body[m] = t /\ m \in disposed
=============================================================================
