------------------------- MODULE TaskServiceProofs -------------------------
(***************************************************************************)
(* Proofs about TaskService, for any number of replicas, clients, tasks    *)
(* and messages and any set of faults.                                     *)
(*                                                                         *)
(* None of the invariants is inductive as it stands: TypeOK does not say   *)
(* that the loop has a record when processFn returns, and                  *)
(* NoAcceptedTaskLost says neither that a message at the delete call was   *)
(* disposed of nor that a message not yet sent carries no task.  IInv adds *)
(* these facts.                                                            *)
(***************************************************************************)
EXTENDS TaskService, TLAPS

(* The loop holds a record from processFn's call to the end of the delete. *)
RecordHeld ==
    \A r \in Replicas : loop[r] \in {"processing", "deleting"} => current[r] \in Msgs

(* The record at the delete call has had a deleting result. *)
DeletesDisposed ==
    \A r \in Replicas : loop[r] = "deleting" => current[r] \in disposed

(* Only messages with a deleting result have left the queue. *)
GoneIsDisposed ==
    \A m \in Msgs : place[m] = "deleted" => m \in disposed

(* A message not yet sent has no body for SendMessage to overwrite. *)
UnsentIsEmpty ==
    \A m \in Msgs : place[m] = "unsent" => body[m] = NoBody

(* A PUT is answered 200 only after a message carries its task. *)
AckedIsSent ==
    \A t \in acked : \E m \in Msgs : body[m] = t

(* A handler that is about to send has written the status row. *)
RowBeforeSend ==
    \A h \in handlers : h.step = "EnqueueTask" => status[h.task] # "none"

IInv ==
    /\ TypeOK
    /\ RecordHeld
    /\ DeletesDisposed
    /\ GoneIsDisposed
    /\ UnsentIsEmpty
    /\ AckedIsSent
    /\ RowBeforeSend
    /\ StatusRowPrecedesMessage

-----------------------------------------------------------------------------
(* Every operation keeps the type of each variable it assigns. *)
LEMMA TypeStep == TypeOK /\ RecordHeld /\ [Next]_vars => TypeOK'
<1> USE NullsAssumption
<1> SUFFICES ASSUME TypeOK, RecordHeld, [Next]_vars
             PROVE  TypeOK'
    OBVIOUS
<1> USE DEF TypeOK, Handler, TaskStatuses
<1>1. ASSUME NEW c \in Clients, NEW r \in Replicas, NEW t \in Tasks, ReceiveRequest(c, r, t)
      PROVE  TypeOK'
      BY <1>1 DEF ReceiveRequest, queueVars, loopVars
<1>2. ASSUME NEW h \in handlers, PutTaskStatus(h)
      PROVE  TypeOK'
      <2>1. [h EXCEPT !.step = "EnqueueTask"] \in Handler /\ h.task \in Tasks
            OBVIOUS
      <2>2. handlers' \subseteq Handler
            BY <1>2, <2>1 DEF PutTaskStatus
      <2>3. status' \in [Tasks -> TaskStatuses \cup {"none"}]
            BY <1>2, <2>1 DEF PutTaskStatus, UpsertStatus
      <2> QED BY <1>2, <2>2, <2>3 DEF PutTaskStatus, queueVars, loopVars
<1>3. ASSUME NEW h \in handlers, EnqueueTask(h)
      PROVE  TypeOK'
      <2>1. h.task \in Tasks
            OBVIOUS
      <2> QED BY <1>3, <2>1 DEF EnqueueTask, Store, Unsent, queueVars, loopVars
<1>4. ASSUME NEW r \in Replicas, PickTaskFromQueue(r)
      PROVE  TypeOK'
      <2>1. PICK S \in SUBSET Visible :
               /\ place' = [m \in Msgs |-> IF m \in S THEN "inflight" ELSE place[m]]
               /\ holder' = [m \in Msgs |-> IF m \in S THEN r ELSE holder[m]]
               /\ batch' = [batch EXCEPT ![r] = S] \/ UNCHANGED batch
               /\ \/ loop' = [loop EXCEPT ![r] = RangeOver(S)]
                  \/ loop' = [loop EXCEPT ![r] = "stopped"]
            BY <1>4 DEF PickTaskFromQueue
      <2>2. S \subseteq Msgs
            BY DEF Visible
      <2> QED BY <1>4, <2>1, <2>2 DEF PickTaskFromQueue, RangeOver
<1>5. ASSUME NEW r \in Replicas, StartRecord(r)
      PROVE  TypeOK'
      BY <1>5 DEF StartRecord, Die, UpdateTaskStatus, queueVars
<1>6. ASSUME NEW r \in Replicas, NEW result \in TaskResult, NEW failed \in BOOLEAN,
             ProcessFnReturns(r, result, failed)
      PROVE  TypeOK'
      <2>1. CASE loop' = [loop EXCEPT ![r] = "deleting"] /\ UNCHANGED <<status, batch, current>>
                 /\ disposed' = disposed \cup {current[r]}
            BY <1>6, <2>1 DEF ProcessFnReturns, RecordHeld, queueVars
      <2> QED BY <1>6, <2>1 DEF ProcessFnReturns, UpdateTaskStatus, EndRecord, RangeOver, queueVars
<1>7. ASSUME NEW r \in Replicas, DeleteTaskFromQueue(r)
      PROVE  TypeOK'
      BY <1>7 DEF DeleteTaskFromQueue, DeleteMessage, UpdateTaskStatus, EndRecord, RangeOver
<1>8. ASSUME NEW m \in Msgs, VisibilityTimeout(m)
      PROVE  TypeOK'
      BY <1>8 DEF VisibilityTimeout, loopVars
<1>9. ASSUME NEW r \in Replicas, Start(r) \/ Crash(r)
      PROVE  TypeOK'
      BY <1>9 DEF Start, Crash, Die, queueVars
<1>10. ASSUME ForeignMessage
       PROVE  TypeOK'
       BY <1>10 DEF ForeignMessage, Store, Unsent, loopVars
<1>11. CASE UNCHANGED vars
       BY <1>11 DEF vars, queueVars, loopVars
<1> QED
    BY <1>1, <1>2, <1>3, <1>4, <1>5, <1>6, <1>7, <1>8, <1>9, <1>10, <1>11
    DEF Next, HandlerNext, EnvironmentNext, LoopNext

(* What each action does to the record a loop holds. *)
LEMMA RecordStep ==
    ASSUME IInv, [Next]_vars
    PROVE  RecordHeld' /\ DeletesDisposed'
<1> USE DEF IInv, TypeOK, RecordHeld, DeletesDisposed
<1>1. ASSUME UNCHANGED <<loop, current, disposed>>
      PROVE  RecordHeld' /\ DeletesDisposed'
      BY <1>1
<1>2. ASSUME NEW r \in Replicas, PickTaskFromQueue(r)
      PROVE  RecordHeld' /\ DeletesDisposed'
      <2>1. PICK S \in SUBSET Visible :
               loop' = [loop EXCEPT ![r] = RangeOver(S)] \/ loop' = [loop EXCEPT ![r] = "stopped"]
            BY <1>2 DEF PickTaskFromQueue
      <2> QED BY <1>2, <2>1 DEF PickTaskFromQueue, RangeOver
<1>3. ASSUME NEW r \in Replicas, StartRecord(r)
      PROVE  RecordHeld' /\ DeletesDisposed'
      <2>1. PICK m \in batch[r] :
               \/ Die(r)
               \/ /\ current' = [current EXCEPT ![r] = m]
                  /\ loop' = [loop EXCEPT ![r] = "processing"]
            BY <1>3 DEF StartRecord
      <2>2. m \in Msgs
            OBVIOUS
      <2> QED BY <1>3, <2>1, <2>2 DEF StartRecord, Die
<1>4. ASSUME NEW r \in Replicas, NEW result \in TaskResult, NEW failed \in BOOLEAN,
             ProcessFnReturns(r, result, failed)
      PROVE  RecordHeld' /\ DeletesDisposed'
      <2>1. CASE EndRecord(r) /\ UNCHANGED disposed
            BY <2>1 DEF EndRecord, RangeOver
      <2>2. CASE /\ disposed' = disposed \cup {current[r]}
                 /\ loop' = [loop EXCEPT ![r] = "deleting"]
                 /\ UNCHANGED current
            BY <1>4, <2>2 DEF ProcessFnReturns
      <2> QED BY <1>4, <2>1, <2>2 DEF ProcessFnReturns
<1>5. ASSUME NEW r \in Replicas, DeleteTaskFromQueue(r)
      PROVE  RecordHeld' /\ DeletesDisposed'
      BY <1>5 DEF DeleteTaskFromQueue, DeleteMessage, EndRecord, RangeOver
<1>6. ASSUME NEW r \in Replicas, Start(r) \/ Crash(r)
      PROVE  RecordHeld' /\ DeletesDisposed'
      BY <1>6 DEF Start, Crash, Die
<1>7. CASE HandlerNext \/ ForeignMessage \/ (\E m \in Msgs : VisibilityTimeout(m))
           \/ UNCHANGED vars
      BY <1>1, <1>7 DEF HandlerNext, ReceiveRequest, PutTaskStatus, EnqueueTask,
         ForeignMessage, VisibilityTimeout, vars, loopVars
<1> QED
    BY <1>2, <1>3, <1>4, <1>5, <1>6, <1>7 DEF Next, EnvironmentNext, LoopNext

(* SendMessage takes a message that carried nothing, and gives it the body. *)
LEMMA StoreEffect ==
    ASSUME TypeOK, UnsentIsEmpty, NEW b, Store(b), b \in Tasks \cup {Malformed, NullBody}
    PROVE  /\ UnsentIsEmpty'
           /\ \A m \in Msgs : body[m] # NoBody => body'[m] = body[m]
           /\ \E m \in Msgs : body'[m] = b
           /\ \A m \in Msgs : body'[m] \in {body[m], b}
           /\ \A m \in Msgs : place'[m] = "deleted" => place[m] = "deleted"
BY DEF Store, Unsent, UnsentIsEmpty, TypeOK

(* What each action does to the queue. *)
LEMMA QueueStep ==
    ASSUME IInv, [Next]_vars
    PROVE  GoneIsDisposed' /\ UnsentIsEmpty' /\ AckedIsSent'
<1> USE NullsAssumption
<1> USE DEF IInv, TypeOK, GoneIsDisposed, UnsentIsEmpty, AckedIsSent
<1> DEFINE Goal == GoneIsDisposed' /\ UnsentIsEmpty' /\ AckedIsSent'
<1>1. ASSUME UNCHANGED <<place, body, acked>>, disposed \subseteq disposed'
      PROVE  Goal
      BY <1>1
<1>2. ASSUME NEW h \in handlers, EnqueueTask(h)
      PROVE  Goal
      <2>1. h.task \in Tasks /\ UNCHANGED disposed
            BY <1>2 DEF Handler, EnqueueTask
      <2>2. CASE Store(h.task) /\ acked' = acked \cup {h.task}
            <3>1. /\ UnsentIsEmpty'
                  /\ \A m \in Msgs : body[m] # NoBody => body'[m] = body[m]
                  /\ \E m \in Msgs : body'[m] = h.task
                  /\ \A m \in Msgs : place'[m] = "deleted" => place[m] = "deleted"
                  BY <2>1, <2>2, StoreEffect
            <3> QED BY <2>1, <2>2, <3>1
      <2>3. CASE Store(h.task) /\ UNCHANGED acked
            <3>1. /\ UnsentIsEmpty'
                  /\ \A m \in Msgs : body[m] # NoBody => body'[m] = body[m]
                  /\ \A m \in Msgs : place'[m] = "deleted" => place[m] = "deleted"
                  BY <2>1, <2>3, StoreEffect
            <3> QED BY <2>1, <2>3, <3>1
      <2>4. CASE UNCHANGED queueVars /\ UNCHANGED acked
            BY <1>1, <2>1, <2>4 DEF queueVars
      <2> QED BY <1>2, <2>2, <2>3, <2>4 DEF EnqueueTask
<1>3. ASSUME ForeignMessage
      PROVE  Goal
      <2>1. PICK b \in {Malformed, NullBody} : Store(b)
            BY <1>3 DEF ForeignMessage
      <2>2. UNCHANGED <<acked, disposed>>
            BY <1>3 DEF ForeignMessage
      <2>3. /\ UnsentIsEmpty'
            /\ \A m \in Msgs : body[m] # NoBody => body'[m] = body[m]
            /\ \A m \in Msgs : place'[m] = "deleted" => place[m] = "deleted"
            BY <2>1, StoreEffect
      <2> QED BY <2>2, <2>3
<1>4. ASSUME NEW r \in Replicas, PickTaskFromQueue(r)
      PROVE  Goal
      <2>1. PICK S \in SUBSET Visible :
               place' = [m \in Msgs |-> IF m \in S THEN "inflight" ELSE place[m]]
            BY <1>4 DEF PickTaskFromQueue
      <2> QED BY <1>4, <2>1 DEF PickTaskFromQueue, Visible
<1>5. ASSUME NEW r \in Replicas, DeleteTaskFromQueue(r)
      PROVE  Goal
      <2>1. current[r] \in Msgs /\ current[r] \in disposed
            BY <1>5 DEF DeleteTaskFromQueue, DeleteMessage, RecordHeld, DeletesDisposed
      <2> QED BY <1>5, <2>1 DEF DeleteTaskFromQueue, DeleteMessage
<1>6. ASSUME NEW m \in Msgs, VisibilityTimeout(m)
      PROVE  Goal
      BY <1>6 DEF VisibilityTimeout
<1>7. ASSUME NEW r \in Replicas, NEW result \in TaskResult, NEW failed \in BOOLEAN,
             ProcessFnReturns(r, result, failed)
      PROVE  Goal
      BY <1>1, <1>7 DEF ProcessFnReturns, queueVars
<1>8. ASSUME NEW r \in Replicas, StartRecord(r) \/ Start(r) \/ Crash(r)
      PROVE  Goal
      BY <1>1, <1>8 DEF StartRecord, Start, Crash, queueVars
<1>9. ASSUME NEW c \in Clients, NEW r \in Replicas, NEW t \in Tasks, ReceiveRequest(c, r, t)
      PROVE  Goal
      BY <1>1, <1>9 DEF ReceiveRequest, queueVars
<1>10. ASSUME NEW h \in handlers, PutTaskStatus(h)
       PROVE  Goal
       BY <1>1, <1>10 DEF PutTaskStatus, queueVars
<1>11. CASE UNCHANGED vars
       BY <1>1, <1>11 DEF vars, queueVars
<1> QED
    BY <1>2, <1>3, <1>4, <1>5, <1>6, <1>7, <1>8, <1>9, <1>10, <1>11
    DEF Next, HandlerNext, EnvironmentNext, LoopNext

(* What each action does to the status rows and to the bodies they precede. *)
LEMMA RowStep ==
    ASSUME IInv, [Next]_vars
    PROVE  RowBeforeSend' /\ StatusRowPrecedesMessage'
<1> USE NullsAssumption
<1> USE DEF IInv, TypeOK, Handler, RowBeforeSend, StatusRowPrecedesMessage
<1> DEFINE Goal == RowBeforeSend' /\ StatusRowPrecedesMessage'
<1>1. ASSUME UNCHANGED <<status, body>>, handlers' \subseteq handlers
      PROVE  Goal
      BY <1>1
<1>2. ASSUME NEW c \in Clients, NEW r \in Replicas, NEW t \in Tasks, ReceiveRequest(c, r, t)
      PROVE  Goal
      BY <1>2 DEF ReceiveRequest, queueVars
<1>3. ASSUME NEW h \in handlers, PutTaskStatus(h)
      PROVE  Goal
      <2>1. h.task \in Tasks /\ UNCHANGED body
            BY <1>3 DEF PutTaskStatus, queueVars
      <2>2. \A t \in Tasks : status[t] # "none" => status'[t] # "none"
            BY <1>3, <2>1 DEF PutTaskStatus, UpsertStatus
      <2>3. StatusRowPrecedesMessage'
            BY <2>1, <2>2
      <2>4. CASE /\ UpsertStatus(h.task)
                 /\ handlers' = (handlers \ {h}) \cup {[h EXCEPT !.step = "EnqueueTask"]}
            <3>1. [h EXCEPT !.step = "EnqueueTask"].task = h.task
                  OBVIOUS
            <3> QED BY <2>1, <2>2, <2>3, <2>4, <3>1 DEF UpsertStatus
      <2>5. CASE handlers' = handlers \ {h}
            BY <2>2, <2>3, <2>5
      <2> QED BY <1>3, <2>4, <2>5 DEF PutTaskStatus
<1>4. ASSUME NEW h \in handlers, EnqueueTask(h)
      PROVE  Goal
      <2>1. /\ h.task \in Tasks /\ status[h.task] # "none"
            /\ UNCHANGED status /\ handlers' \subseteq handlers
            BY <1>4 DEF EnqueueTask
      <2>2. CASE Store(h.task)
            <3>1. \A m \in Msgs : body'[m] \in {body[m], h.task}
                  BY <2>1, <2>2, StoreEffect
            <3> QED BY <2>1, <3>1
      <2>3. CASE UNCHANGED queueVars
            BY <1>1, <2>1, <2>3 DEF queueVars
      <2> QED BY <1>4, <2>2, <2>3 DEF EnqueueTask
<1>5. ASSUME ForeignMessage
      PROVE  Goal
      <2>1. PICK b \in {Malformed, NullBody} : Store(b)
            BY <1>5 DEF ForeignMessage
      <2>2. UNCHANGED <<status, handlers>>
            BY <1>5 DEF ForeignMessage
      <2>3. \A m \in Msgs : body'[m] \in {body[m], b}
            BY <2>1, StoreEffect
      <2> QED BY <2>2, <2>3
<1>6. ASSUME NEW r \in Replicas, LoopNext(r)
      PROVE  Goal
      BY <1>1, <1>6 DEF LoopNext, PickTaskFromQueue, StartRecord, Die, ProcessFnReturns,
         DeleteTaskFromQueue, DeleteMessage, UpdateTaskStatus, queueVars
<1>7. ASSUME NEW r \in Replicas, Start(r) \/ Crash(r)
      PROVE  Goal
      BY <1>1, <1>7 DEF Start, Crash, Die, queueVars
<1>8. ASSUME NEW m \in Msgs, VisibilityTimeout(m)
      PROVE  Goal
      BY <1>1, <1>8 DEF VisibilityTimeout
<1>9. CASE UNCHANGED vars
      BY <1>1, <1>9 DEF vars, queueVars
<1> QED
    BY <1>2, <1>3, <1>4, <1>5, <1>6, <1>7, <1>8, <1>9
    DEF Next, HandlerNext, EnvironmentNext

LEMMA InitIInv == Init => IInv
BY NullsAssumption
DEF Init, IInv, TypeOK, Handler, RecordHeld, DeletesDisposed, GoneIsDisposed, UnsentIsEmpty,
    AckedIsSent, RowBeforeSend, StatusRowPrecedesMessage

LEMMA StepIInv == IInv /\ [Next]_vars => IInv'
BY TypeStep, RecordStep, QueueStep, RowStep DEF IInv

THEOREM Invariance == Spec => []IInv
BY InitIInv, StepIInv, PTL DEF Spec

-----------------------------------------------------------------------------
(* Type correctness of the task pipeline. *)
THEOREM TypeCorrect == Spec => []TypeOK
<1>1. IInv => TypeOK
      BY DEF IInv
<1> QED BY <1>1, Invariance, PTL

(* A task whose PUT was answered 200 is in the queue or was disposed of, for
   any pattern of faults: AckedIsSent names its message, UnsentIsEmpty says it
   was sent, GoneIsDisposed says why it left. *)
THEOREM AcceptedNeverLost == Spec => []NoAcceptedTaskLost
<1>1. IInv => NoAcceptedTaskLost
      <2> SUFFICES ASSUME IInv, NEW t \in acked
                   PROVE  \E m \in Msgs :
                             /\ body[m] = t
                             /\ place[m] \in {"visible", "inflight"} \/ m \in disposed
          BY DEF NoAcceptedTaskLost
      <2>1. PICK m \in Msgs : body[m] = t
            BY DEF IInv, AckedIsSent
      <2>2. body[m] # NoBody
            BY <2>1, NullsAssumption DEF IInv, TypeOK
      <2> QED BY <2>1, <2>2 DEF IInv, TypeOK, UnsentIsEmpty, GoneIsDisposed
<1> QED BY <1>1, Invariance, PTL

(* Every task in the queue has a status row. *)
THEOREM RowPrecedesMessage == Spec => []StatusRowPrecedesMessage
<1>1. IInv => StatusRowPrecedesMessage
      BY DEF IInv
<1> QED BY <1>1, Invariance, PTL

(* A message leaves the queue only by the delete call of the replica that had
   a deleting result for it. *)
THEOREM OnlyProcessorDeletes == Spec => OnlyItsProcessorDeletes
<1> DEFINE Safe == \A m \in Msgs :
                      place[m] # "deleted" /\ place'[m] = "deleted" =>
                          \E r \in Replicas : /\ loop[r] = "deleting" /\ current[r] = m
                                              /\ m \in disposed
<1>1. IInv /\ [Next]_vars => [Safe]_vars
      <2> SUFFICES ASSUME IInv, Next, NEW m \in Msgs,
                          place[m] # "deleted", place'[m] = "deleted"
                   PROVE  \E r \in Replicas : /\ loop[r] = "deleting" /\ current[r] = m
                                              /\ m \in disposed
          OBVIOUS
      <2> USE DEF IInv, TypeOK
      <2>1. ASSUME NEW r \in Replicas, DeleteTaskFromQueue(r)
            PROVE  loop[r] = "deleting" /\ current[r] = m /\ m \in disposed
            BY <2>1 DEF DeleteTaskFromQueue, DeleteMessage, DeletesDisposed
      <2>2. ASSUME NEW b \in Tasks \cup {Malformed, NullBody}, Store(b)
            PROVE  FALSE
            BY <2>2, StoreEffect
      <2>3. ASSUME NEW r \in Replicas, PickTaskFromQueue(r)
            PROVE  FALSE
            BY <2>3 DEF PickTaskFromQueue
      <2>4. ASSUME HandlerNext
            PROVE  FALSE
            <3>1. ASSUME NEW h \in handlers, EnqueueTask(h)
                  PROVE  FALSE
                  BY <2>2, <3>1 DEF EnqueueTask, Handler, queueVars
            <3> QED BY <2>4, <3>1 DEF HandlerNext, ReceiveRequest, PutTaskStatus, queueVars
      <2>5. ASSUME EnvironmentNext
            PROVE  FALSE
            BY <2>2, <2>5 DEF EnvironmentNext, VisibilityTimeout, Start, Crash,
               ForeignMessage, queueVars
      <2> QED BY <2>1, <2>3, <2>4, <2>5 DEF Next, LoopNext, StartRecord, ProcessFnReturns, queueVars
<1> QED BY <1>1, Invariance, PTL DEF Spec, OnlyItsProcessorDeletes
=============================================================================
